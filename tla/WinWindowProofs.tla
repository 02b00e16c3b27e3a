-------------------------- MODULE WinWindowProofs --------------------------
(***************************************************************************)
(* Proofs about the windows of the Windows backend, for every set of       *)
(* windows, sizes and key texts, every session, and queues and nested      *)
(* callbacks of any length.                                                *)
(***************************************************************************)
EXTENDS WinWindow, FiniteSetTheorems, WellFoundedInduction, TLAPS

-----------------------------------------------------------------------------
(* Sequences *)

LEMMA Appended ==
  ASSUME NEW S, NEW q \in Seq(S), NEW e \in S
  PROVE  /\ Append(q, e) \in Seq(S) /\ Append(q, e) # <<>>
         /\ Len(Append(q, e)) = Len(q) + 1
         /\ DOMAIN Append(q, e) = DOMAIN q \cup {Len(q) + 1}
         /\ Len(q) + 1 \notin DOMAIN q
         /\ \A i \in DOMAIN q : Append(q, e)[i] = q[i]
         /\ Append(q, e)[Len(q) + 1] = e
<1>1. /\ Append(q, e) \in Seq(S) /\ Len(Append(q, e)) = Len(q) + 1 /\ Len(q) \in Nat
      /\ \A i \in 1 .. Len(q) : Append(q, e)[i] = q[i]
      /\ Append(q, e)[Len(q) + 1] = e
      /\ DOMAIN q = 1 .. Len(q) /\ DOMAIN Append(q, e) = 1 .. Len(q) + 1
  OBVIOUS
<1>2. 1 .. Len(q) + 1 = (1 .. Len(q)) \cup {Len(q) + 1} /\ Len(q) + 1 \notin 1 .. Len(q)
  BY <1>1
<1>3. Append(q, e) # <<>>
  BY <1>1
<1> QED
  BY <1>1, <1>2, <1>3

LEMMA HeadAndTail ==
  ASSUME NEW S, NEW q \in Seq(S), q # <<>>
  PROVE  /\ 1 \in DOMAIN q /\ Head(q) = q[1] /\ Head(q) \in S /\ Tail(q) \in Seq(S)
         /\ \A i \in DOMAIN Tail(q) :
              i \in Nat /\ i + 1 \in DOMAIN q /\ i + 1 # 1 /\ Tail(q)[i] = q[i + 1]
         /\ \A i \in DOMAIN q : i # 1 => \E j \in DOMAIN Tail(q) : Tail(q)[j] = q[i]
<1>1. /\ Head(q) \in S /\ Tail(q) \in Seq(S) /\ Head(q) = q[1]
      /\ Len(Tail(q)) = Len(q) - 1 /\ Len(q) \in Nat \ {0}
      /\ \A i \in 1 .. Len(q) - 1 : Tail(q)[i] = q[i + 1]
      /\ DOMAIN q = 1 .. Len(q) /\ DOMAIN Tail(q) = 1 .. Len(q) - 1
  OBVIOUS
<1>2. ASSUME NEW i \in DOMAIN q, i # 1
      PROVE  i - 1 \in DOMAIN Tail(q) /\ Tail(q)[i - 1] = q[i]
  BY <1>1, <1>2
<1>3. \A i \in DOMAIN Tail(q) :
        i \in Nat /\ i + 1 \in DOMAIN q /\ i + 1 # 1 /\ Tail(q)[i] = q[i + 1]
  BY <1>1
<1> QED
  BY <1>1, <1>2, <1>3

\* The callback on top of the stack, and those below.
LEMMA FrontAndLast ==
  ASSUME NEW S, NEW q \in Seq(S), q # <<>>
  PROVE  /\ Last(q) \in S /\ Front(q) \in Seq(S) /\ Last(q) = q[Len(q)]
         /\ Len(q) \in Nat \ {0} /\ Len(q) \in DOMAIN q /\ 1 \in DOMAIN q
         /\ Len(q) = 1 => Front(q) = <<>> /\ Last(q) = q[1]
         /\ Len(q) # 1 => Front(q) # <<>> /\ Front(q)[1] = q[1]
         /\ \A i \in DOMAIN Front(q) : i \in DOMAIN q /\ Front(q)[i] = q[i]
<1>1. /\ Len(q) \in Nat \ {0} /\ DOMAIN q = 1 .. Len(q)
      /\ \A i \in DOMAIN q : q[i] \in S
  OBVIOUS
<1>2. Front(q) = [i \in 1 .. Len(q) - 1 |-> q[i]]
  BY <1>1 DEF Front
<1>3. Front(q) \in Seq(S) /\ Len(Front(q)) = Len(q) - 1 /\ DOMAIN Front(q) = 1 .. Len(q) - 1
  BY <1>1, <1>2
<1>4. Last(q) = q[Len(q)] /\ Last(q) \in S
  BY <1>1 DEF Last
<1>5. Len(q) = 1 => Front(q) = <<>>
  BY <1>3
<1>6. Len(q) # 1 => Front(q) # <<>> /\ Front(q)[1] = q[1]
  <2>1. Len(q) # 1 => 1 \in 1 .. Len(q) - 1
    BY <1>1
  <2>2. Len(q) # 1 => Front(q)[1] = q[1]
    BY <1>2, <2>1
  <2>3. Len(q) # 1 => Front(q) # <<>>
    BY <1>1, <1>3
  <2> QED
    BY <2>2, <2>3
<1> QED
  BY <1>1, <1>2, <1>3, <1>4, <1>5, <1>6

\* The place that counts the elements of a set up to one of them is a place of
\* its own for each, and there are as many as elements.
LEMMA Counted ==
  ASSUME NEW n \in Nat, NEW kept \in SUBSET (1 .. n)
  PROVE  /\ Cardinality(kept) \in Nat
         /\ \A i \in kept : Cardinality({k \in kept : k <= i}) \in 1 .. Cardinality(kept)
         /\ \A i, j \in kept :
              Cardinality({k \in kept : k <= i}) = Cardinality({k \in kept : k <= j}) => i = j
         /\ \A c \in 1 .. Cardinality(kept) :
              \E i \in kept : Cardinality({k \in kept : k <= i}) = c
<1> DEFINE upto(i) == {k \in kept : k <= i}
           out == [i \in kept |-> Cardinality(upto(i))]
<1>1. IsFiniteSet(kept) /\ Cardinality(kept) \in Nat
  <2>1. IsFiniteSet(1 .. n)
    BY FS_Interval
  <2> QED
    BY <2>1, FS_Subset, FS_CardinalityType
<1>2. ASSUME NEW i \in kept
      PROVE  /\ IsFiniteSet(upto(i)) /\ Cardinality(upto(i)) \in Nat
             /\ Cardinality(upto(i)) \in 1 .. Cardinality(kept)
  <2>1. upto(i) \in SUBSET kept /\ i \in upto(i)
    OBVIOUS
  <2>2. IsFiniteSet(upto(i)) /\ Cardinality(upto(i)) <= Cardinality(kept)
    BY <1>1, <2>1, FS_Subset
  <2>3. Cardinality(upto(i)) \in Nat
    BY <2>2, FS_CardinalityType
  <2>4. Cardinality(upto(i)) # 0
    BY <2>1, <2>2, FS_EmptySet
  <2> QED
    BY <1>1, <2>2, <2>3, <2>4
<1>3. ASSUME NEW i \in kept, NEW j \in kept, i < j
      PROVE  Cardinality(upto(i)) # Cardinality(upto(j))
  <2>0. \A k \in kept : k \in Int
    OBVIOUS
  <2>1. upto(i) \in SUBSET upto(j) /\ j \in upto(j) /\ j \notin upto(i)
    <3>1. ASSUME NEW k \in kept, k <= i PROVE k <= j
      BY <1>3, <2>0, <3>1
    <3>2. j <= j /\ ~ (j <= i)
      BY <1>3, <2>0
    <3> QED
      BY <3>1, <3>2
  <2>2. IsFiniteSet(upto(j))
    BY <1>2
  <2>3. Cardinality(upto(i)) = Cardinality(upto(j)) => upto(i) = upto(j)
    BY <2>1, <2>2, FS_Subset
  <2> QED
    BY <2>1, <2>3
<1>4. ASSUME NEW i \in kept, NEW j \in kept, Cardinality(upto(i)) = Cardinality(upto(j))
      PROVE  i = j
  <2>1. i < j \/ j < i \/ i = j
    OBVIOUS
  <2> HIDE DEF upto
  <2> QED
    BY <1>3, <1>4, <2>1
<1>5. out \in Injection(kept, 1 .. Cardinality(kept))
  <2> HIDE DEF upto
  <2>1. out \in [kept -> 1 .. Cardinality(kept)]
    BY <1>2
  <2>2. \A i, j \in kept : out[i] = out[j] => i = j
    BY <1>4
  <2> QED
    BY <2>1, <2>2 DEF Injection, IsInjective
<1>6. out \in Surjection(kept, 1 .. Cardinality(kept))
  <2>1. /\ IsFiniteSet(1 .. Cardinality(kept))
        /\ Cardinality(1 .. Cardinality(kept)) = Cardinality(kept)
    BY <1>1, FS_Interval
  <2> QED
    BY <1>5, <2>1, FS_Injection
<1>7. \A c \in 1 .. Cardinality(kept) : \E i \in kept : Cardinality(upto(i)) = c
  <2> HIDE DEF upto
  <2> QED
    BY <1>6 DEF Surjection
<1> QED
  BY <1>1, <1>2, <1>4, <1>7

\* Keep takes the members at the places kept, each once.
LEMMA KeepFacts ==
  ASSUME NEW S, NEW q \in Seq(S), NEW kept \in SUBSET (DOMAIN q)
  PROVE  /\ Keep(q, kept) \in Seq(S)
         /\ \E place \in [DOMAIN Keep(q, kept) -> kept] :
              /\ \A j \in DOMAIN Keep(q, kept) : Keep(q, kept)[j] = q[place[j]]
              /\ \A i, j \in DOMAIN Keep(q, kept) : place[i] = place[j] => i = j
              /\ \A i \in kept : \E j \in DOMAIN Keep(q, kept) : place[j] = i
<1> DEFINE out(i) == Cardinality({k \in kept : k <= i})
           n == Cardinality(kept)
           at(j) == CHOOSE i \in kept : out(i) = j
           place == [j \in 1 .. n |-> at(j)]
<1>1. kept \in SUBSET (1 .. Len(q)) /\ Len(q) \in Nat /\ DOMAIN q = 1 .. Len(q)
  OBVIOUS
<1>2. /\ n \in Nat /\ \A i \in kept : out(i) \in 1 .. n
      /\ \A i, j \in kept : out(i) = out(j) => i = j
      /\ \A j \in 1 .. n : \E i \in kept : out(i) = j
  BY <1>1, Counted
<1>3. Keep(q, kept) = [j \in 1 .. n |-> q[at(j)]]
  BY DEF Keep
<1> HIDE DEF out, n
<1>4. \A j \in 1 .. n : at(j) \in kept /\ out(at(j)) = j
  BY <1>2
<1>5. \A i \in kept : at(out(i)) = i
  <2> HIDE DEF at
  <2> QED
    BY <1>2, <1>4
<1> HIDE DEF at
<1>6. DOMAIN Keep(q, kept) = 1 .. n /\ \A j \in 1 .. n : Keep(q, kept)[j] = q[at(j)]
  BY <1>3
<1>7. Keep(q, kept) \in Seq(S)
  <2>1. \A j \in 1 .. n : q[at(j)] \in S
    BY <1>1, <1>4
  <2> QED
    BY <1>2, <1>3, <2>1
<1>8. place \in [1 .. n -> kept] /\ \A j \in 1 .. n : place[j] = at(j)
  BY <1>4
<1> HIDE DEF place
<1>9. \A i, j \in 1 .. n : place[i] = place[j] => i = j
  BY <1>4, <1>8
<1>10. \A i \in kept : \E j \in 1 .. n : place[j] = i
  BY <1>2, <1>5, <1>8
<1>11. \A j \in 1 .. n : Keep(q, kept)[j] = q[place[j]]
  BY <1>6, <1>8
<1>12. /\ place \in [DOMAIN Keep(q, kept) -> kept]
       /\ \A j \in DOMAIN Keep(q, kept) : Keep(q, kept)[j] = q[place[j]]
       /\ \A i, j \in DOMAIN Keep(q, kept) : place[i] = place[j] => i = j
       /\ \A i \in kept : \E j \in DOMAIN Keep(q, kept) : place[j] = i
  BY <1>6, <1>8, <1>9, <1>10, <1>11
<1> QED
  BY <1>7, <1>12

-----------------------------------------------------------------------------
(* Types *)

Pointed == Window \cup {None}

Message ==
  [on : {"show"}, win : Window, arg : BOOLEAN]
    \cup [on : {"command"}, win : Window, arg : Sizes]
    \cup [on : {"close", "leave", "move", "raw", "button", "keyup"}, win : Window, arg : {0}]
    \cup [on : {"keydown"}, win : Window, arg : Text]
    \cup [on : {"char", "user"}, win : {None}, arg : {0}]

\* The listener callbacks, and what win_proc does after each.
Frames ==
  {f \in [fn : Contexts, win : Window, arg : Nat,
          then : {"end", "command", "paint", "entered", "left", "moved"}] :
     /\ f.fn = "draw" <=> f.then = "paint"
     /\ f.fn = "enter" <=> f.then = "entered"
     /\ f.fn = "leave" <=> f.then = "left"
     /\ f.then = "moved" => f.fn = "move"
     /\ f.then = "command" => f.arg \in Sizes}

System ==
  [visible : SUBSET Window, invalid : SUBSET Window, size : [Window -> Nat],
   pointer : Pointed, tracked : Pointed, clip : Pointed, raw : Pointed,
   shown : {Arrow, "hand", "hidden"}]

WindowTypes ==
  /\ status \in [Window -> {"unborn", "live", "freed"}]
  /\ size \in [Window -> Nat]
  /\ cursor \in [Window -> {"unset", "hand", "hidden"}]
  /\ locked \subseteq Window
  /\ over \in Pointed
  /\ inside \subseteq Window
  /\ wanted \subseteq Window

QueueTypes ==
  /\ posted \in Seq(Message)
  /\ input \in Seq(Message)
  /\ msg \in {m \in Message : m.on \in {"keydown", "keyup"}} \cup {NoMsg}

\* Callbacks nest in a SetSize only: all but the first are told of a size.  No
\* callback is run while a key message waits to be dispatched.
StackInv ==
  /\ stack \in Seq(Frames)
  /\ \A i \in DOMAIN stack : i > 1 => stack[i].fn = "resize" /\ stack[i].then = "end"
  /\ msg # NoMsg => stack = <<>>

TypeInv == WindowTypes /\ QueueTypes /\ StackInv /\ sys \in System

\* The callback win_proc was called for from the message loop.
NoFrame == Frame("idle", None, "none", 0)
Under == IF stack = <<>> THEN NoFrame ELSE stack[1]

LEMMA FrameTypes ==
  ASSUME NEW w \in Window
  PROVE  /\ Frame("resize", w, "end", 0) \in Frames
         /\ Frame("close", w, "end", 0) \in Frames
         /\ Frame("input", w, "end", 0) \in Frames
         /\ Frame("move", w, "end", 0) \in Frames
         /\ Frame("move", w, "moved", 0) \in Frames
         /\ Frame("enter", w, "entered", 0) \in Frames
         /\ Frame("leave", w, "left", 0) \in Frames
         /\ Frame("draw", w, "paint", 0) \in Frames
         /\ \A n \in Nat : Frame("key", w, "end", n) \in Frames
         /\ \A s \in Sizes : Frame("state", w, "command", s) \in Frames
  BY WindowAssumption DEF Frame, Frames, Contexts

LEMMA MessageTypes ==
  /\ \A w \in Window :
       /\ \A b \in BOOLEAN : Msg("show", w, b) \in Message
       /\ \A s \in Sizes : Msg("command", w, s) \in Message
       /\ \A on \in {"close", "leave", "move", "raw", "button", "keyup"} :
            Msg(on, w, 0) \in Message
       /\ \A n \in Text : Msg("keydown", w, n) \in Message
  /\ Msg("char", None, 0) \in Message /\ Msg("user", None, 0) \in Message
  BY DEF Msg, Message

\* What a message of each kind carries.
LEMMA MessageFacts ==
  ASSUME NEW m \in Message
  PROVE  /\ m.win \in Pointed
         /\ m.on \notin {"char", "user"} => m.win \in Window
         /\ m.on = "show" => m.arg \in BOOLEAN
         /\ m.on = "command" => m.arg \in Sizes
         /\ m.on = "keydown" => m.arg \in Text
         /\ m # NoMsg
  BY DEF Message, Pointed, NoMsg, Msg

\* A callback for a message taken from the queue.
LEMMA Pushed ==
  ASSUME StackInv, stack = <<>>, NEW f \in Frames, Push(f), msg' = msg \/ msg' = NoMsg,
         msg = NoMsg \/ msg' = NoMsg
  PROVE  StackInv' /\ stack' = <<f>> /\ Under' = f /\ stack' # <<>> /\ Len(stack') = 1
<1>1. stack' = <<f>>
  BY DEF Push
<1>2. <<f>> \in Seq(Frames) /\ DOMAIN <<f>> = {1} /\ <<f>>[1] = f /\ <<f>> # <<>> /\ Len(<<f>>) = 1
  OBVIOUS
<1>3. msg' = NoMsg
  OBVIOUS
<1> QED
  BY <1>1, <1>2, <1>3 DEF StackInv, Under

\* A callback in a callback, or called by the application.
LEMMA Nested ==
  ASSUME StackInv, NEW w \in Window, Push(Frame("resize", w, "end", 0)),
         msg = NoMsg, UNCHANGED msg
  PROVE  /\ StackInv' /\ stack' # <<>>
         /\ stack # <<>> => Under' = Under
         /\ stack = <<>> => Under' = Frame("resize", w, "end", 0)
<1> DEFINE f == Frame("resize", w, "end", 0)
<1>1. f \in Frames /\ f.fn = "resize" /\ f.then = "end"
  BY FrameTypes DEF Frame
<1>2. stack' = Append(stack, f) /\ stack \in Seq(Frames)
  BY DEF Push, StackInv
<1> HIDE DEF f
<1>3. /\ stack' \in Seq(Frames) /\ stack' # <<>>
      /\ DOMAIN stack' = DOMAIN stack \cup {Len(stack) + 1}
      /\ \A i \in DOMAIN stack : stack'[i] = stack[i]
      /\ stack'[Len(stack) + 1] = f
  BY <1>1, <1>2, Appended
<1>4. StackInv'
  BY <1>1, <1>3 DEF StackInv
<1>5. stack # <<>> => 1 \in DOMAIN stack
  BY <1>2
<1>6. stack = <<>> => stack'[1] = f
  BY <1>3
<1> QED
  BY <1>3, <1>4, <1>5, <1>6 DEF Under, f

\* The callback that returns, and what is left of the stack.
LEMMA Returned ==
  ASSUME StackInv, stack # <<>>
  PROVE  /\ Last(stack) \in Frames /\ Front(stack) \in Seq(Frames)
         /\ \A i \in DOMAIN Front(stack) : i > 1 =>
              Front(stack)[i].fn = "resize" /\ Front(stack)[i].then = "end"
         /\ \/ Len(stack) = 1 /\ Front(stack) = <<>> /\ Last(stack) = Under
            \/ /\ Len(stack) # 1 /\ Front(stack) # <<>> /\ Front(stack)[1] = Under
               /\ Last(stack).then = "end" /\ Last(stack).fn = "resize"
<1>1. stack \in Seq(Frames) /\ Under = stack[1]
  BY DEF StackInv, Under
<1>2. /\ Last(stack) \in Frames /\ Front(stack) \in Seq(Frames) /\ Last(stack) = stack[Len(stack)]
      /\ Len(stack) \in Nat \ {0} /\ Len(stack) \in DOMAIN stack
      /\ Len(stack) = 1 => Front(stack) = <<>> /\ Last(stack) = stack[1]
      /\ Len(stack) # 1 => Front(stack) # <<>> /\ Front(stack)[1] = stack[1]
      /\ \A i \in DOMAIN Front(stack) : i \in DOMAIN stack /\ Front(stack)[i] = stack[i]
  BY <1>1, FrontAndLast
<1>3. Len(stack) # 1 => Last(stack).then = "end" /\ Last(stack).fn = "resize"
  <2>1. PICK n \in DOMAIN stack : n = Len(stack)
    BY <1>2
  <2>2. n # 1 => n > 1
    BY <1>2, <2>1
  <2>3. n > 1 => stack[n].then = "end" /\ stack[n].fn = "resize"
    BY DEF StackInv
  <2> QED
    BY <1>2, <2>1, <2>2, <2>3
<1>4. \A i \in DOMAIN Front(stack) : i > 1 =>
        Front(stack)[i].fn = "resize" /\ Front(stack)[i].then = "end"
  BY <1>2 DEF StackInv
<1> QED
  BY <1>1, <1>2, <1>3, <1>4

LEMMA StackSame ==
  ASSUME StackInv, UNCHANGED stack, msg' = msg \/ msg' = NoMsg \/ stack = <<>>
  PROVE  StackInv' /\ Under' = Under
  BY DEF StackInv, Under

\* The first of the posted messages, or of the input, is taken.
LEMMA TakenPosted ==
  ASSUME TypeInv, NEW name, OnPosted(name)
  PROVE  /\ stack = <<>> /\ msg = NoMsg /\ fault = "none" /\ posted # <<>>
         /\ Head(posted) \in Message /\ Head(posted).on = name /\ Head(posted) = posted[1]
         /\ 1 \in DOMAIN posted
         /\ posted' = Tail(posted) /\ UNCHANGED <<dispatching, msg, input>>
         /\ QueueTypes' /\ Under = NoFrame
<1>1. posted # <<>> /\ posted \in Seq(Message) /\ posted' = Tail(posted)
  BY DEF OnPosted, TypeInv, QueueTypes
<1>2. /\ Head(posted) \in Message /\ Head(posted) = posted[1] /\ 1 \in DOMAIN posted
      /\ posted' \in Seq(Message)
  BY <1>1, HeadAndTail
<1> QED
  BY <1>1, <1>2 DEF OnPosted, Taking, TypeInv, QueueTypes, Under

LEMMA TakenInput ==
  ASSUME TypeInv, NEW name, OnInput(name)
  PROVE  /\ stack = <<>> /\ msg = NoMsg /\ fault = "none" /\ posted = <<>> /\ input # <<>>
         /\ Head(input) \in Message /\ Head(input).on = name /\ Head(input) = input[1]
         /\ 1 \in DOMAIN input
         /\ input' = Tail(input) /\ input' \in Seq(Message)
         /\ UNCHANGED <<dispatching, msg>> /\ Under = NoFrame
<1>1. input # <<>> /\ input \in Seq(Message) /\ input' = Tail(input)
  BY DEF OnInput, TypeInv, QueueTypes
<1>2. /\ Head(input) \in Message /\ Head(input) = input[1] /\ 1 \in DOMAIN input
      /\ input' \in Seq(Message)
  BY <1>1, HeadAndTail
<1> QED
  BY <1>1, <1>2 DEF OnInput, Taking, TypeInv, QueueTypes, Under

\* A message is added at the end of a queue.
LEMMA Queued ==
  ASSUME NEW q \in Seq(Message), NEW m \in Message
  PROVE  /\ Append(q, m) \in Seq(Message)
         /\ \A i \in DOMAIN q : i \in DOMAIN Append(q, m) /\ Append(q, m)[i] = q[i]
         /\ \E n : /\ n \notin DOMAIN q /\ DOMAIN Append(q, m) = DOMAIN q \cup {n}
                   /\ Append(q, m)[n] = m
<1>1. /\ Append(q, m) \in Seq(Message)
      /\ DOMAIN Append(q, m) = DOMAIN q \cup {Len(q) + 1}
      /\ Len(q) + 1 \notin DOMAIN q
      /\ \A i \in DOMAIN q : Append(q, m)[i] = q[i]
      /\ Append(q, m)[Len(q) + 1] = m
  BY Appended
<1> QED
  BY <1>1

\* What PointerAt does to the messages and to the system; t is the system it is
\* given.
LEMMA PointerMoved ==
  ASSUME TypeInv, NEW w \in Pointed, NEW t \in System, PointerAt(w, t)
  PROVE  /\ posted' \in Seq(Message) /\ input' \in Seq(Message) /\ sys' \in System
         /\ sys'.pointer = w
         /\ sys'.visible = t.visible /\ sys'.invalid = t.invalid /\ sys'.size = t.size
         /\ sys'.clip = t.clip /\ sys'.raw = t.raw /\ sys'.shown = t.shown
         /\ \A i \in DOMAIN input' :
              \/ input'[i] = Msg("move", w, 0) /\ w # None
              \/ \E j \in DOMAIN input : input'[i] = input[j] /\ input[j].on # "move"
         /\ \/ /\ t.tracked \in {None, w} /\ sys'.tracked = t.tracked /\ posted' = posted
            \/ /\ t.tracked \in Window /\ t.tracked # w /\ sys'.tracked = None
               /\ posted' = Append(posted, Msg("leave", t.tracked, 0))
<1> DEFINE kept == {i \in DOMAIN input : input[i].on # "move"}
           rest == Keep(input, kept)
           leaves == t.tracked \notin {None, w}
<1>1. /\ posted' = IF leaves THEN Append(posted, Msg("leave", t.tracked, 0)) ELSE posted
      /\ input' = IF w = None THEN rest ELSE Append(rest, Msg("move", w, 0))
      /\ sys' = [t EXCEPT !.pointer = w, !.tracked = IF leaves THEN None ELSE @]
  BY DEF PointerAt
<1>2. rest \in Seq(Message) /\ \A i \in DOMAIN rest : \E j \in kept : rest[i] = input[j]
  <2>1. input \in Seq(Message) /\ kept \in SUBSET (DOMAIN input)
    BY DEF TypeInv, QueueTypes
  <2> HIDE DEF kept
  <2>2. rest \in Seq(Message)
    BY <2>1, KeepFacts
  <2>3. PICK place \in [DOMAIN rest -> kept] : \A j \in DOMAIN rest : rest[j] = input[place[j]]
    BY <2>1, KeepFacts
  <2> QED
    BY <2>2, <2>3
<1>3. leaves => t.tracked \in Window
  BY DEF System, Pointed
<1>4. /\ sys' \in System /\ sys'.pointer = w
      /\ sys'.visible = t.visible /\ sys'.invalid = t.invalid /\ sys'.size = t.size
      /\ sys'.clip = t.clip /\ sys'.raw = t.raw /\ sys'.shown = t.shown
      /\ sys'.tracked = IF leaves THEN None ELSE t.tracked
  BY <1>1 DEF System, Pointed
<1>5. posted' \in Seq(Message)
  <2>1. CASE leaves
    <3>1. Msg("leave", t.tracked, 0) \in Message
      BY <1>3, <2>1, MessageTypes
    <3> QED
      BY <1>1, <2>1, <3>1, Queued DEF TypeInv, QueueTypes
  <2> QED
    BY <1>1, <2>1 DEF TypeInv, QueueTypes
<1>6. /\ input' \in Seq(Message)
      /\ \A i \in DOMAIN input' :
           \/ input'[i] = Msg("move", w, 0) /\ w # None
           \/ \E j \in kept : input'[i] = input[j]
  <2> HIDE DEF rest, kept
  <2>1. CASE w = None
    BY <1>1, <1>2, <2>1
  <2>2. CASE w # None
    <3>1. Msg("move", w, 0) \in Message
      BY <2>2, MessageTypes DEF Pointed
    <3>2. PICK r \in Seq(Message) : r = rest
      BY <1>2
    <3>3. /\ Append(r, Msg("move", w, 0)) \in Seq(Message)
          /\ \A i \in DOMAIN r : Append(r, Msg("move", w, 0))[i] = r[i]
          /\ \E n : /\ DOMAIN Append(r, Msg("move", w, 0)) = DOMAIN r \cup {n}
                    /\ Append(r, Msg("move", w, 0))[n] = Msg("move", w, 0)
      BY <3>1, Queued
    <3>4. input' = Append(r, Msg("move", w, 0))
      BY <1>1, <2>2, <3>2
    <3> QED
      BY <1>2, <2>2, <3>2, <3>3, <3>4
  <2> QED
    BY <2>1, <2>2
<1> QED
  BY <1>1, <1>3, <1>4, <1>5, <1>6

\* WM_SIZE with the callbacks below it being run.
LEMMA Sized ==
  ASSUME TypeInv, NEW w \in Window, NEW s \in Nat, NEW below, WmSize(w, s, below)
  PROVE  /\ sys' \in System
         /\ sys'.visible = sys.visible
         /\ sys'.invalid = IF w \in sys.visible THEN sys.invalid \cup {w} ELSE sys.invalid
         /\ sys'.size = [sys.size EXCEPT ![w] = s]
         /\ sys'.pointer = sys.pointer /\ sys'.tracked = sys.tracked
         /\ sys'.clip = sys.clip /\ sys'.raw = sys.raw /\ sys'.shown = sys.shown
         /\ wanted' = IF w \in sys.visible THEN wanted \cup {w} ELSE wanted
         /\ wanted' \subseteq Window
         /\ size' = [size EXCEPT ![w] = s] /\ size' \in [Window -> Nat]
         /\ stack' = below \/ stack' = Append(below, Frame("resize", w, "end", 0))
<1>1. sys' = [sys EXCEPT !.size[w] = s, !.invalid = Redrawn(w)]
  BY DEF WmSize
<1>2. Redrawn(w) = IF w \in sys.visible THEN sys.invalid \cup {w} ELSE sys.invalid
  BY DEF Redrawn
<1>3. /\ sys' \in System
      /\ sys'.visible = sys.visible
      /\ sys'.invalid = IF w \in sys.visible THEN sys.invalid \cup {w} ELSE sys.invalid
      /\ sys'.size = [sys.size EXCEPT ![w] = s]
      /\ sys'.pointer = sys.pointer /\ sys'.tracked = sys.tracked
      /\ sys'.clip = sys.clip /\ sys'.raw = sys.raw /\ sys'.shown = sys.shown
  BY <1>1, <1>2 DEF TypeInv, System
<1> QED
  BY <1>3 DEF WmSize, TypeInv, WindowTypes

\* What win_proc does after a callback: f is the callback, rest what is below it.
LEMMA ReturnKinds ==
  ASSUME TypeInv, Return, NEW f, f = Last(stack), NEW rest, rest = Front(stack)
  PROVE  /\ f.then = "end" => stack' = rest /\ UNCHANGED <<size, over, posted, sys, wanted, fault>>
         /\ f.then = "paint" =>
              /\ stack' = rest /\ sys' = [sys EXCEPT !.invalid = @ \ {f.win}]
              /\ UNCHANGED <<size, over, posted, wanted, fault>>
         /\ f.then = "command" /\ Live(f.win) =>
              WmSize(f.win, f.arg, rest) /\ UNCHANGED <<over, posted, fault>>
         /\ f.then = "command" /\ ~Live(f.win) =>
              stack' = rest /\ UNCHANGED <<size, over, posted, sys, wanted, fault>>
         /\ f.then \in {"entered", "left", "moved"} /\ ~Live(f.win) =>
              /\ fault' = "freed window"
              /\ UNCHANGED <<stack, size, over, posted, sys, wanted>>
         /\ f.then = "entered" /\ Live(f.win) =>
              /\ over' = f.win /\ Track(f.win, sys, posted)
              /\ stack' = Append(rest, Frame("move", f.win, "moved", 0))
              /\ UNCHANGED <<size, wanted, fault>>
         /\ f.then = "left" /\ Live(f.win) =>
              over' = None /\ stack' = rest /\ UNCHANGED <<size, posted, sys, wanted, fault>>
         /\ f.then = "moved" /\ Live(f.win) =>
              stack' = rest /\ UNCHANGED <<size, over, posted, sys, wanted, fault>>
<1>1. CASE f.then = "end"
  BY <1>1 DEF Return
<1>2. CASE f.then = "paint"
  BY <1>2 DEF Return
<1>3. CASE f.then = "command"
  BY <1>3 DEF Return
<1>4. CASE f.then = "entered"
  BY <1>4 DEF Return
<1>5. CASE f.then = "left"
  BY <1>5 DEF Return
<1>6. CASE f.then = "moved"
  BY <1>6 DEF Return
<1>7. f \in Frames
  BY Returned DEF Return, TypeInv
<1>8. f.then \in {"end", "command", "paint", "entered", "left", "moved"}
  BY <1>7 DEF Frames
<1> QED
  BY <1>1, <1>2, <1>3, <1>4, <1>5, <1>6, <1>8

\* The same, as seen from the bottom of the stack.
LEMMA ReturnCases ==
  ASSUME TypeInv, Return
  PROVE  /\ UNCHANGED <<status, cursor, locked, buffer, dispatching, msg, input, inside, session>>
         /\ fault = "none" /\ stack # <<>> /\ msg = NoMsg /\ StackInv'
         /\ Under \in Frames
         /\ \/ /\ UNCHANGED <<size, over, posted, sys, wanted, fault>>
               /\ \/ Len(stack) # 1 /\ Under' = Under /\ stack' # <<>>
                  \/ /\ stack' = <<>> /\ Under' = NoFrame
                     /\ \/ Under.then \in {"end", "moved"}
                        \/ Under.then = "command" /\ ~Live(Under.win)
            \/ /\ Under.then = "paint" /\ stack' = <<>> /\ Under' = NoFrame
               /\ sys' = [sys EXCEPT !.invalid = @ \ {Under.win}]
               /\ UNCHANGED <<size, over, posted, wanted, fault>>
            \/ /\ Under.then = "command" /\ Live(Under.win)
               /\ WmSize(Under.win, Under.arg, <<>>)
               /\ Under' = NoFrame \/ Under' = Frame("resize", Under.win, "end", 0)
               /\ UNCHANGED <<over, posted, fault>>
            \/ /\ Under.then \in {"entered", "left", "moved"} /\ ~Live(Under.win)
               /\ fault' = "freed window" /\ Under' = Under
               /\ UNCHANGED <<stack, size, over, posted, sys, wanted>>
            \/ /\ Under.then = "entered" /\ Live(Under.win)
               /\ over' = Under.win /\ Track(Under.win, sys, posted)
               /\ Under' = Frame("move", Under.win, "moved", 0) /\ stack' # <<>>
               /\ UNCHANGED <<size, wanted, fault>>
            \/ /\ Under.then = "left" /\ Live(Under.win)
               /\ over' = None /\ stack' = <<>> /\ Under' = NoFrame
               /\ UNCHANGED <<size, posted, sys, wanted, fault>>
<1>1. /\ UNCHANGED <<status, cursor, locked, buffer, dispatching, msg, input, inside, session>>
      /\ fault = "none" /\ stack # <<>>
  BY DEF Return
<1>2. StackInv /\ msg = NoMsg /\ msg' = NoMsg
  BY <1>1 DEF TypeInv, StackInv
<1>3. PICK f \in Frames : f = Last(stack)
  BY <1>1, <1>2, Returned
<1>4. PICK rest \in Seq(Frames) : rest = Front(stack)
  BY <1>1, <1>2, Returned
<1>5. /\ \A i \in DOMAIN rest : i > 1 => rest[i].fn = "resize" /\ rest[i].then = "end"
      /\ \/ Len(stack) = 1 /\ rest = <<>> /\ f = Under
         \/ Len(stack) # 1 /\ rest # <<>> /\ rest[1] = Under /\ f.then = "end"
  BY <1>1, <1>2, <1>3, <1>4, Returned
<1>6. Under \in Frames
  BY <1>1, <1>2, <1>5, <1>3, <1>4
<1>7. stack' = rest => StackInv' /\ Under' = IF rest = <<>> THEN NoFrame ELSE rest[1]
  BY <1>2, <1>5 DEF StackInv, Under
<1>8. ASSUME NEW g \in Frames, stack' = <<g>>
      PROVE  StackInv' /\ Under' = g /\ stack' # <<>>
  <2>1. <<g>> \in Seq(Frames) /\ DOMAIN <<g>> = {1} /\ <<g>>[1] = g /\ <<g>> # <<>>
    OBVIOUS
  <2> QED
    BY <1>2, <1>8, <2>1 DEF StackInv, Under
<1>9. f.win \in Window /\ f.then \in {"end", "command", "paint", "entered", "left", "moved"}
  BY DEF Frames
<1>10. PICK r \in Frames : r = Frame("resize", f.win, "end", 0)
  BY <1>9, FrameTypes
<1>11. PICK m \in Frames : m = Frame("move", f.win, "moved", 0)
  BY <1>9, FrameTypes
<1>12. CASE f.then = "end"
  <2>1. stack' = rest /\ UNCHANGED <<size, over, posted, sys, wanted, fault>>
    BY <1>3, <1>4, <1>12, ReturnKinds
  <2> QED
    BY <1>1, <1>2, <1>5, <1>6, <1>7, <1>12, <2>1
<1>13. ASSUME f.then # "end" PROVE rest = <<>> /\ f = Under
  BY <1>5, <1>13
<1>14. CASE f.then = "paint"
  <2>1. /\ stack' = rest /\ sys' = [sys EXCEPT !.invalid = @ \ {f.win}]
        /\ UNCHANGED <<size, over, posted, wanted, fault>>
    BY <1>3, <1>4, <1>14, ReturnKinds
  <2> QED
    BY <1>1, <1>2, <1>6, <1>7, <1>13, <1>14, <2>1
<1>15. CASE f.then = "command" /\ Live(f.win)
  <2>1. WmSize(f.win, f.arg, rest) /\ UNCHANGED <<over, posted, fault>>
    BY <1>3, <1>4, <1>15, ReturnKinds
  <2>2. stack' = rest \/ stack' = Append(rest, r)
    BY <1>10, <2>1 DEF WmSize
  <2>3. stack' = <<>> \/ stack' = <<r>>
    BY <1>13, <1>15, <2>2
  <2>4. StackInv' /\ (Under' = NoFrame \/ Under' = r)
    BY <1>7, <1>8, <1>13, <1>15, <2>3
  <2>5. WmSize(Under.win, Under.arg, <<>>)
    BY <1>13, <1>15, <2>1
  <2> QED
    BY <1>1, <1>2, <1>6, <1>10, <1>13, <1>15, <2>1, <2>4, <2>5
<1>16. CASE f.then = "command" /\ ~Live(f.win)
  <2>1. stack' = rest /\ UNCHANGED <<size, over, posted, sys, wanted, fault>>
    BY <1>3, <1>4, <1>16, ReturnKinds
  <2> QED
    BY <1>1, <1>2, <1>6, <1>7, <1>13, <1>16, <2>1
<1>17. CASE f.then \in {"entered", "left", "moved"} /\ ~Live(f.win)
  <2>1. /\ fault' = "freed window"
        /\ UNCHANGED <<stack, size, over, posted, sys, wanted>>
    BY <1>3, <1>4, <1>17, ReturnKinds
  <2>2. StackInv' /\ Under' = Under
    BY <1>1, <1>2, <2>1, StackSame
  <2> QED
    BY <1>1, <1>2, <1>6, <1>13, <1>17, <2>1, <2>2
<1>18. CASE f.then = "entered" /\ Live(f.win)
  <2>1. /\ over' = f.win /\ Track(f.win, sys, posted)
        /\ stack' = Append(rest, m)
        /\ UNCHANGED <<size, wanted, fault>>
    BY <1>3, <1>4, <1>11, <1>18, ReturnKinds
  <2>2. stack' = <<m>>
    BY <1>13, <1>18, <2>1
  <2>3. StackInv' /\ Under' = m /\ stack' # <<>>
    BY <1>8, <2>2
  <2> QED
    BY <1>1, <1>2, <1>6, <1>11, <1>13, <1>18, <2>1, <2>3
<1>19. CASE f.then = "left" /\ Live(f.win)
  <2>1. over' = None /\ stack' = rest /\ UNCHANGED <<size, posted, sys, wanted, fault>>
    BY <1>3, <1>4, <1>19, ReturnKinds
  <2> QED
    BY <1>1, <1>2, <1>6, <1>7, <1>13, <1>19, <2>1
<1>20. CASE f.then = "moved" /\ Live(f.win)
  <2>1. stack' = rest /\ UNCHANGED <<size, over, posted, sys, wanted, fault>>
    BY <1>3, <1>4, <1>20, ReturnKinds
  <2> QED
    BY <1>1, <1>2, <1>6, <1>7, <1>13, <1>20, <2>1
<1> QED
  BY <1>9, <1>12, <1>14, <1>15, <1>16, <1>17, <1>18, <1>19, <1>20

\* Track asks for the leave message, or gets it at once.
LEMMA Tracked ==
  ASSUME TypeInv, NEW w \in Window, Track(w, sys, posted)
  PROVE  /\ sys' \in System /\ posted' \in Seq(Message)
         /\ sys'.visible = sys.visible /\ sys'.invalid = sys.invalid /\ sys'.size = sys.size
         /\ sys'.pointer = sys.pointer /\ sys'.clip = sys.clip /\ sys'.raw = sys.raw
         /\ sys'.shown = sys.shown
         /\ \/ sys.pointer = w /\ sys'.tracked = w /\ posted' = posted
            \/ /\ sys.pointer # w /\ sys'.tracked = sys.tracked
               /\ posted' = Append(posted, Msg("leave", w, 0))
<1>1. Msg("leave", w, 0) \in Message /\ posted \in Seq(Message)
  BY MessageTypes DEF TypeInv, QueueTypes
<1>2. Append(posted, Msg("leave", w, 0)) \in Seq(Message)
  BY <1>1, Queued
<1>3. CASE sys.pointer = w
  <2>1. sys' = [sys EXCEPT !.tracked = w] /\ posted' = posted
    BY <1>3 DEF Track
  <2> QED
    BY <1>1, <1>3, <2>1 DEF TypeInv, System, Pointed
<1>4. CASE sys.pointer # w
  BY <1>2, <1>4 DEF Track, TypeInv
<1> QED
  BY <1>3, <1>4

Images == {"unset", "hand", "hidden"}

\* The steps, by what they are about.
PaintSteps ==
  \/ WmShow \/ WmSysCommand \/ WmClose
  \/ \E w \in Window :
       \/ \E s \in Sizes : CreateWindow(w, s) \/ SetSize(w, s)
       \/ \E on \in BOOLEAN : Show(w, on)
       \/ Refresh(w) \/ WmPaint(w) \/ GetBuffer(w) \/ ApplyBuffer(w)

PointerSteps ==
  \/ WmMouseMove \/ WmMouseLeave \/ WmInput \/ WmButton
  \/ \E v \in Pointed : UserMoves(v)
  \/ \E w \in Window :
       LockPointer(w) \/ UnlockPointer(w) \/ \E c \in Images : SetCursor(w, c)

KeySteps == TakeKey \/ HandleKey \/ Drop \/ Wakeup

RestSteps ==
  \/ Return \/ Dispatch
  \/ \E w \in Window : Destroy(w) \/ UserInput(w) \/ UserCommands(w) \/ Uncover(w)

LEMMA Steps ==
  ASSUME [Next]_vars
  PROVE  PaintSteps \/ PointerSteps \/ KeySteps \/ RestSteps \/ UNCHANGED vars
<1>1. CASE UNCHANGED vars
  BY <1>1
<1>2. CASE Loop \/ Wakeup \/ UserMoves(None)
  BY <1>2 DEF Loop, PaintSteps, PointerSteps, KeySteps, RestSteps, Pointed
<1>3. ASSUME NEW w \in Window,
         \/ \E s \in Sizes : CreateWindow(w, s) \/ SetSize(w, s)
         \/ \E on \in BOOLEAN : Show(w, on)
         \/ \E c \in {"unset", "hand", "hidden"} : SetCursor(w, c)
         \/ Refresh(w) \/ Destroy(w) \/ GetBuffer(w) \/ ApplyBuffer(w)
         \/ LockPointer(w) \/ UnlockPointer(w)
         \/ UserMoves(w) \/ UserInput(w) \/ UserCommands(w) \/ Uncover(w)
      PROVE  PaintSteps \/ PointerSteps \/ RestSteps
  BY <1>3 DEF PaintSteps, PointerSteps, RestSteps, Pointed, Images
<1> QED
  BY <1>1, <1>2, <1>3 DEF Next

LEMMA TypeInit == Init => TypeInv /\ Under = NoFrame
<1> SUFFICES ASSUME Init PROVE TypeInv /\ Under = NoFrame
  OBVIOUS
<1>1. WindowTypes
  BY DEF Init, WindowTypes, Pointed
<1>2. QueueTypes
  BY DEF Init, QueueTypes
<1>3. StackInv /\ Under = NoFrame
  BY DEF Init, StackInv, Under
<1>4. sys \in System
  BY DEF Init, System, Pointed
<1> QED
  BY <1>1, <1>2, <1>3, <1>4 DEF TypeInv

\* Windows, their sizes and paint messages.
LEMMA TypeSizes ==
  ASSUME TypeInv, PaintSteps
  PROVE  TypeInv'
<1>0. (\A s \in Sizes : s \in Nat) /\ sys \in System /\ posted \in Seq(Message) /\ StackInv
  BY WindowAssumption DEF TypeInv, QueueTypes
<1>1. ASSUME NEW w \in Window, NEW s \in Sizes, CreateWindow(w, s) PROVE TypeInv'
  <2>1. QueueTypes'
    BY <1>0, <1>1, MessageTypes, Queued DEF CreateWindow, TypeInv, QueueTypes
  <2>2. sys' \in System
    BY <1>0, <1>1 DEF CreateWindow, System
  <2>3. WindowTypes'
    BY <1>1 DEF CreateWindow, TypeInv, WindowTypes, appVars
  <2>4. StackInv'
    BY <1>0, <1>1, StackSame DEF CreateWindow
  <2> QED
    BY <2>1, <2>2, <2>3, <2>4 DEF TypeInv
<1>2. ASSUME NEW w \in Window, NEW on \in BOOLEAN, Show(w, on) PROVE TypeInv'
  <2>1. QueueTypes'
    BY <1>0, <1>2, MessageTypes, Queued DEF Show, TypeInv, QueueTypes
  <2>2. WindowTypes' /\ sys' \in System
    BY <1>2 DEF Show, TypeInv, WindowTypes, appVars, winVars
  <2>3. StackInv'
    BY <1>0, <1>2, StackSame DEF Show
  <2> QED
    BY <2>1, <2>2, <2>3 DEF TypeInv
<1>3. ASSUME NEW w \in Window, NEW s \in Sizes, SetSize(w, s) PROVE TypeInv'
  <2>1. /\ WmSize(w, s, stack) /\ msg = NoMsg
        /\ UNCHANGED <<status, cursor, locked, over, msgVars, inside>>
    BY <1>3 DEF SetSize, Running
  <2>2. /\ sys' \in System /\ wanted' \subseteq Window /\ size' \in [Window -> Nat]
        /\ stack' = stack \/ stack' = Append(stack, Frame("resize", w, "end", 0))
    BY <1>0, <2>1, Sized
  <2>3. StackInv'
    BY <1>0, <2>1, <2>2, StackSame, Nested DEF Push, msgVars
  <2> QED
    BY <2>1, <2>2, <2>3 DEF TypeInv, WindowTypes, QueueTypes, msgVars
<1>4. ASSUME NEW w \in Window, Refresh(w) PROVE TypeInv'
  <2>1. sys' \in System
    BY <1>0, <1>4 DEF Refresh, Redrawn, System
  <2>2. StackInv'
    BY <1>0, <1>4, StackSame DEF Refresh, msgVars
  <2> QED
    BY <1>4, <2>1, <2>2 DEF Refresh, TypeInv, WindowTypes, QueueTypes, winVars, msgVars
<1>5. ASSUME NEW w \in Window, WmPaint(w) PROVE TypeInv'
  <2>1. sys' \in System
    BY <1>0, <1>5 DEF WmPaint, System
  <2>2. StackInv'
    <3>1. Frame("draw", w, "paint", 0) \in Frames /\ stack = <<>> /\ UNCHANGED msg
      BY <1>5, FrameTypes DEF WmPaint, Taking, msgVars
    <3>2. msg = NoMsg
      BY <1>5 DEF WmPaint, Taking
    <3> QED
      BY <1>0, <1>5, <3>1, <3>2, StackSame, Pushed DEF WmPaint
  <2> QED
    BY <1>5, <2>1, <2>2 DEF WmPaint, TypeInv, WindowTypes, QueueTypes, winVars, msgVars
<1>6. ASSUME NEW w \in Window, GetBuffer(w) \/ ApplyBuffer(w) PROVE TypeInv'
  <2>1. UNCHANGED <<status, size, cursor, locked, over, msgVars, stack, sys, appVars>>
    BY <1>6 DEF GetBuffer, ApplyBuffer
  <2>2. StackInv'
    BY <1>0, <2>1, StackSame DEF msgVars
  <2> QED
    BY <2>1, <2>2 DEF TypeInv, WindowTypes, QueueTypes, msgVars, appVars
<1>7. CASE WmShow
  <2>1. OnPosted("show")
    BY <1>7 DEF WmShow
  <2>2. /\ stack = <<>> /\ msg = NoMsg /\ UNCHANGED msg /\ QueueTypes'
        /\ Head(posted) \in Message /\ Head(posted).on = "show"
    BY <2>1, TakenPosted
  <2>3. PICK v \in Window : v = Head(posted).win
    BY <2>2, MessageFacts
  <2>4. sys' \in System /\ wanted' \subseteq Window /\ size' \in [Window -> Nat]
    <3>1. Head(posted).arg \in BOOLEAN
      BY <2>2, MessageFacts
    <3>2. CASE Head(posted).arg = TRUE
      <4>1. /\ sys' = [sys EXCEPT !.visible = @ \cup {v}, !.invalid = @ \cup {v}]
            /\ wanted' = wanted \cup {v}
            /\ size' = [size EXCEPT ![v] = sys.size[v]]
        BY <1>7, <2>3, <3>2 DEF WmShow
      <4>2. sys' \in System /\ sys.size[v] \in Nat
        BY <1>0, <4>1 DEF System
      <4> QED
        BY <4>1, <4>2 DEF TypeInv, WindowTypes
    <3>3. CASE Head(posted).arg = FALSE
      <4>1. /\ sys' = [sys EXCEPT !.visible = @ \ {v}, !.invalid = @ \ {v}]
            /\ UNCHANGED <<wanted, size>>
        BY <1>7, <2>3, <3>3 DEF WmShow
      <4> QED
        BY <1>0, <4>1 DEF TypeInv, WindowTypes, System
    <3> QED
      BY <3>1, <3>2, <3>3
  <2>5. stack' = stack \/ Push(Frame("resize", v, "end", 0))
    BY <1>7, <2>3 DEF WmShow
  <2>6. StackInv'
    BY <1>0, <2>2, <2>5, StackSame, Nested
  <2> QED
    BY <1>7, <2>2, <2>4, <2>6 DEF WmShow, TypeInv, WindowTypes
<1>8. CASE WmSysCommand
  <2>1. OnPosted("command") /\ Push(Frame("state", Head(posted).win, "command", Head(posted).arg))
        /\ UNCHANGED <<winVars, sys, appVars>>
    BY <1>8 DEF WmSysCommand
  <2>2. /\ stack = <<>> /\ msg = NoMsg /\ UNCHANGED msg /\ QueueTypes'
        /\ Head(posted).win \in Window /\ Head(posted).arg \in Sizes
    BY <2>1, TakenPosted, MessageFacts
  <2>3. StackInv'
    BY <1>0, <2>1, <2>2, Pushed, FrameTypes
  <2> QED
    BY <2>1, <2>2, <2>3 DEF TypeInv, WindowTypes, winVars, appVars
<1>9. CASE WmClose
  <2>1. OnPosted("close") /\ Push(Frame("close", Head(posted).win, "end", 0))
        /\ UNCHANGED <<winVars, sys, appVars>>
    BY <1>9 DEF WmClose
  <2>2. /\ stack = <<>> /\ msg = NoMsg /\ UNCHANGED msg /\ QueueTypes'
        /\ Head(posted).win \in Window
    BY <2>1, TakenPosted, MessageFacts
  <2>3. StackInv'
    BY <1>0, <2>1, <2>2, Pushed, FrameTypes
  <2> QED
    BY <2>1, <2>2, <2>3 DEF TypeInv, WindowTypes, winVars, appVars
<1> QED
  BY <1>1, <1>2, <1>3, <1>4, <1>5, <1>6, <1>7, <1>8, <1>9 DEF PaintSteps

\* The pointer, its locks and its cursor.
LEMMA TypePointer ==
  ASSUME TypeInv, PointerSteps
  PROVE  TypeInv'
<1>0. sys \in System /\ posted \in Seq(Message) /\ StackInv
  BY DEF TypeInv, QueueTypes
<1>1. CASE WmMouseMove
  <2>1. OnInput("move") /\ UNCHANGED <<winVars, posted, wanted>>
    BY <1>1 DEF WmMouseMove
  <2>2. PICK u \in Window : u = Head(input).win
    BY <2>1, TakenInput, MessageFacts
  <2>3. /\ stack = <<>> /\ msg = NoMsg /\ UNCHANGED msg /\ input' \in Seq(Message)
    BY <2>1, TakenInput
  <2>4. sys' = WithCursor(u)
    BY <1>1, <2>2 DEF WmMouseMove
  <2>5. sys' \in System
    BY <1>0, <2>4 DEF WithCursor, System, TypeInv, WindowTypes, Arrow
  <2>6. /\ inside' \subseteq Window
        /\ \/ stack' = stack
           \/ Push(Frame("move", u, "moved", 0)) \/ Push(Frame("enter", u, "entered", 0))
    BY <1>1, <2>2 DEF WmMouseMove, TypeInv, WindowTypes
  <2>7. StackInv'
    BY <1>0, <2>3, <2>6, StackSame, Pushed, FrameTypes
  <2> QED
    BY <2>1, <2>3, <2>5, <2>6, <2>7 DEF TypeInv, WindowTypes, QueueTypes, winVars
<1>2. CASE WmMouseLeave
  <2>1. OnPosted("leave") /\ Push(Frame("leave", Head(posted).win, "left", 0))
        /\ inside' = inside \ {Head(posted).win} /\ UNCHANGED <<winVars, sys, wanted>>
    BY <1>2 DEF WmMouseLeave
  <2>2. /\ stack = <<>> /\ msg = NoMsg /\ UNCHANGED msg /\ QueueTypes'
        /\ Head(posted).win \in Window
    BY <2>1, TakenPosted, MessageFacts
  <2>3. StackInv'
    BY <1>0, <2>1, <2>2, Pushed, FrameTypes
  <2> QED
    BY <2>1, <2>2, <2>3 DEF TypeInv, WindowTypes, winVars
<1>3. CASE WmInput
  <2>1. OnInput("raw") /\ UNCHANGED <<winVars, posted, sys, appVars>>
    BY <1>3 DEF WmInput
  <2>2. PICK u \in Window : u = Head(input).win
    BY <2>1, TakenInput, MessageFacts
  <2>3. /\ stack = <<>> /\ msg = NoMsg /\ UNCHANGED msg /\ input' \in Seq(Message)
    BY <2>1, TakenInput
  <2>4. stack' = stack \/ Push(Frame("move", u, "end", 0))
    BY <1>3, <2>2 DEF WmInput
  <2>5. StackInv'
    BY <1>0, <2>3, <2>4, StackSame, Pushed, FrameTypes
  <2> QED
    BY <2>1, <2>3, <2>5 DEF TypeInv, WindowTypes, QueueTypes, winVars, appVars
<1>4. CASE WmButton
  <2>1. OnInput("button") /\ UNCHANGED <<winVars, posted, sys, appVars>>
        /\ Push(Frame("input", Head(input).win, "end", 0))
    BY <1>4 DEF WmButton
  <2>2. /\ stack = <<>> /\ msg = NoMsg /\ UNCHANGED msg /\ input' \in Seq(Message)
        /\ Head(input).win \in Window
    BY <2>1, TakenInput, MessageFacts
  <2>3. StackInv'
    BY <1>0, <2>1, <2>2, Pushed, FrameTypes
  <2> QED
    BY <2>1, <2>2, <2>3 DEF TypeInv, WindowTypes, QueueTypes, winVars, appVars
<1>5. ASSUME NEW w \in Window, NEW c \in Images, SetCursor(w, c) PROVE TypeInv'
  <2>1. /\ UNCHANGED <<status, size, locked, over, msgVars, stack, appVars>>
        /\ cursor' = [cursor EXCEPT ![w] = c]
        /\ sys' = IF over = w /\ c # "unset" THEN [sys EXCEPT !.shown = c] ELSE sys
    BY <1>5 DEF SetCursor
  <2>2. sys' \in System
    BY <1>0, <2>1 DEF System, Images
  <2>3. StackInv'
    BY <1>0, <2>1, StackSame DEF msgVars
  <2> QED
    BY <2>1, <2>2, <2>3 DEF TypeInv, WindowTypes, QueueTypes, msgVars, appVars, Images
<1>6. ASSUME NEW w \in Window, LockPointer(w) PROVE TypeInv'
  <2>1. /\ UNCHANGED <<status, size, cursor, over, msg, stack, appVars>>
        /\ locked' \subseteq Window
        /\ \E ok \in RawWorks :
             PointerAt(w, IF ok THEN [sys EXCEPT !.clip = w, !.raw = w]
                                ELSE [sys EXCEPT !.clip = None])
    BY <1>6 DEF LockPointer, TypeInv, WindowTypes
  <2>2. PICK t \in System : PointerAt(w, t)
    <3>1. [sys EXCEPT !.clip = w, !.raw = w] \in System /\ [sys EXCEPT !.clip = None] \in System
      BY <1>0 DEF System, Pointed
    <3> QED
      BY <2>1, <3>1, SwitchAssumption
  <2>3. posted' \in Seq(Message) /\ input' \in Seq(Message) /\ sys' \in System
    BY <2>2, PointerMoved DEF Pointed
  <2>4. StackInv'
    BY <1>0, <2>1, StackSame
  <2> QED
    BY <2>1, <2>3, <2>4 DEF TypeInv, WindowTypes, QueueTypes, appVars
<1>7. ASSUME NEW w \in Window, UnlockPointer(w) PROVE TypeInv'
  <2>1. /\ UNCHANGED <<status, size, cursor, over, msgVars, stack, appVars>>
        /\ locked' \subseteq Window /\ sys' = [sys EXCEPT !.clip = None, !.raw = None]
    BY <1>7 DEF UnlockPointer, TypeInv, WindowTypes
  <2>2. sys' \in System
    BY <1>0, <2>1 DEF System, Pointed
  <2>3. StackInv'
    BY <1>0, <2>1, StackSame DEF msgVars
  <2> QED
    BY <2>1, <2>2, <2>3 DEF TypeInv, WindowTypes, QueueTypes, msgVars, appVars
<1>8. ASSUME NEW v \in Pointed, UserMoves(v) PROVE TypeInv'
  <2>1. PointerAt(v, sys) /\ UNCHANGED <<winVars, msg, stack, appVars>>
    BY <1>8 DEF UserMoves
  <2>2. posted' \in Seq(Message) /\ input' \in Seq(Message) /\ sys' \in System
    BY <1>0, <2>1, PointerMoved
  <2>3. StackInv'
    BY <1>0, <2>1, StackSame
  <2> QED
    BY <2>1, <2>2, <2>3 DEF TypeInv, WindowTypes, QueueTypes, winVars, appVars
<1> QED
  BY <1>1, <1>2, <1>3, <1>4, <1>5, <1>6, <1>7, <1>8 DEF PointerSteps

\* The characters at the front of the messages can be counted.
LEMMA LeadingCounts ==
  ASSUME NEW p \in Seq(Message)
  PROVE  /\ Leading(p) \in 0 .. Len(p) /\ Leading(p) <= 8
         /\ \A i \in 1 .. Leading(p) : p[i].on = "char"
<1> DEFINE others == {i \in 1 .. Len(p) : p[i].on # "char"}
           fits(n) == /\ \A i \in 1 .. n : p[i].on = "char"
                      /\ n < Len(p) => p[n + 1].on # "char"
<1>0. Len(p) \in Nat
  OBVIOUS
<1>1. \E n \in 0 .. Len(p) : fits(n)
  <2>1. CASE others = {}
    <3>1. fits(Len(p))
      BY <1>0, <2>1
    <3> QED
      BY <1>0, <3>1
  <2>2. CASE others # {}
    <3>1. others \in SUBSET Nat
      BY <1>0
    <3>2. \E i \in others : \A j \in others : ~ (<<j, i>> \in OpToRel(<, Nat))
      <4> HIDE DEF others
      <4> QED
        BY <2>2, <3>1, NatLessThanWellFounded, WFMin
    <3>3. PICK i \in others : \A j \in others : ~ (<<j, i>> \in OpToRel(<, Nat))
      BY <3>2
    <3>4. ASSUME NEW j \in others PROVE ~ (j < i)
      <4>1. <<j, i>> \in Nat \X Nat /\ ~ (<<j, i>> \in OpToRel(<, Nat))
        BY <3>1, <3>3
      <4> QED
        BY <4>1 DEF OpToRel
    <3>5. i \in 1 .. Len(p) /\ p[i].on # "char"
      OBVIOUS
    <3>6. ASSUME NEW j \in 1 .. i - 1 PROVE p[j].on = "char"
      <4>1. j < i /\ j \in 1 .. Len(p)
        BY <1>0, <3>5
      <4> QED
        BY <3>4, <4>1
    <3>7. i - 1 \in 0 .. Len(p) /\ i - 1 + 1 = i
      BY <1>0, <3>5
    <3>8. fits(i - 1)
      BY <3>5, <3>6, <3>7
    <3> QED
      BY <3>7, <3>8
  <2> QED
    BY <2>1, <2>2
<1>2. PICK n \in 0 .. Len(p) : n = (CHOOSE m \in 0 .. Len(p) : fits(m)) /\ fits(n)
  <2> HIDE DEF fits
  <2> QED
    BY <1>1
<1>3. Leading(p) = IF n > 8 THEN 8 ELSE n
  BY <1>2 DEF Leading
<1>4. \A i \in 1 .. Leading(p) : p[i].on = "char"
  BY <1>0, <1>2, <1>3
<1> QED
  BY <1>0, <1>2, <1>3, <1>4

LEMMA Characters ==
  ASSUME NEW n \in Nat
  PROVE  /\ Chars(n) \in Seq(Message) /\ Len(Chars(n)) = n
         /\ \A i \in 1 .. n : Chars(n)[i].on = "char"
<1>1. Msg("char", None, 0) \in Message /\ Msg("char", None, 0).on = "char"
  BY MessageTypes DEF Msg
<1> QED
  BY <1>1 DEF Chars

LEMMA TypeKeys ==
  ASSUME TypeInv, KeySteps
  PROVE  TypeInv'
<1>0. StackInv /\ posted \in Seq(Message)
  BY DEF TypeInv, QueueTypes
<1>1. CASE TakeKey
  <2>1. /\ stack = <<>> /\ input # <<>> /\ input' = Tail(input) /\ msg' = Head(input)
        /\ UNCHANGED <<winVars, posted, stack, sys, appVars>>
    BY <1>1 DEF TakeKey, Taking
  <2>2. msg' \in Message /\ input' \in Seq(Message)
    BY <2>1, HeadAndTail DEF TypeInv, QueueTypes
  <2>4. msg'.on \in {"keydown", "keyup"}
    BY <1>1, <2>1 DEF TakeKey
  <2>3. StackInv'
    BY <1>0, <2>1, StackSame
  <2> QED
    BY <2>1, <2>2, <2>3, <2>4 DEF TypeInv, WindowTypes, QueueTypes, winVars, appVars
<1>2. CASE HandleKey
  <2>1. /\ msg # NoMsg /\ msg' = NoMsg /\ stack = <<>>
        /\ msg \in Message /\ msg.on \in {"keydown", "keyup"}
        /\ UNCHANGED <<winVars, input, sys, appVars>>
    BY <1>0, <1>2 DEF HandleKey, StackInv, TypeInv, QueueTypes
  <2>2. PICK q : q = IF msg.on = "keydown" THEN posted \o Chars(msg.arg) ELSE posted
    OBVIOUS
  <2>3. q \in Seq(Message)
    <3>1. msg.on = "keydown" => msg.arg \in Nat
      <4>1. msg.on = "keydown" => msg.arg \in Text
        BY <2>1, MessageFacts
      <4>2. \A n \in Text : n \in Nat
        BY TextAssumption
      <4> QED
        BY <4>1, <4>2
    <3>2. msg.on = "keydown" => Chars(msg.arg) \in Seq(Message)
      BY <3>1, Characters
    <3> QED
      BY <1>0, <2>2, <3>2
  <2>4. PICK n \in 0 .. Len(q) : n = Leading(q)
    BY <2>3, LeadingCounts
  <2>5. posted' = SubSeq(q, n + 1, Len(q)) /\ Push(Frame("key", msg.win, "end", n))
    BY <1>2, <2>2, <2>4 DEF HandleKey
  <2>6. posted' \in Seq(Message)
    BY <2>3, <2>5
  <2>7. msg.win \in Window
    BY <2>1, MessageFacts
  <2>8. StackInv'
    BY <1>0, <2>1, <2>5, <2>7, Pushed, FrameTypes
  <2> QED
    BY <2>1, <2>6, <2>8 DEF TypeInv, WindowTypes, QueueTypes, winVars, appVars
<1>3. CASE Drop
  <2>1. QueueTypes' /\ UNCHANGED <<winVars, msg, stack, sys, appVars>>
    BY <1>3, TakenPosted DEF Drop
  <2>2. StackInv'
    BY <1>0, <2>1, StackSame
  <2> QED
    BY <2>1, <2>2 DEF TypeInv, WindowTypes, winVars, appVars
<1>4. CASE Wakeup
  <2>1. QueueTypes'
    BY <1>0, <1>4, MessageTypes, Queued DEF Wakeup, TypeInv, QueueTypes
  <2>2. StackInv'
    BY <1>0, <1>4, StackSame DEF Wakeup
  <2> QED
    BY <1>4, <2>1, <2>2 DEF Wakeup, TypeInv, WindowTypes, winVars, appVars
<1> QED
  BY <1>1, <1>2, <1>3, <1>4 DEF KeySteps

\* The messages of a queue that are left when a window is destroyed.
LEMMA OthersFacts ==
  ASSUME NEW q \in Seq(Message), NEW w
  PROVE  /\ OfOthers(q, w) \in Seq(Message)
         /\ \E place \in [DOMAIN OfOthers(q, w) -> DOMAIN q] :
              /\ \A j \in DOMAIN OfOthers(q, w) :
                   OfOthers(q, w)[j] = q[place[j]] /\ q[place[j]].win # w
              /\ \A i, j \in DOMAIN OfOthers(q, w) : place[i] = place[j] => i = j
              /\ \A i \in DOMAIN q :
                   q[i].win # w => \E j \in DOMAIN OfOthers(q, w) : place[j] = i
<1> DEFINE kept == {i \in DOMAIN q : q[i].win # w}
<1>1. OfOthers(q, w) = Keep(q, kept)
  BY DEF OfOthers
<1>2. kept \in SUBSET (DOMAIN q)
  OBVIOUS
<1>3. /\ Keep(q, kept) \in Seq(Message)
      /\ \E place \in [DOMAIN Keep(q, kept) -> kept] :
           /\ \A j \in DOMAIN Keep(q, kept) : Keep(q, kept)[j] = q[place[j]]
           /\ \A i, j \in DOMAIN Keep(q, kept) : place[i] = place[j] => i = j
           /\ \A i \in kept : \E j \in DOMAIN Keep(q, kept) : place[j] = i
  <2> HIDE DEF kept
  <2> QED
    BY <1>2, KeepFacts
<1>4. PICK place \in [DOMAIN Keep(q, kept) -> kept] :
           /\ \A j \in DOMAIN Keep(q, kept) : Keep(q, kept)[j] = q[place[j]]
           /\ \A i, j \in DOMAIN Keep(q, kept) : place[i] = place[j] => i = j
           /\ \A i \in kept : \E j \in DOMAIN Keep(q, kept) : place[j] = i
  BY <1>3
<1>5. PICK o : o = OfOthers(q, w)
  OBVIOUS
<1>6. /\ place \in [DOMAIN o -> kept] /\ \A j \in DOMAIN o : o[j] = q[place[j]]
      /\ \A i, j \in DOMAIN o : place[i] = place[j] => i = j
      /\ \A i \in kept : \E j \in DOMAIN o : place[j] = i
  BY <1>1, <1>4, <1>5
<1>7. \A j \in DOMAIN o : place[j] \in DOMAIN q /\ q[place[j]].win # w
  BY <1>6
<1>8. place \in [DOMAIN o -> DOMAIN q]
  BY <1>6, <1>7
<1>9. o \in Seq(Message)
  BY <1>1, <1>3, <1>5
<1>10. \E at \in [DOMAIN o -> DOMAIN q] :
        /\ \A j \in DOMAIN o : o[j] = q[at[j]] /\ q[at[j]].win # w
        /\ \A i, j \in DOMAIN o : at[i] = at[j] => i = j
        /\ \A i \in DOMAIN q : q[i].win # w => \E j \in DOMAIN o : at[j] = i
  BY <1>6, <1>7, <1>8
<1> QED
  BY <1>5, <1>9, <1>10

\* Destroying windows, returning, the message loop and the system.
LEMMA TypeRest ==
  ASSUME TypeInv, RestSteps
  PROVE  TypeInv'
<1>0. sys \in System /\ posted \in Seq(Message) /\ input \in Seq(Message) /\ StackInv
  BY DEF TypeInv, QueueTypes
<1>1. ASSUME NEW w \in Window, Destroy(w) PROVE TypeInv'
  <2>1. posted' \in Seq(Message) /\ input' \in Seq(Message) /\ UNCHANGED <<msg, stack>>
    BY <1>0, <1>1, OthersFacts DEF Destroy
  <2>2. sys' \in System
    <3>1. sys' = [sys EXCEPT !.visible = @ \ {w}, !.invalid = @ \ {w}, !.size[w] = 0,
                             !.pointer = IF @ = w THEN None ELSE @,
                             !.tracked = IF @ = w THEN None ELSE @]
      BY <1>1 DEF Destroy
    <3> QED
      BY <1>0, <3>1 DEF System, Pointed
  <2>3. WindowTypes'
    BY <1>1 DEF Destroy, TypeInv, WindowTypes
  <2>4. StackInv'
    BY <1>0, <2>1, StackSame
  <2> QED
    BY <2>1, <2>2, <2>3, <2>4 DEF TypeInv, QueueTypes
<1>2. CASE Return
  <2>1. /\ UNCHANGED <<status, cursor, locked, msg, input, inside>> /\ StackInv'
        /\ Under \in Frames
    BY <1>2, ReturnCases
  <2>2. PICK u \in Frames : u = Under
    BY <2>1
  <2>3. \/ UNCHANGED <<size, over, posted, sys, wanted>>
        \/ /\ sys' = [sys EXCEPT !.invalid = @ \ {u.win}]
           /\ UNCHANGED <<size, over, posted, wanted>>
        \/ /\ u.then = "command" /\ WmSize(u.win, u.arg, <<>>) /\ UNCHANGED <<over, posted>>
        \/ over' = u.win /\ Track(u.win, sys, posted) /\ UNCHANGED <<size, wanted>>
        \/ over' = None /\ UNCHANGED <<size, posted, sys, wanted>>
    BY <1>2, <2>2, ReturnCases
  <2>4. u.win \in Window /\ u.arg \in Nat
    BY DEF Frames
  <2>5. sys' \in System /\ posted' \in Seq(Message) /\ size' \in [Window -> Nat]
        /\ wanted' \subseteq Window /\ over' \in Pointed
    <3>1. CASE UNCHANGED <<size, over, posted, sys, wanted>>
      BY <1>0, <3>1 DEF TypeInv, WindowTypes
    <3>2. CASE sys' = [sys EXCEPT !.invalid = @ \ {u.win}] /\ UNCHANGED <<size, over, posted, wanted>>
      BY <1>0, <3>2 DEF TypeInv, WindowTypes, System
    <3>3. CASE WmSize(u.win, u.arg, <<>>) /\ UNCHANGED <<over, posted>>
      <4>1. sys' \in System /\ wanted' \subseteq Window /\ size' \in [Window -> Nat]
        BY <2>4, <3>3, Sized
      <4> QED
        BY <1>0, <3>3, <4>1 DEF TypeInv, WindowTypes
    <3>4. CASE over' = u.win /\ Track(u.win, sys, posted) /\ UNCHANGED <<size, wanted>>
      <4>1. sys' \in System /\ posted' \in Seq(Message)
        BY <2>4, <3>4, Tracked
      <4> QED
        BY <2>4, <3>4, <4>1 DEF TypeInv, WindowTypes, Pointed
    <3>5. CASE over' = None /\ UNCHANGED <<size, posted, sys, wanted>>
      BY <1>0, <3>5 DEF TypeInv, WindowTypes, Pointed
    <3> QED
      BY <2>3, <3>1, <3>2, <3>3, <3>4, <3>5
  <2> QED
    BY <2>1, <2>5 DEF TypeInv, WindowTypes, QueueTypes
<1>3. CASE Dispatch
  <2>1. UNCHANGED <<winVars, msg, posted, input, stack, sys, appVars>>
    BY <1>3 DEF Dispatch
  <2>2. StackInv'
    BY <1>0, <2>1, StackSame
  <2> QED
    BY <2>1, <2>2 DEF TypeInv, WindowTypes, QueueTypes, winVars, appVars
<1>4. ASSUME NEW w \in Window, UserInput(w) PROVE TypeInv'
  <2>1. /\ UNCHANGED <<sys, posted, winVars, msg, stack, appVars>>
        /\ \E m \in Message : input' = Append(input, m)
    <3>1. ASSUME NEW m \in Message, Arrives(m)
          PROVE  UNCHANGED <<winVars, msg, stack, appVars>> /\ input' = Append(input, m)
      BY <3>1 DEF Arrives
    <3>2. \E m \in Message : Arrives(m)
      BY <1>4, MessageTypes DEF UserInput
    <3> QED
      BY <1>4, <3>1, <3>2 DEF UserInput
  <2>2. input' \in Seq(Message)
    BY <1>0, <2>1, Queued
  <2>3. StackInv'
    BY <1>0, <2>1, StackSame
  <2> QED
    BY <2>1, <2>2, <2>3 DEF TypeInv, WindowTypes, QueueTypes, winVars, appVars
<1>5. ASSUME NEW w \in Window, UserCommands(w) PROVE TypeInv'
  <2>1. /\ UNCHANGED <<winVars, msg, input, stack, sys, appVars>>
        /\ \E m \in {Msg("close", w, 0)} \cup {Msg("command", w, s) : s \in Sizes} :
             posted' = Append(posted, m)
    BY <1>5 DEF UserCommands
  <2>2. \A m \in {Msg("close", w, 0)} \cup {Msg("command", w, s) : s \in Sizes} : m \in Message
    BY MessageTypes
  <2>3. posted' \in Seq(Message)
    BY <1>0, <2>1, <2>2, Queued
  <2>4. StackInv'
    BY <1>0, <2>1, StackSame
  <2> QED
    BY <2>1, <2>3, <2>4 DEF TypeInv, WindowTypes, QueueTypes, winVars, appVars
<1>6. ASSUME NEW w \in Window, Uncover(w) PROVE TypeInv'
  <2>1. /\ UNCHANGED <<winVars, msgVars, stack, inside>> /\ wanted' = wanted \cup {w}
        /\ sys' = [sys EXCEPT !.invalid = @ \cup {w}]
    BY <1>6 DEF Uncover
  <2>2. sys' \in System
    BY <1>0, <2>1 DEF System
  <2>3. StackInv'
    BY <1>0, <2>1, StackSame DEF msgVars
  <2> QED
    BY <2>1, <2>2, <2>3 DEF TypeInv, WindowTypes, QueueTypes, winVars, msgVars
<1> QED
  BY <1>1, <1>2, <1>3, <1>4, <1>5, <1>6 DEF RestSteps

LEMMA TypeStep == TypeInv /\ [Next]_vars => TypeInv'
<1> SUFFICES ASSUME TypeInv, [Next]_vars PROVE TypeInv'
  OBVIOUS
<1>1. CASE UNCHANGED vars
  BY <1>1 DEF vars, winVars, msgVars, appVars, TypeInv, WindowTypes, QueueTypes, StackInv
<1> QED
  BY <1>1, Steps, TypeSizes, TypePointer, TypeKeys, TypeRest

-----------------------------------------------------------------------------
(* What the steps leave alone *)

LEMMA PaintLeaves ==
  ASSUME TypeInv, PaintSteps
  PROVE  /\ UNCHANGED <<cursor, locked, over, input, fault, inside>>
         /\ sys'.pointer = sys.pointer /\ sys'.tracked = sys.tracked
         /\ sys'.clip = sys.clip /\ sys'.raw = sys.raw /\ sys'.shown = sys.shown
<1> DEFINE Same == /\ sys'.pointer = sys.pointer /\ sys'.tracked = sys.tracked
                   /\ sys'.clip = sys.clip /\ sys'.raw = sys.raw /\ sys'.shown = sys.shown
           Rest == UNCHANGED <<cursor, locked, over, input, fault, inside>>
<1>0. sys \in System
  BY DEF TypeInv
<1>1. CASE WmShow
  <2>1. Rest
    <3>1. OnPosted("show")
      BY <1>1 DEF WmShow
    <3> QED
      BY <1>1, <3>1, TakenPosted DEF WmShow
  <2>2. PICK v : v = Head(posted).win
    OBVIOUS
  <2>3. \/ sys' = [sys EXCEPT !.visible = @ \cup {v}, !.invalid = @ \cup {v}]
        \/ sys' = [sys EXCEPT !.visible = @ \ {v}, !.invalid = @ \ {v}]
    BY <1>1, <2>2 DEF WmShow
  <2>4. Same
    BY <1>0, <2>3 DEF System
  <2> QED
    BY <2>1, <2>4
<1>2. CASE WmSysCommand \/ WmClose
  <2>1. UNCHANGED <<winVars, fault, sys, appVars>>
    BY <1>2 DEF WmSysCommand, WmClose
  <2>2. UNCHANGED input
    BY <1>2, TakenPosted DEF WmSysCommand, WmClose
  <2> QED
    BY <2>1, <2>2 DEF winVars, appVars
<1>3. ASSUME NEW w \in Window, NEW s \in Sizes, CreateWindow(w, s) PROVE Rest /\ Same
  <2>1. sys' = [sys EXCEPT !.size[w] = s] /\ Rest
    BY <1>3 DEF CreateWindow, appVars
  <2> QED
    BY <1>0, <2>1 DEF System
<1>4. ASSUME NEW w \in Window, NEW s \in Sizes, SetSize(w, s) PROVE Rest /\ Same
  <2>1. WmSize(w, s, stack) /\ Rest
    BY <1>4 DEF SetSize, msgVars
  <2>2. s \in Nat
    BY WindowAssumption
  <2> QED
    BY <2>1, <2>2, Sized
<1>5. ASSUME NEW w \in Window, NEW on \in BOOLEAN, Show(w, on) PROVE Rest /\ Same
  BY <1>5 DEF Show, winVars, appVars
<1>6. ASSUME NEW w \in Window, Refresh(w) \/ WmPaint(w) PROVE Rest /\ Same
  <2>1. Rest
    BY <1>6 DEF Refresh, WmPaint, winVars, msgVars
  <2>2. \/ sys' = [sys EXCEPT !.invalid = Redrawn(w)]
        \/ sys' = [sys EXCEPT !.invalid = @ \ {w}]
        \/ sys' = sys
    BY <1>6 DEF Refresh, WmPaint
  <2> QED
    BY <1>0, <2>1, <2>2 DEF System
<1>7. ASSUME NEW w \in Window, GetBuffer(w) \/ ApplyBuffer(w) PROVE Rest /\ Same
  BY <1>7 DEF GetBuffer, ApplyBuffer, msgVars, appVars
<1> QED
  BY <1>1, <1>2, <1>3, <1>4, <1>5, <1>6, <1>7 DEF PaintSteps

LEMMA PointerLeaves ==
  ASSUME TypeInv, PointerSteps
  PROVE  /\ UNCHANGED <<status, size, wanted>>
         /\ sys'.visible = sys.visible /\ sys'.invalid = sys.invalid /\ sys'.size = sys.size
<1> DEFINE Same == /\ sys'.visible = sys.visible /\ sys'.invalid = sys.invalid
                   /\ sys'.size = sys.size
           Rest == UNCHANGED <<status, size, wanted>>
<1>0. sys \in System
  BY DEF TypeInv
<1>1. CASE WmMouseMove
  <2>1. Rest /\ \E u : sys' = WithCursor(u)
    BY <1>1 DEF WmMouseMove, winVars
  <2> QED
    BY <1>0, <2>1 DEF WithCursor, System
<1>2. CASE WmMouseLeave \/ WmInput \/ WmButton
  BY <1>2 DEF WmMouseLeave, WmInput, WmButton, winVars, appVars
<1>3. ASSUME NEW v \in Pointed, UserMoves(v) PROVE Rest /\ Same
  <2>1. PointerAt(v, sys) /\ Rest
    BY <1>3 DEF UserMoves, winVars, appVars
  <2> QED
    BY <1>0, <2>1, PointerMoved
<1>4. ASSUME NEW w \in Window, LockPointer(w) PROVE Rest /\ Same
  <2>1. Rest /\ \E ok \in RawWorks :
          PointerAt(w, IF ok THEN [sys EXCEPT !.clip = w, !.raw = w]
                             ELSE [sys EXCEPT !.clip = None])
    BY <1>4 DEF LockPointer, appVars
  <2>2. PICK t \in System : /\ PointerAt(w, t) /\ t.visible = sys.visible
                            /\ t.invalid = sys.invalid /\ t.size = sys.size
    <3>1. \A t \in {[sys EXCEPT !.clip = w, !.raw = w], [sys EXCEPT !.clip = None]} :
            /\ t \in System /\ t.visible = sys.visible
            /\ t.invalid = sys.invalid /\ t.size = sys.size
      BY ZenonT(30), <1>0 DEF System, Pointed
    <3> QED
      BY <2>1, <3>1, SwitchAssumption
  <2> QED
    BY <2>1, <2>2, PointerMoved DEF Pointed
<1>5. ASSUME NEW w \in Window, UnlockPointer(w) PROVE Rest /\ Same
  <2>1. Rest /\ sys' = [sys EXCEPT !.clip = None, !.raw = None]
    BY <1>5 DEF UnlockPointer, appVars
  <2> QED
    BY <1>0, <2>1 DEF System
<1>6. ASSUME NEW w \in Window, NEW c \in Images, SetCursor(w, c) PROVE Rest /\ Same
  <2>1. Rest /\ (sys' = sys \/ sys' = [sys EXCEPT !.shown = c])
    BY <1>6 DEF SetCursor, appVars
  <2> QED
    BY <1>0, <2>1 DEF System
<1> QED
  BY <1>1, <1>2, <1>3, <1>4, <1>5, <1>6 DEF PointerSteps

LEMMA KeysLeave ==
  ASSUME KeySteps
  PROVE  UNCHANGED <<winVars, sys, appVars, fault, session>>
  BY DEF KeySteps, TakeKey, HandleKey, Drop, Wakeup

-----------------------------------------------------------------------------
(* Pointer locks *)

\* What LockAgrees says of live windows holds of all: none but live ones are locked.
LockInv ==
  \A w \in Window : /\ w \in locked <=> sys.clip = w
                    /\ w \in locked <=> sys.raw = w

LEMMA LockSame ==
  ASSUME LockInv, UNCHANGED locked, sys'.clip = sys.clip, sys'.raw = sys.raw
  PROVE  LockInv'
  BY DEF LockInv

LEMMA LockPointerStep ==
  ASSUME TypeInv, Careful = TRUE, LockInv, PointerSteps
  PROVE  LockInv'
<1>0. sys \in System
  BY DEF TypeInv
<1>1. CASE WmMouseMove
  <2>1. UNCHANGED locked /\ \E u : sys' = WithCursor(u)
    BY <1>1 DEF WmMouseMove, winVars
  <2>2. sys'.clip = sys.clip /\ sys'.raw = sys.raw
    BY <1>0, <2>1 DEF WithCursor, System
  <2> QED
    BY <2>1, <2>2, LockSame
<1>2. CASE WmMouseLeave \/ WmInput \/ WmButton
  BY <1>2, LockSame DEF WmMouseLeave, WmInput, WmButton, winVars
<1>3. ASSUME NEW v \in Pointed, UserMoves(v) PROVE LockInv'
  <2>1. PointerAt(v, sys) /\ UNCHANGED locked
    BY <1>3 DEF UserMoves, winVars
  <2> QED
    BY <1>0, <2>1, PointerMoved, LockSame
<1>4. ASSUME NEW w \in Window, LockPointer(w) PROVE LockInv'
  <2>1. locked = {} /\ \E ok \in RawWorks :
          /\ PointerAt(w, IF ok THEN [sys EXCEPT !.clip = w, !.raw = w]
                                ELSE [sys EXCEPT !.clip = None])
          /\ locked' = IF ok THEN locked \cup {w} ELSE locked
    BY <1>4 DEF LockPointer
  <2>2. PICK ok \in BOOLEAN :
          /\ PointerAt(w, IF ok THEN [sys EXCEPT !.clip = w, !.raw = w]
                                ELSE [sys EXCEPT !.clip = None])
          /\ locked' = IF ok THEN locked \cup {w} ELSE locked
    BY <2>1, SwitchAssumption
  <2>3. PICK t : t = IF ok THEN [sys EXCEPT !.clip = w, !.raw = w] ELSE [sys EXCEPT !.clip = None]
    OBVIOUS
  <2>4. /\ t \in System /\ t.clip = IF ok THEN w ELSE None
        /\ t.raw = IF ok THEN w ELSE sys.raw
    BY <1>0, <2>3 DEF System, Pointed
  <2>5. PointerAt(w, t)
    BY <2>2, <2>3
  <2>6. sys'.clip = t.clip /\ sys'.raw = t.raw
    BY <2>4, <2>5, PointerMoved DEF Pointed
  <2> QED
    BY <2>1, <2>2, <2>4, <2>6, WindowAssumption DEF LockInv
<1>5. ASSUME NEW w \in Window, UnlockPointer(w) PROVE LockInv'
  <2>1. /\ w \in locked /\ locked' = locked \ {w}
        /\ sys' = [sys EXCEPT !.clip = None, !.raw = None]
    BY <1>5 DEF UnlockPointer
  <2>2. sys'.clip = None /\ sys'.raw = None
    BY <1>0, <2>1 DEF System
  <2> QED
    BY <2>1, <2>2, WindowAssumption DEF LockInv
<1>6. ASSUME NEW w \in Window, NEW c \in Images, SetCursor(w, c) PROVE LockInv'
  <2>1. UNCHANGED locked /\ (sys' = sys \/ sys' = [sys EXCEPT !.shown = c])
    BY <1>6 DEF SetCursor
  <2>2. sys'.clip = sys.clip /\ sys'.raw = sys.raw
    BY <1>0, <2>1 DEF System
  <2> QED
    BY <2>1, <2>2, LockSame
<1> QED
  BY <1>1, <1>2, <1>3, <1>4, <1>5, <1>6 DEF PointerSteps

\* What Return does to the system, whichever callback it is from.
LEMMA ReturnLeaves ==
  ASSUME TypeInv, Return
  PROVE  /\ UNCHANGED <<status, cursor, locked, input, inside>>
         /\ sys'.visible = sys.visible /\ sys'.pointer = sys.pointer
         /\ sys'.clip = sys.clip /\ sys'.raw = sys.raw /\ sys'.shown = sys.shown
<1>0. sys \in System
  BY DEF TypeInv
<1>1. PICK u \in Frames : u = Under
  BY ReturnCases
<1>2. \/ UNCHANGED sys
      \/ sys' = [sys EXCEPT !.invalid = @ \ {u.win}]
      \/ WmSize(u.win, u.arg, <<>>)
      \/ Track(u.win, sys, posted)
  BY <1>1, ReturnCases
<1>3. u.win \in Window /\ u.arg \in Nat
  BY DEF Frames
<1>4. /\ sys'.visible = sys.visible /\ sys'.pointer = sys.pointer
      /\ sys'.clip = sys.clip /\ sys'.raw = sys.raw /\ sys'.shown = sys.shown
  <2>1. CASE WmSize(u.win, u.arg, <<>>)
    BY <1>3, <2>1, Sized
  <2>2. CASE Track(u.win, sys, posted)
    BY <1>3, <2>2, Tracked
  <2>3. CASE UNCHANGED sys \/ sys' = [sys EXCEPT !.invalid = @ \ {u.win}]
    BY <1>0, <2>3 DEF System
  <2> QED
    BY <1>2, <2>1, <2>2, <2>3
<1> QED
  BY <1>4, ReturnCases

LEMMA LockStep ==
  ASSUME TypeInv, Careful = TRUE, LockInv, [Next]_vars
  PROVE  LockInv'
<1>0. sys \in System
  BY DEF TypeInv
<1>1. CASE PaintSteps
  BY <1>1, PaintLeaves, LockSame
<1>2. CASE KeySteps \/ UNCHANGED vars
  BY <1>2, KeysLeave, LockSame DEF vars, winVars
<1>3. CASE Return
  BY <1>3, ReturnLeaves, LockSame
<1>4. ASSUME NEW w \in Window, Destroy(w) \/ Uncover(w) PROVE LockInv'
  <2>1. UNCHANGED locked
    BY <1>4 DEF Destroy, Uncover, winVars
  <2>2. \/ sys' = [sys EXCEPT !.visible = @ \ {w}, !.invalid = @ \ {w}, !.size[w] = 0,
                              !.pointer = IF @ = w THEN None ELSE @,
                              !.tracked = IF @ = w THEN None ELSE @]
        \/ sys' = [sys EXCEPT !.invalid = @ \cup {w}]
    BY <1>4 DEF Destroy, Uncover
  <2>3. sys'.clip = sys.clip /\ sys'.raw = sys.raw
    BY <1>0, <2>2 DEF System
  <2> QED
    BY <2>1, <2>3, LockSame
<1>5. ASSUME NEW w \in Window, UserInput(w) \/ UserCommands(w) PROVE LockInv'
  <2>1. UNCHANGED <<sys, locked>>
    BY <1>5 DEF UserInput, Arrives, UserCommands, winVars
  <2> QED
    BY <2>1, LockSame
<1>6. CASE Dispatch
  BY <1>6, LockSame DEF Dispatch, winVars
<1> QED
  BY <1>1, <1>2, <1>3, <1>4, <1>5, <1>6, LockPointerStep, Steps DEF RestSteps

\* An application that locks one pointer at a time and unlocks it before it
\* destroys the window: a live window is locked exactly while the pointer is confined
\* to it and it gets raw input (win_lock_pointer).
THEOREM LocksAgree == ASSUME Careful = TRUE PROVE Spec => []LockAgrees
<1>1. Init => LockInv
  BY WindowAssumption DEF Init, LockInv
<1>2. TypeInv /\ LockInv /\ [Next]_vars => LockInv'
  BY LockStep
<1>3. LockInv => LockAgrees
  BY DEF LockInv, LockAgrees
<1> QED
  BY <1>1, <1>2, <1>3, TypeInit, TypeStep, PTL DEF Spec

-----------------------------------------------------------------------------
(* The text of keys *)

NoChar(q) == \A i \in DOMAIN q : q[i].on # "char"

\* A key is taken from the input when nothing is posted, and what is posted before it
\* is dispatched is no character.
KeyInv == msg # NoMsg => NoChar(posted)

LEMMA NoCharAppended ==
  ASSUME NEW q \in Seq(Message), NoChar(q), NEW m \in Message, m.on # "char"
  PROVE  NoChar(Append(q, m))
<1>1. PICK r : r = Append(q, m)
  OBVIOUS
<1>2. PICK n : DOMAIN r = DOMAIN q \cup {n} /\ r[n] = m
  BY <1>1, Queued
<1>3. \A i \in DOMAIN q : r[i] = q[i]
  BY <1>1, Queued
<1>4. NoChar(r)
  BY <1>2, <1>3 DEF NoChar
<1> QED
  BY <1>1, <1>4

LEMMA KeyStep ==
  ASSUME TypeInv, KeyInv, [Next]_vars
  PROVE  KeyInv'
<1>0. posted \in Seq(Message)
  BY DEF TypeInv, QueueTypes
<1>a. ASSUME UNCHANGED msg, msg = NoMsg \/ UNCHANGED posted PROVE KeyInv'
  BY <1>a DEF KeyInv, NoChar
<1>b. ASSUME UNCHANGED msg, NEW m \in Message, m.on # "char", posted' = Append(posted, m)
      PROVE  KeyInv'
  <2>1. PICK p : p = posted'
    OBVIOUS
  <2>2. msg # NoMsg => NoChar(p)
    BY <1>0, <1>b, <2>1, NoCharAppended DEF KeyInv
  <2> QED
    BY <1>b, <2>1, <2>2 DEF KeyInv, NoChar
<1>1. CASE PaintSteps
  <2>1. msg = NoMsg \/ UNCHANGED posted
    BY <1>1 DEF PaintSteps, CreateWindow, SetSize, Show, Refresh, WmPaint, GetBuffer, ApplyBuffer,
       Running, WmShow, WmSysCommand, WmClose, OnPosted, Taking, msgVars
  <2>2. UNCHANGED msg
    BY <1>1 DEF PaintSteps, CreateWindow, SetSize, Show, Refresh, WmPaint, GetBuffer, ApplyBuffer,
       WmShow, WmSysCommand, WmClose, OnPosted, msgVars
  <2> QED
    BY <1>a, <2>1, <2>2
<1>2. CASE PointerSteps
  <2>1. UNCHANGED msg
    BY <1>2 DEF PointerSteps, WmMouseMove, WmMouseLeave, WmInput, WmButton, OnPosted, OnInput,
       UserMoves, LockPointer, UnlockPointer, SetCursor, msgVars
  <2>2. ASSUME NEW v \in Pointed, UserMoves(v) PROVE KeyInv'
    <3>1. PointerAt(v, sys) /\ sys \in System
      BY <2>2 DEF UserMoves, TypeInv
    <3>2. CASE posted' = posted
      BY <1>a, <2>1, <3>2
    <3>3. CASE sys.tracked \in Window /\ posted' = Append(posted, Msg("leave", sys.tracked, 0))
      <4>1. Msg("leave", sys.tracked, 0) \in Message /\ Msg("leave", sys.tracked, 0).on = "leave"
        BY <3>3, MessageTypes DEF Msg
      <4> QED
        BY <1>b, <2>1, <3>3, <4>1
    <3> QED
      BY <3>1, <3>2, <3>3, PointerMoved
  <2>3. CASE WmMouseMove \/ WmMouseLeave \/ WmInput \/ WmButton
    <3>1. msg = NoMsg \/ UNCHANGED posted
      BY <2>3 DEF WmMouseMove, WmMouseLeave, WmInput, WmButton, OnPosted, Taking
    <3> QED
      BY <1>a, <2>1, <3>1
  <2>4. ASSUME NEW w \in Window,
               LockPointer(w) \/ UnlockPointer(w) \/ \E c \in Images : SetCursor(w, c)
        PROVE  KeyInv'
    <3>1. msg = NoMsg
      BY <2>4 DEF LockPointer, UnlockPointer, SetCursor, Running
    <3> QED
      BY <1>a, <2>1, <3>1
  <2> QED
    BY <1>2, <2>2, <2>3, <2>4 DEF PointerSteps
<1>3. CASE TakeKey
  BY <1>3 DEF TakeKey, KeyInv, NoChar
<1>4. CASE HandleKey
  BY <1>4 DEF HandleKey, KeyInv
<1>5. CASE Drop
  BY <1>5, <1>a DEF Drop, OnPosted, Taking
<1>6. CASE Wakeup
  <2>1. posted' = Append(posted, Msg("user", None, 0)) /\ UNCHANGED msg
    BY <1>6 DEF Wakeup
  <2>2. Msg("user", None, 0) \in Message /\ Msg("user", None, 0).on = "user"
    BY MessageTypes DEF Msg
  <2> QED
    BY <1>b, <2>1, <2>2
<1>7. CASE Return
  BY <1>7, <1>a, ReturnCases
<1>8. CASE Dispatch
  BY <1>8, <1>a DEF Dispatch
<1>9. ASSUME NEW w \in Window, Destroy(w) PROVE KeyInv'
  BY <1>9, <1>a DEF Destroy, Running
<1>10. ASSUME NEW w \in Window, UserCommands(w) PROVE KeyInv'
  <2>1. PICK m \in {Msg("close", w, 0)} \cup {Msg("command", w, s) : s \in Sizes} :
          posted' = Append(posted, m)
    BY <1>10 DEF UserCommands
  <2>2. m \in Message /\ m.on # "char"
    <3>1. CASE m = Msg("close", w, 0)
      <4>1. m \in Message
        BY <3>1, MessageTypes
      <4> QED
        BY <3>1, <4>1 DEF Msg
    <3>2. CASE \E s \in Sizes : m = Msg("command", w, s)
      <4>1. PICK s \in Sizes : m = Msg("command", w, s)
        BY <3>2
      <4>2. m \in Message
        BY <4>1, MessageTypes
      <4> QED
        BY <4>1, <4>2 DEF Msg
    <3> QED
      BY <2>1, <3>1, <3>2
  <2>3. UNCHANGED msg
    BY <1>10 DEF UserCommands
  <2> QED
    BY <1>b, <2>1, <2>2, <2>3
<1>11. ASSUME NEW w \in Window, UserInput(w) \/ Uncover(w) PROVE KeyInv'
  BY <1>11, <1>a DEF UserInput, Arrives, Uncover, msgVars
<1>12. CASE UNCHANGED vars
  BY <1>12, <1>a DEF vars, msgVars
<1> QED
  BY <1>1, <1>2, <1>3, <1>4, <1>5, <1>6, <1>7, <1>8, <1>9, <1>10, <1>11, <1>12, Steps
     DEF KeySteps, RestSteps

\* Messages that are all characters, at most eight, are all taken.
LEMMA AllLeading ==
  ASSUME NEW p \in Seq(Message), Len(p) <= 8, \A i \in 1 .. Len(p) : p[i].on = "char"
  PROVE  Leading(p) = Len(p)
<1> DEFINE fits(n) == /\ \A i \in 1 .. n : p[i].on = "char"
                      /\ n < Len(p) => p[n + 1].on # "char"
<1>1. Len(p) \in Nat
  OBVIOUS
<1>2. Len(p) \in 0 .. Len(p) /\ fits(Len(p))
  BY <1>1
<1>3. ASSUME NEW n \in 0 .. Len(p), fits(n) PROVE n = Len(p)
  <2>1. n < Len(p) => n + 1 \in 1 .. Len(p)
    BY <1>1
  <2> QED
    BY <1>1, <1>3, <2>1
<1> HIDE DEF fits
<1>4. (CHOOSE n \in 0 .. Len(p) : fits(n)) = Len(p)
  BY <1>2, <1>3
<1>5. Leading(p) = IF Len(p) > 8 THEN 8 ELSE Len(p)
  BY <1>4 DEF Leading, fits
<1> QED
  BY <1>1, <1>5

\* Another message in front of the characters keeps them from being taken.
LEMMA NoneLeading ==
  ASSUME NEW p \in Seq(Message), Len(p) > 0, p[1].on # "char"
  PROVE  Leading(p) = 0
<1> DEFINE fits(n) == /\ \A i \in 1 .. n : p[i].on = "char"
                      /\ n < Len(p) => p[n + 1].on # "char"
<1>1. 0 \in 0 .. Len(p) /\ fits(0)
  OBVIOUS
<1>2. ASSUME NEW n \in 0 .. Len(p), fits(n) PROVE n = 0
  BY <1>2
<1> HIDE DEF fits
<1>3. (CHOOSE n \in 0 .. Len(p) : fits(n)) = 0
  BY <1>1, <1>2
<1>4. Leading(p) = IF 0 > 8 THEN 8 ELSE 0
  BY <1>3 DEF Leading, fits
<1> QED
  BY <1>4

LEMMA KeyText ==
  ASSUME TypeInv, KeyInv, HandleKey
  PROVE  Last(stack').arg = IF msg.on = "keydown" /\ posted = <<>> THEN msg.arg ELSE 0
<1>1. /\ msg # NoMsg /\ NoChar(posted) /\ stack = <<>> /\ msg \in Message
      /\ posted \in Seq(Message)
  BY DEF HandleKey, TypeInv, QueueTypes, StackInv, KeyInv
<1>2. PICK q : q = IF msg.on = "keydown" THEN posted \o Chars(msg.arg) ELSE posted
  OBVIOUS
<1>3. Push(Frame("key", msg.win, "end", Leading(q)))
  BY <1>2 DEF HandleKey
<1>4. stack' = <<Frame("key", msg.win, "end", Leading(q))>>
  BY <1>1, <1>3 DEF Push
<1>5. Last(stack').arg = Leading(q)
  BY <1>4 DEF Last, Frame
<1>6. PICK n \in 0 .. 8 : msg.on = "keydown" => n = msg.arg
  <2>1. CASE msg.on = "keydown"
    <3>1. msg.arg \in 0 .. 8
      BY <1>1, <2>1, MessageFacts, TextAssumption
    <3> QED
      BY <3>1
  <2>2. CASE msg.on # "keydown"
    <3>1. 0 \in 0 .. 8
      OBVIOUS
    <3> QED
      BY <2>2, <3>1
  <2> QED
    BY <2>1, <2>2
<1>7. PICK c \in Seq(Message) : c = Chars(n) /\ Len(c) = n /\ \A i \in 1 .. n : c[i].on = "char"
  BY Characters
<1>8. CASE posted # <<>>
  <2>1. q \in Seq(Message) /\ Len(q) > 0 /\ q[1] = posted[1]
    <3>1. Len(posted) > 0
      BY <1>1, <1>8
    <3>2. CASE msg.on = "keydown"
      <4>1. q = posted \o c
        BY <1>2, <1>6, <1>7, <3>2
      <4> QED
        BY <1>1, <1>7, <3>1, <4>1
    <3>3. CASE msg.on # "keydown"
      <4>1. q = posted
        BY <1>2, <3>3
      <4> QED
        BY <1>1, <3>1, <4>1
    <3> QED
      BY <3>2, <3>3
  <2>2. q[1].on # "char"
    <3>1. 1 \in DOMAIN posted
      BY <1>1, <1>8
    <3> QED
      BY <1>1, <2>1, <3>1 DEF NoChar
  <2> QED
    BY <1>5, <1>8, <2>1, <2>2, NoneLeading
<1>9. CASE posted = <<>> /\ msg.on = "keydown"
  <2>1. q = c
    <3>1. q = posted \o c
      BY <1>2, <1>6, <1>7, <1>9
    <3> QED
      BY <1>7, <1>9, <3>1
  <2>2. Leading(c) = n
    BY <1>7, AllLeading
  <2> QED
    BY <1>5, <1>6, <1>9, <2>1, <2>2
<1>10. CASE posted = <<>> /\ msg.on # "keydown"
  <2>1. q \in Seq(Message) /\ Len(q) = 0
    BY <1>1, <1>2, <1>10
  <2>2. Len(q) <= 8 /\ \A i \in 1 .. Len(q) : q[i].on = "char"
    BY <2>1
  <2>3. Leading(q) = 0
    BY <2>1, <2>2, AllLeading
  <2> QED
    BY <1>5, <1>10, <2>3
<1> QED
  BY <1>8, <1>9, <1>10

\* A pressed key is reported with the text it stands for, whatever is posted by other
\* threads, by the user or by the program, or with none if that comes first: its
\* text is neither cut nor given to another key (handle_key and display_dispatch).
THEOREM TextsWhole == Spec => TextWhole
<1>1. Init => KeyInv
  BY DEF Init, KeyInv
<1>2. TypeInv /\ KeyInv /\ [Next]_vars => KeyInv'
  BY KeyStep
<1>3. TypeInv /\ KeyInv /\ [Next]_vars =>
        [HandleKey =>
           Last(stack').arg = IF msg.on = "keydown" /\ posted = <<>> THEN msg.arg ELSE 0]_vars
  BY KeyText
<1> QED
  BY <1>1, <1>2, <1>3, TypeInit, TypeStep, PTL DEF Spec, TextWhole

-----------------------------------------------------------------------------
(* Live windows *)

OfLive(q) == \A i \in DOMAIN q : q[i].win # None => Live(q[i].win)

\* Messages are for live windows, which alone are visible or under the pointer.
LiveInv ==
  /\ OfLive(posted) /\ OfLive(input)
  /\ sys.invalid \subseteq sys.visible
  /\ \A w \in sys.visible : Live(w)
  /\ sys.pointer # None => Live(sys.pointer)
  /\ sys.tracked # None => Live(sys.tracked)

LEMMA LiveInit == Init => LiveInv
  BY DEF Init, LiveInv, OfLive

\* Queues in which messages for live windows are put, or from which one is taken.
LEMMA OfLiveFacts ==
  ASSUME NEW q \in Seq(Message), OfLive(q)
  PROVE  /\ q # <<>> => OfLive(Tail(q)) /\ (Head(q).win # None => Live(Head(q).win))
         /\ \A m \in Message : (m.win # None => Live(m.win)) => OfLive(Append(q, m))
<1>1. ASSUME q # <<>>
      PROVE  OfLive(Tail(q)) /\ (Head(q).win # None => Live(Head(q).win))
  <2>1. /\ 1 \in DOMAIN q /\ Head(q) = q[1]
        /\ \A i \in DOMAIN Tail(q) : i + 1 \in DOMAIN q /\ Tail(q)[i] = q[i + 1]
    BY <1>1, HeadAndTail
  <2> QED
    BY <2>1 DEF OfLive
<1>2. ASSUME NEW m \in Message, m.win # None => Live(m.win) PROVE OfLive(Append(q, m))
  <2>1. PICK n : /\ DOMAIN Append(q, m) = DOMAIN q \cup {n} /\ Append(q, m)[n] = m
                 /\ \A i \in DOMAIN q : Append(q, m)[i] = q[i]
    BY Queued
  <2>2. PICK a : a = Append(q, m)
    OBVIOUS
  <2>3. OfLive(a)
    BY <1>2, <2>1, <2>2 DEF OfLive
  <2> QED
    BY <2>2, <2>3
<1> QED
  BY <1>1, <1>2

\* With the windows as they are, LiveInv is about the queues and the system.
LEMMA LiveSame ==
  ASSUME LiveInv, UNCHANGED <<status, posted, input, sys>>
  PROVE  LiveInv'
  BY DEF LiveInv, OfLive, Live

LEMMA LiveQueues ==
  ASSUME TypeInv, LiveInv, UNCHANGED status,
         \/ posted' = posted
         \/ posted # <<>> /\ posted' = Tail(posted)
         \/ \E m \in Message : posted' = Append(posted, m) /\ (m.win # None => Live(m.win)),
         \/ input' = input
         \/ input # <<>> /\ input' = Tail(input)
         \/ \E m \in Message : input' = Append(input, m) /\ (m.win # None => Live(m.win))
  PROVE  OfLive(posted)' /\ OfLive(input)'
<1>1. /\ posted \in Seq(Message) /\ input \in Seq(Message)
      /\ OfLive(posted) /\ OfLive(input)
  BY DEF TypeInv, QueueTypes, LiveInv
<1>2. PICK p : p = posted'
  OBVIOUS
<1>3. OfLive(p)
  BY <1>1, <1>2, OfLiveFacts
<1>4. PICK i : i = input'
  OBVIOUS
<1>5. OfLive(i)
  BY <1>1, <1>4, OfLiveFacts
<1> QED
  BY <1>2, <1>3, <1>4, <1>5 DEF OfLive, Live

\* What the steps about sizes and painting do to the visible and invalid windows.
LEMMA LivePaint ==
  ASSUME TypeInv, LiveInv, PaintSteps
  PROVE  LiveInv'
<1>0. sys \in System /\ posted \in Seq(Message)
  BY DEF TypeInv, QueueTypes
<1>1. UNCHANGED input /\ sys'.pointer = sys.pointer /\ sys'.tracked = sys.tracked
  BY PaintLeaves
<1>2. ASSUME OfLive(posted)', OfLive(input)', UNCHANGED status,
             sys'.invalid \subseteq sys'.visible, \A w \in sys'.visible : Live(w)
      PROVE  LiveInv'
  BY <1>1, <1>2 DEF LiveInv, Live
<1>3. CASE WmShow
  <2>1. OnPosted("show") /\ UNCHANGED status
    BY <1>3 DEF WmShow
  <2>2. /\ posted # <<>> /\ posted' = Tail(posted) /\ Head(posted) \in Message
        /\ Head(posted).on = "show"
    BY <2>1, TakenPosted
  <2>3. PICK w \in Window : w = Head(posted).win
    BY <2>2, MessageFacts
  <2>4. Live(w)
    BY <1>0, <2>2, <2>3, OfLiveFacts, WindowAssumption DEF LiveInv
  <2>5. OfLive(posted)' /\ OfLive(input)'
    BY <1>1, <2>1, <2>2, LiveQueues
  <2>6. \/ sys' = [sys EXCEPT !.visible = @ \cup {w}, !.invalid = @ \cup {w}]
        \/ sys' = [sys EXCEPT !.visible = @ \ {w}, !.invalid = @ \ {w}]
    BY <1>3, <2>3 DEF WmShow
  <2>7. \/ sys'.visible = sys.visible \cup {w} /\ sys'.invalid = sys.invalid \cup {w}
        \/ sys'.visible = sys.visible \ {w} /\ sys'.invalid = sys.invalid \ {w}
    BY <1>0, <2>6 DEF System
  <2> QED
    BY <1>2, <2>1, <2>4, <2>5, <2>7 DEF LiveInv
<1>4. CASE WmSysCommand \/ WmClose
  <2>1. UNCHANGED <<status, sys>> /\ posted # <<>> /\ posted' = Tail(posted)
    BY <1>4, TakenPosted DEF WmSysCommand, WmClose, winVars
  <2>2. OfLive(posted)' /\ OfLive(input)'
    BY <1>1, <2>1, LiveQueues
  <2> QED
    BY <1>2, <2>1, <2>2 DEF LiveInv
<1>5. ASSUME NEW w \in Window, NEW s \in Sizes, CreateWindow(w, s) PROVE LiveInv'
  <2>1. /\ status' = [status EXCEPT ![w] = "live"] /\ sys' = [sys EXCEPT !.size[w] = s]
        /\ posted' = Append(posted, Msg("show", w, TRUE))
    BY <1>5 DEF CreateWindow
  <2>2. sys'.visible = sys.visible /\ sys'.invalid = sys.invalid
    BY <1>0, <2>1 DEF System
  <2>3. \A v : Live(v) => Live(v)'
    BY <2>1 DEF Live, TypeInv, WindowTypes
  <2>4. Live(w)' /\ Msg("show", w, TRUE).win = w
    BY <2>1, WindowAssumption DEF Live, TypeInv, WindowTypes, Msg
  <2>5. PICK n : /\ DOMAIN posted' = DOMAIN posted \cup {n}
                 /\ posted'[n] = Msg("show", w, TRUE)
                 /\ \A i \in DOMAIN posted : posted'[i] = posted[i]
    BY ZenonT(30), <1>0, <2>1, MessageTypes, Queued
  <2>6. OfLive(posted)'
    BY <2>3, <2>4, <2>5 DEF OfLive, LiveInv
  <2>7. OfLive(input)'
    BY <1>1, <2>3 DEF OfLive, LiveInv
  <2> QED
    BY <1>1, <2>2, <2>3, <2>6, <2>7 DEF LiveInv
<1>6. ASSUME NEW w \in Window, NEW s \in Sizes, SetSize(w, s) PROVE LiveInv'
  <2>1. WmSize(w, s, stack) /\ UNCHANGED <<status, posted>>
    BY <1>6 DEF SetSize, msgVars
  <2>2. s \in Nat
    BY WindowAssumption
  <2>3. /\ sys'.visible = sys.visible
        /\ sys'.invalid = IF w \in sys.visible THEN sys.invalid \cup {w} ELSE sys.invalid
    BY <2>1, <2>2, Sized
  <2>4. OfLive(posted)' /\ OfLive(input)'
    BY <1>1, <2>1, LiveQueues
  <2> QED
    BY <1>2, <2>1, <2>3, <2>4 DEF LiveInv
<1>7. ASSUME NEW w \in Window, NEW on \in BOOLEAN, Show(w, on) PROVE LiveInv'
  <2>1. /\ UNCHANGED <<status, sys>> /\ Live(w) /\ posted' = Append(posted, Msg("show", w, on))
    BY <1>7 DEF Show, winVars
  <2>2. Msg("show", w, on) \in Message /\ Msg("show", w, on).win = w
    BY MessageTypes DEF Msg
  <2>3. OfLive(posted)' /\ OfLive(input)'
    BY <1>1, <2>1, <2>2, LiveQueues
  <2> QED
    BY <1>2, <2>1, <2>3 DEF LiveInv
<1>8. ASSUME NEW w \in Window, Refresh(w) \/ WmPaint(w) PROVE LiveInv'
  <2>1. UNCHANGED <<status, posted>>
    BY <1>8 DEF Refresh, WmPaint, winVars, msgVars
  <2>2. \/ sys' = [sys EXCEPT !.invalid = IF w \in sys.visible THEN @ \cup {w} ELSE @]
        \/ sys' = [sys EXCEPT !.invalid = @ \ {w}]
        \/ sys' = sys
    BY <1>0, <1>8 DEF Refresh, WmPaint, Redrawn
  <2>3. sys'.visible = sys.visible /\ sys'.invalid \subseteq sys.visible
    BY <1>0, <2>2 DEF System, LiveInv
  <2>4. OfLive(posted)' /\ OfLive(input)'
    BY <1>1, <2>1, LiveQueues
  <2> QED
    BY <1>2, <2>1, <2>3, <2>4 DEF LiveInv
<1>9. ASSUME NEW w \in Window, GetBuffer(w) \/ ApplyBuffer(w) PROVE LiveInv'
  BY <1>9, LiveSame DEF GetBuffer, ApplyBuffer, msgVars
<1> QED
  BY <1>3, <1>4, <1>5, <1>6, <1>7, <1>8, <1>9 DEF PaintSteps

LEMMA LivePointer ==
  ASSUME TypeInv, LiveInv, PointerSteps
  PROVE  LiveInv'
<1>0. sys \in System /\ posted \in Seq(Message) /\ input \in Seq(Message)
  BY DEF TypeInv, QueueTypes
<1>1. UNCHANGED status /\ sys'.visible = sys.visible /\ sys'.invalid = sys.invalid
  BY PointerLeaves
<1>2. ASSUME OfLive(posted)', OfLive(input)',
             sys'.pointer # None => Live(sys'.pointer), sys'.tracked # None => Live(sys'.tracked)
      PROVE  LiveInv'
  BY <1>1, <1>2 DEF LiveInv, Live
<1>3. CASE WmMouseMove
  <2>1. OnInput("move") /\ UNCHANGED posted /\ \E u : sys' = WithCursor(u)
    BY <1>3 DEF WmMouseMove
  <2>2. sys'.pointer = sys.pointer /\ sys'.tracked = sys.tracked
    BY <1>0, <2>1 DEF WithCursor, System
  <2>3. input # <<>> /\ input' = Tail(input)
    BY <2>1, TakenInput
  <2>4. OfLive(posted)' /\ OfLive(input)'
    BY <1>1, <2>1, <2>3, LiveQueues
  <2> QED
    BY <1>2, <2>2, <2>4 DEF LiveInv
<1>4. CASE WmMouseLeave
  <2>1. OnPosted("leave") /\ UNCHANGED sys
    BY <1>4 DEF WmMouseLeave
  <2>2. posted # <<>> /\ posted' = Tail(posted) /\ UNCHANGED input
    BY <2>1, TakenPosted
  <2>3. OfLive(posted)' /\ OfLive(input)'
    BY <1>1, <2>2, LiveQueues
  <2> QED
    BY <1>2, <2>1, <2>3 DEF LiveInv
<1>5. CASE WmInput \/ WmButton
  <2>1. (OnInput("raw") \/ OnInput("button")) /\ UNCHANGED <<posted, sys>>
    BY <1>5 DEF WmInput, WmButton
  <2>2. input # <<>> /\ input' = Tail(input)
    BY <2>1, TakenInput
  <2>3. OfLive(posted)' /\ OfLive(input)'
    BY <1>1, <2>1, <2>2, LiveQueues
  <2> QED
    BY <1>2, <2>1, <2>3 DEF LiveInv
<1>6. ASSUME NEW v \in Pointed, NEW t \in System, PointerAt(v, t), v # None => Live(v),
             t.tracked = sys.tracked
      PROVE  LiveInv'
  <2>1. /\ posted' \in Seq(Message) /\ input' \in Seq(Message) /\ sys'.pointer = v
        /\ \A i \in DOMAIN input' :
             \/ input'[i] = Msg("move", v, 0) /\ v # None
             \/ \E j \in DOMAIN input : input'[i] = input[j]
        /\ \/ /\ t.tracked \in {None, v} /\ sys'.tracked = t.tracked /\ posted' = posted
           \/ /\ t.tracked \in Window /\ sys'.tracked = None
              /\ posted' = Append(posted, Msg("leave", t.tracked, 0))
    BY <1>6, PointerMoved
  <2>2. Msg("move", v, 0).win = v /\ \A u : Msg("leave", u, 0).win = u
    BY DEF Msg
  <2>3. OfLive(input)'
    BY <1>1, <1>6, <2>1, <2>2 DEF OfLive, LiveInv, Live
  <2>4. OfLive(posted)'
    <3>1. CASE posted' = posted
      BY <1>1, <3>1 DEF LiveInv, OfLive, Live
    <3>2. CASE t.tracked \in Window /\ posted' = Append(posted, Msg("leave", t.tracked, 0))
      <4>1. Msg("leave", t.tracked, 0) \in Message
        BY <3>2, MessageTypes
      <4>2. Live(t.tracked)
        BY <1>6, <3>2, WindowAssumption DEF LiveInv
      <4>3. OfLive(Append(posted, Msg("leave", t.tracked, 0)))
        BY <1>0, <2>2, <4>1, <4>2, OfLiveFacts DEF LiveInv
      <4> QED
        BY <1>1, <3>2, <4>3 DEF OfLive, Live
    <3> QED
      BY <2>1, <3>1, <3>2
  <2> QED
    BY <1>2, <1>6, <2>1, <2>3, <2>4 DEF LiveInv
<1>7. ASSUME NEW v \in Pointed, UserMoves(v) PROVE LiveInv'
  <2>1. PointerAt(v, sys) /\ (v = None \/ v \in sys.visible)
    BY <1>7 DEF UserMoves
  <2>2. v # None => Live(v)
    BY <2>1 DEF LiveInv
  <2> QED
    BY <1>0, <1>6, <2>1, <2>2
<1>8. ASSUME NEW w \in Window, LockPointer(w) PROVE LiveInv'
  <2>1. Live(w) /\ \E ok \in RawWorks :
          PointerAt(w, IF ok THEN [sys EXCEPT !.clip = w, !.raw = w]
                             ELSE [sys EXCEPT !.clip = None])
    BY <1>8 DEF LockPointer
  <2>2. PICK t \in System : PointerAt(w, t) /\ t.tracked = sys.tracked
    <3>1. \A t \in {[sys EXCEPT !.clip = w, !.raw = w], [sys EXCEPT !.clip = None]} :
            t \in System /\ t.tracked = sys.tracked
      BY <1>0 DEF System, Pointed
    <3> QED
      BY <2>1, <3>1, SwitchAssumption
  <2> QED
    BY <1>6, <2>1, <2>2 DEF Pointed
<1>9. ASSUME NEW w \in Window, NEW c \in Images, UnlockPointer(w) \/ SetCursor(w, c)
      PROVE  LiveInv'
  <2>1. /\ UNCHANGED <<posted, input>>
        /\ \/ sys' = [sys EXCEPT !.clip = None, !.raw = None]
           \/ sys' = sys \/ sys' = [sys EXCEPT !.shown = c]
    BY <1>9 DEF UnlockPointer, SetCursor, msgVars
  <2>2. sys'.pointer = sys.pointer /\ sys'.tracked = sys.tracked
    BY <1>0, <2>1 DEF System
  <2>3. OfLive(posted)' /\ OfLive(input)'
    BY <1>1, <2>1, LiveQueues
  <2> QED
    BY <1>2, <2>2, <2>3 DEF LiveInv
<1>10. Images # {}
  BY DEF Images
<1> QED
  BY <1>3, <1>4, <1>5, <1>7, <1>8, <1>9, <1>10 DEF PointerSteps

LEMMA LiveRest ==
  ASSUME TypeInv, LiveInv, RestSteps
  PROVE  LiveInv'
<1>0. sys \in System /\ posted \in Seq(Message) /\ input \in Seq(Message)
  BY DEF TypeInv, QueueTypes
<1>1. ASSUME NEW w \in Window, Destroy(w) PROVE LiveInv'
  <2>1. /\ status' = [status EXCEPT ![w] = "freed"]
        /\ posted' = OfOthers(posted, w) /\ input' = OfOthers(input, w)
        /\ sys' = [sys EXCEPT !.visible = @ \ {w}, !.invalid = @ \ {w}, !.size[w] = 0,
                              !.pointer = IF @ = w THEN None ELSE @,
                              !.tracked = IF @ = w THEN None ELSE @]
    BY <1>1 DEF Destroy
  <2>2. \A v : v # w /\ Live(v) => Live(v)'
    BY <2>1 DEF Live, TypeInv, WindowTypes
  <2>3. ASSUME NEW q \in Seq(Message), OfLive(q), NEW p, p = OfOthers(q, w)
        PROVE  \A i \in DOMAIN p : p[i].win # None => Live(p[i].win)'
    <3>1. PICK place \in [DOMAIN p -> DOMAIN q] :
            \A j \in DOMAIN p : p[j] = q[place[j]] /\ q[place[j]].win # w
      BY <2>3, OthersFacts
    <3> QED
      BY <2>2, <2>3, <3>1 DEF OfLive
  <2>4. OfLive(posted)' /\ OfLive(input)'
    BY <1>0, <2>1, <2>3 DEF OfLive, LiveInv
  <2>5. /\ sys'.visible = sys.visible \ {w} /\ sys'.invalid = sys.invalid \ {w}
        /\ sys'.pointer = (IF sys.pointer = w THEN None ELSE sys.pointer)
        /\ sys'.tracked = (IF sys.tracked = w THEN None ELSE sys.tracked)
    BY <1>0, <2>1 DEF System
  <2> QED
    BY <2>2, <2>4, <2>5 DEF LiveInv
<1>2. CASE Return
  <2>1. /\ UNCHANGED <<status, input>> /\ sys'.visible = sys.visible
        /\ sys'.pointer = sys.pointer
    BY <1>2, ReturnLeaves
  <2>2. PICK u \in Frames : u = Under
    BY <1>2, ReturnCases
  <2>3. \/ UNCHANGED <<posted, sys>>
        \/ sys' = [sys EXCEPT !.invalid = @ \ {u.win}] /\ UNCHANGED posted
        \/ WmSize(u.win, u.arg, <<>>) /\ UNCHANGED posted
        \/ Live(u.win) /\ Track(u.win, sys, posted)
    BY <1>2, <2>2, ReturnCases
  <2>4. u.win \in Window /\ u.arg \in Nat
    BY DEF Frames
  <2>5. /\ sys'.invalid \subseteq sys.visible
        /\ sys'.tracked # None => Live(sys'.tracked)
        /\ OfLive(posted)' /\ OfLive(input)'
    <3>1. CASE UNCHANGED <<posted, sys>>
      <4>1. OfLive(posted)' /\ OfLive(input)'
        BY <2>1, <3>1, LiveQueues
      <4> QED
        BY <3>1, <4>1 DEF LiveInv
    <3>2. CASE sys' = [sys EXCEPT !.invalid = @ \ {u.win}] /\ UNCHANGED posted
      <4>1. OfLive(posted)' /\ OfLive(input)'
        BY <2>1, <3>2, LiveQueues
      <4>2. sys'.invalid = sys.invalid \ {u.win} /\ sys'.tracked = sys.tracked
        BY <1>0, <3>2 DEF System
      <4> QED
        BY <4>1, <4>2 DEF LiveInv
    <3>3. CASE WmSize(u.win, u.arg, <<>>) /\ UNCHANGED posted
      <4>1. OfLive(posted)' /\ OfLive(input)'
        BY <2>1, <3>3, LiveQueues
      <4>2. /\ sys'.tracked = sys.tracked
            /\ sys'.invalid = IF u.win \in sys.visible THEN sys.invalid \cup {u.win}
                              ELSE sys.invalid
        BY <2>4, <3>3, Sized
      <4> QED
        BY <4>1, <4>2 DEF LiveInv
    <3>4. CASE Live(u.win) /\ Track(u.win, sys, posted)
      <4>1. /\ sys'.invalid = sys.invalid
            /\ \/ sys'.tracked = u.win /\ posted' = posted
               \/ /\ sys'.tracked = sys.tracked
                  /\ posted' = Append(posted, Msg("leave", u.win, 0))
        BY <2>4, <3>4, Tracked
      <4>2. Msg("leave", u.win, 0) \in Message /\ Msg("leave", u.win, 0).win = u.win
        BY <2>4, MessageTypes DEF Msg
      <4>3. OfLive(posted)' /\ OfLive(input)'
        BY <2>1, <3>4, <4>1, <4>2, LiveQueues
      <4> QED
        BY <3>4, <4>1, <4>3 DEF LiveInv
    <3> QED
      BY <2>3, <3>1, <3>2, <3>3, <3>4
  <2> QED
    BY <2>1, <2>5 DEF LiveInv, Live
<1>3. CASE Dispatch
  BY <1>3, LiveSame DEF Dispatch, winVars
<1>4. ASSUME NEW w \in Window, UserInput(w) PROVE LiveInv'
  <2>1. /\ UNCHANGED <<status, posted, sys>>
        /\ \E m \in Message : input' = Append(input, m) /\ m.win = w
    <3>1. ASSUME NEW m \in Message, Arrives(m)
          PROVE  UNCHANGED status /\ input' = Append(input, m)
      BY <3>1 DEF Arrives, winVars
    <3>2. \E m \in Message : Arrives(m) /\ m.win = w
      <4>1. \A on, n : Msg(on, w, n).win = w
        BY DEF Msg
      <4> QED
        BY <1>4, <4>1, MessageTypes DEF UserInput
    <3> QED
      BY <1>4, <3>1, <3>2 DEF UserInput
  <2>2. Live(w)
    BY <1>4 DEF UserInput
  <2>3. OfLive(posted)' /\ OfLive(input)'
    BY <2>1, <2>2, LiveQueues
  <2> QED
    BY <2>1, <2>3 DEF LiveInv, Live
<1>5. ASSUME NEW w \in Window, UserCommands(w) PROVE LiveInv'
  <2>1. /\ UNCHANGED <<status, input, sys>> /\ w \in sys.visible
        /\ \E m \in {Msg("close", w, 0)} \cup {Msg("command", w, s) : s \in Sizes} :
             posted' = Append(posted, m)
    BY <1>5 DEF UserCommands, winVars
  <2>2. \A m \in {Msg("close", w, 0)} \cup {Msg("command", w, s) : s \in Sizes} :
          m \in Message /\ m.win = w
    <3>1. /\ Msg("close", w, 0) \in Message
          /\ \A s \in Sizes : Msg("command", w, s) \in Message
      BY MessageTypes
    <3>2. \A on, n : Msg(on, w, n).win = w
      BY DEF Msg
    <3> QED
      BY <3>1, <3>2
  <2>3. Live(w)
    BY <2>1 DEF LiveInv
  <2>4. OfLive(posted)' /\ OfLive(input)'
    BY <2>1, <2>2, <2>3, LiveQueues
  <2> QED
    BY <2>1, <2>4 DEF LiveInv, Live
<1>6. ASSUME NEW w \in Window, Uncover(w) PROVE LiveInv'
  <2>1. /\ UNCHANGED <<status, posted, input>> /\ w \in sys.visible
        /\ sys' = [sys EXCEPT !.invalid = @ \cup {w}]
    BY <1>6 DEF Uncover, winVars, msgVars
  <2>2. /\ sys'.visible = sys.visible /\ sys'.invalid = sys.invalid \cup {w}
        /\ sys'.pointer = sys.pointer /\ sys'.tracked = sys.tracked
    BY <1>0, <2>1 DEF System
  <2>3. OfLive(posted)' /\ OfLive(input)'
    BY <2>1, LiveQueues
  <2> QED
    BY <2>1, <2>2, <2>3 DEF LiveInv, Live
<1> QED
  BY <1>1, <1>2, <1>3, <1>4, <1>5, <1>6 DEF RestSteps

LEMMA LiveKeys ==
  ASSUME TypeInv, LiveInv, KeySteps
  PROVE  LiveInv'
<1>1. UNCHANGED <<status, sys>>
  BY KeysLeave DEF winVars
<1>2. CASE TakeKey
  <2>1. UNCHANGED posted /\ input # <<>> /\ input' = Tail(input)
    BY <1>2 DEF TakeKey
  <2>2. OfLive(posted)' /\ OfLive(input)'
    BY <1>1, <2>1, LiveQueues
  <2> QED
    BY <1>1, <2>2 DEF LiveInv, Live
<1>3. CASE HandleKey
  <2>1. PICK q : q = IF msg.on = "keydown" THEN posted \o Chars(msg.arg) ELSE posted
    OBVIOUS
  <2>2. UNCHANGED input /\ posted' = SubSeq(q, Leading(q) + 1, Len(q))
        /\ msg \in Message
    BY <1>3, <2>1 DEF HandleKey, TypeInv, QueueTypes
  <2>3. /\ q \in Seq(Message)
        /\ \A i \in DOMAIN q : q[i].win = None \/ \E j \in DOMAIN posted : q[i] = posted[j]
    <3>1. CASE msg.on = "keydown"
      <4>1. msg.arg \in Text
        BY <2>2, <3>1, MessageFacts
      <4>2. PICK n \in Nat : n = msg.arg
        <5>1. \A k \in Text : k \in Nat
          BY TextAssumption
        <5> QED
          BY <4>1, <5>1
      <4>3. PICK c \in Seq(Message) : c = Chars(n)
        BY Characters
      <4>4. \A i \in DOMAIN c : c[i].win = None
        BY <4>3 DEF Chars, Msg
      <4>5. posted \in Seq(Message) /\ q = posted \o c
        BY <2>1, <3>1, <4>2, <4>3 DEF TypeInv, QueueTypes
      <4>6. /\ q \in Seq(Message) /\ Len(q) = Len(posted) + Len(c)
            /\ \A i \in 1 .. Len(q) :
                 q[i] = IF i <= Len(posted) THEN posted[i] ELSE c[i - Len(posted)]
        BY <4>5
      <4>7. /\ Len(posted) \in Nat /\ Len(c) \in Nat /\ DOMAIN c = 1 .. Len(c)
            /\ DOMAIN posted = 1 .. Len(posted) /\ DOMAIN q = 1 .. Len(q)
        BY <4>5, <4>6
      <4>8. ASSUME NEW i \in DOMAIN q
            PROVE  q[i].win = None \/ \E j \in DOMAIN posted : q[i] = posted[j]
        <5>1. CASE i <= Len(posted)
          BY <4>6, <4>7, <5>1
        <5>2. CASE ~ (i <= Len(posted))
          <6>1. i - Len(posted) \in DOMAIN c
            BY <4>6, <4>7, <5>2
          <6> QED
            BY <4>4, <4>6, <4>7, <5>2, <6>1
        <5> QED
          BY <5>1, <5>2
      <4> QED
        BY <4>6, <4>8
    <3>2. CASE msg.on # "keydown"
      BY <2>1, <3>2 DEF TypeInv, QueueTypes
    <3> QED
      BY <3>1, <3>2
  <2>4. PICK n \in Nat : n = Leading(q)
    BY <2>3, LeadingCounts
  <2>5. \A i \in DOMAIN posted' : \E j \in DOMAIN q : posted'[i] = q[j]
    <3>1. posted' = SubSeq(q, n + 1, Len(q)) /\ Len(q) \in Nat /\ DOMAIN q = 1 .. Len(q)
      BY <2>2, <2>3, <2>4
    <3>2. posted' = [i \in 1 .. Len(q) - n |-> q[i + n]]
      BY <3>1
    <3>3. \A i \in 1 .. Len(q) - n : i + n \in 1 .. Len(q)
      BY <3>1
    <3> QED
      BY <3>1, <3>2, <3>3
  <2>6. OfLive(posted)'
    BY <1>1, <2>3, <2>5 DEF OfLive, LiveInv, Live
  <2>7. OfLive(input)'
    BY <1>1, <2>2 DEF OfLive, LiveInv, Live
  <2> QED
    BY <1>1, <2>6, <2>7 DEF LiveInv, Live
<1>4. CASE Drop
  <2>1. posted # <<>> /\ posted' = Tail(posted) /\ UNCHANGED input
    BY <1>4, TakenPosted DEF Drop
  <2>2. OfLive(posted)' /\ OfLive(input)'
    BY <1>1, <2>1, LiveQueues
  <2> QED
    BY <1>1, <2>2 DEF LiveInv, Live
<1>5. CASE Wakeup
  <2>1. posted' = Append(posted, Msg("user", None, 0)) /\ UNCHANGED input
    BY <1>5 DEF Wakeup
  <2>2. Msg("user", None, 0) \in Message /\ Msg("user", None, 0).win = None
    BY MessageTypes DEF Msg
  <2>3. OfLive(posted)' /\ OfLive(input)'
    BY <1>1, <2>1, <2>2, LiveQueues
  <2> QED
    BY <1>1, <2>3 DEF LiveInv, Live
<1> QED
  BY <1>2, <1>3, <1>4, <1>5 DEF KeySteps

LEMMA LiveStep ==
  ASSUME TypeInv, LiveInv, [Next]_vars
  PROVE  LiveInv'
<1>1. CASE UNCHANGED vars
  BY <1>1, LiveSame DEF vars, winVars, msgVars
<1> QED
  BY <1>1, Steps, LivePaint, LivePointer, LiveKeys, LiveRest

LEMMA LiveHolds == Spec => [](TypeInv /\ LiveInv)
<1> QED
  BY LiveInit, LiveStep, TypeInit, TypeStep, PTL DEF Spec

-----------------------------------------------------------------------------
(* The callback the thread is in *)

LEMMA UnderSizes ==
  ASSUME TypeInv, PaintSteps
  PROVE  Under' = Under \/ (Under = NoFrame /\ Under'.then \in {"end", "command", "paint"})
<1>0. StackInv
  BY DEF TypeInv
<1>1. ASSUME NEW w \in Window, NEW f \in Frames, Push(f), stack = <<>>
      PROVE  Under = NoFrame /\ Under' = f
  BY <1>1 DEF Push, Under
<1>2. ASSUME UNCHANGED stack PROVE Under' = Under
  BY <1>2 DEF Under
<1>3. CASE WmShow
  <2>1. /\ stack = <<>> /\ Head(posted) \in Message /\ Head(posted).on = "show"
    BY <1>3, TakenPosted DEF WmShow
  <2>2. PICK v \in Window : v = Head(posted).win
    BY <2>1, MessageFacts
  <2>3. stack' = stack \/ Push(Frame("resize", v, "end", 0))
    BY <1>3, <2>2 DEF WmShow
  <2>4. PICK f \in Frames : f = Frame("resize", v, "end", 0) /\ f.then = "end"
    BY FrameTypes DEF Frame
  <2> QED
    BY <1>1, <1>2, <2>1, <2>3, <2>4
<1>4. CASE WmSysCommand \/ WmClose
  <2>1. stack = <<>> /\ Head(posted) \in Message
    BY <1>4, TakenPosted DEF WmSysCommand, WmClose
  <2>2. PICK m \in Message : m = Head(posted)
    BY <2>1
  <2>3. /\ m.on \in {"command", "close"} /\ m.win \in Window
        /\ m.on = "command" => m.arg \in Sizes
    BY <1>4, <2>2, TakenPosted, MessageFacts DEF WmSysCommand, WmClose
  <2>4. \/ m.on = "command" /\ Push(Frame("state", m.win, "command", m.arg))
        \/ Push(Frame("close", m.win, "end", 0))
    BY <1>4, <2>2, TakenPosted DEF WmSysCommand, WmClose
  <2>5. PICK f \in Frames : Push(f) /\ f.then \in {"command", "end"}
    <3>1. m.on = "command" => /\ Frame("state", m.win, "command", m.arg) \in Frames
                              /\ Frame("state", m.win, "command", m.arg).then = "command"
      BY <2>3, FrameTypes DEF Frame
    <3>2. /\ Frame("close", m.win, "end", 0) \in Frames
          /\ Frame("close", m.win, "end", 0).then = "end"
      BY <2>3, FrameTypes DEF Frame
    <3> QED
      BY <2>4, <3>1, <3>2
  <2> QED
    BY <1>1, <2>1, <2>3, <2>5
<1>5. ASSUME NEW w \in Window, NEW s \in Sizes, SetSize(w, s)
      PROVE  Under' = Under \/ (Under = NoFrame /\ Under'.then = "end")
  <2>1. /\ msg = NoMsg /\ UNCHANGED msg
        /\ UNCHANGED stack \/ Push(Frame("resize", w, "end", 0))
    BY <1>5 DEF SetSize, Running, WmSize, Push, msgVars
  <2>2. CASE Push(Frame("resize", w, "end", 0))
    <3>1. Frame("resize", w, "end", 0).then = "end"
      BY DEF Frame
    <3> QED
      BY <1>0, <2>1, <2>2, <3>1, Nested DEF Under
  <2> QED
    BY <1>2, <2>1, <2>2
<1>6. ASSUME NEW w \in Window, WmPaint(w)
      PROVE  Under' = Under \/ (Under = NoFrame /\ Under'.then = "paint")
  <2>1. stack = <<>> /\ (UNCHANGED stack \/ Push(Frame("draw", w, "paint", 0)))
    BY <1>6 DEF WmPaint, Taking
  <2>2. PICK f \in Frames : f = Frame("draw", w, "paint", 0) /\ f.then = "paint"
    BY FrameTypes DEF Frame
  <2> QED
    BY <1>1, <1>2, <2>1, <2>2
<1>7. ASSUME NEW w \in Window,
             \/ \E s \in Sizes : CreateWindow(w, s)
             \/ \E on \in BOOLEAN : Show(w, on)
             \/ Refresh(w) \/ GetBuffer(w) \/ ApplyBuffer(w)
      PROVE  Under' = Under
  BY <1>2, <1>7 DEF CreateWindow, Show, Refresh, GetBuffer, ApplyBuffer
<1> QED
  BY <1>3, <1>4, <1>5, <1>6, <1>7 DEF PaintSteps

LEMMA UnderKeys ==
  ASSUME TypeInv, KeySteps \/ WmInput \/ WmButton
  PROVE  UNCHANGED stack \/ (Under = NoFrame /\ Under'.then = "end")
<1>1. ASSUME NEW f \in Frames, Push(f), stack = <<>>, f.then = "end"
      PROVE  Under = NoFrame /\ Under'.then = "end"
  BY <1>1 DEF Push, Under
<1>2. CASE HandleKey
  <2>1. /\ stack = <<>> /\ msg \in Message /\ msg.on \in {"keydown", "keyup"}
    BY <1>2 DEF HandleKey, TypeInv, StackInv, QueueTypes
  <2>2. PICK q : /\ q = IF msg.on = "keydown" THEN posted \o Chars(msg.arg) ELSE posted
                 /\ Push(Frame("key", msg.win, "end", Leading(q)))
    BY <1>2 DEF HandleKey
  <2>3. stack' = <<Frame("key", msg.win, "end", Leading(q))>>
    BY <2>1, <2>2 DEF Push
  <2>4. Under = NoFrame /\ Under' = Frame("key", msg.win, "end", Leading(q))
    BY <2>1, <2>3 DEF Under
  <2> QED
    BY <2>4 DEF Frame
<1>3. CASE TakeKey \/ Drop \/ Wakeup
  BY <1>3 DEF TakeKey, Drop, Wakeup
<1>4. CASE WmInput \/ WmButton
  <2>1. stack = <<>> /\ Head(input) \in Message /\ Head(input).on \in {"raw", "button"}
    BY <1>4, TakenInput DEF WmInput, WmButton
  <2>2. PICK v \in Window : v = Head(input).win
    BY <2>1, MessageFacts
  <2>3. \/ UNCHANGED stack
        \/ Push(Frame("move", v, "end", 0)) \/ Push(Frame("input", v, "end", 0))
    BY <1>4, <2>2 DEF WmInput, WmButton
  <2> QED
    BY <1>1, <2>1, <2>3, FrameTypes DEF Frame
<1> QED
  BY <1>2, <1>3, <1>4 DEF KeySteps

\* WM_MOUSEMOVE, and what it finds.
LEMMA MoveTaken ==
  ASSUME TypeInv, WmMouseMove
  PROVE  /\ UNCHANGED <<winVars, posted, fault, wanted>> /\ posted = <<>> /\ fault = "none"
         /\ input # <<>> /\ input' = Tail(input) /\ Head(input).on = "move"
         /\ stack = <<>> /\ Under = NoFrame
         /\ \E w \in Window :
              /\ Head(input).win = w /\ sys' = WithCursor(w)
              /\ \/ w \in locked /\ UNCHANGED <<stack, inside>> /\ Under' = NoFrame
                 \/ /\ w = over /\ UNCHANGED inside /\ Under' = Frame("move", w, "moved", 0)
                 \/ /\ w # over /\ inside' = inside \cup {w}
                    /\ Under' = Frame("enter", w, "entered", 0)
<1>1. OnInput("move") /\ UNCHANGED <<winVars, posted, fault, wanted>>
  BY DEF WmMouseMove
<1>2. /\ posted = <<>> /\ fault = "none" /\ input # <<>> /\ input' = Tail(input)
      /\ Head(input) \in Message /\ Head(input).on = "move"
      /\ stack = <<>> /\ Under = NoFrame
  BY <1>1, TakenInput
<1>3. PICK w \in Window : w = Head(input).win
  BY <1>2, MessageFacts
<1>4. ASSUME NEW f, Push(f) PROVE Under' = f
  BY <1>2, <1>4 DEF Push, Under
<1>5. UNCHANGED stack => Under' = NoFrame
  BY <1>2 DEF Under
<1>6. /\ sys' = WithCursor(w)
      /\ \/ w \in locked /\ UNCHANGED <<stack, inside>>
         \/ w = over /\ Push(Frame("move", w, "moved", 0)) /\ UNCHANGED inside
         \/ w # over /\ Push(Frame("enter", w, "entered", 0)) /\ inside' = inside \cup {w}
  BY <1>3 DEF WmMouseMove
<1> QED
  BY <1>1, <1>2, <1>3, <1>4, <1>5, <1>6

\* WM_MOUSELEAVE.
LEMMA LeaveTaken ==
  ASSUME TypeInv, WmMouseLeave
  PROVE  /\ UNCHANGED <<winVars, sys, input, fault, wanted>> /\ fault = "none"
         /\ posted # <<>> /\ posted' = Tail(posted) /\ Head(posted).on = "leave"
         /\ stack = <<>> /\ Under = NoFrame
         /\ \E w \in Window : /\ Head(posted).win = w /\ inside' = inside \ {w}
                              /\ Under' = Frame("leave", w, "left", 0)
<1>1. OnPosted("leave") /\ UNCHANGED <<winVars, sys, fault, wanted>>
  BY DEF WmMouseLeave
<1>2. /\ posted # <<>> /\ posted' = Tail(posted) /\ fault = "none" /\ UNCHANGED input
      /\ Head(posted) \in Message /\ Head(posted).on = "leave"
      /\ stack = <<>> /\ Under = NoFrame
  BY <1>1, TakenPosted
<1>3. PICK w \in Window : w = Head(posted).win
  BY <1>2, MessageFacts
<1>4. ASSUME NEW f, Push(f) PROVE Under' = f
  BY <1>2, <1>4 DEF Push, Under
<1>5. inside' = inside \ {w} /\ Push(Frame("leave", w, "left", 0))
  BY <1>3 DEF WmMouseLeave
<1> QED
  BY <1>1, <1>2, <1>3, <1>4, <1>5

-----------------------------------------------------------------------------
(* Painting *)

\* What keeps PaintKept.  A window has a size when it is visible, so WM_PAINT emits
\* the draw event.
PaintInv ==
  /\ \A w \in sys.visible : size[w] # 0
  /\ \A w \in Window : Live(w) => sys.size[w] # 0

\* Steps that neither draw, nor ask for it, nor resize.
LEMMA PaintSame ==
  ASSUME PaintInv, UNCHANGED <<status, size, wanted>>,
         sys'.visible = sys.visible, sys'.invalid = sys.invalid, sys'.size = sys.size
  PROVE  PaintInv' /\ Lost' \subseteq Lost
  BY DEF PaintInv, Lost, Live

\* A visible window that is resized becomes invalid.
LEMMA PaintSized ==
  ASSUME TypeInv, PaintInv, UNCHANGED status,
         NEW w \in Window, NEW s \in Nat \ {0}, NEW below, WmSize(w, s, below)
  PROVE  PaintInv' /\ Lost' \subseteq Lost
<1>1. sys.size \in [Window -> Nat] /\ size \in [Window -> Nat]
  BY DEF TypeInv, WindowTypes, System
<1>2. /\ sys'.visible = sys.visible
      /\ sys'.invalid = IF w \in sys.visible THEN sys.invalid \cup {w} ELSE sys.invalid
      /\ sys'.size = [sys.size EXCEPT ![w] = s] /\ size' = [size EXCEPT ![w] = s]
      /\ wanted' = IF w \in sys.visible THEN wanted \cup {w} ELSE wanted
  BY Sized
<1>3. sys.visible \subseteq Window
  BY DEF TypeInv, System
<1>4. \A v \in sys'.visible : size'[v] # 0
  BY <1>1, <1>2, <1>3 DEF PaintInv
<1>5. \A v \in Window : Live(v)' => sys'.size[v] # 0
  BY <1>1, <1>2 DEF PaintInv, Live
<1> QED
  BY <1>2, <1>4, <1>5 DEF PaintInv, Lost

LEMMA PaintSizes ==
  ASSUME TypeInv, LiveInv, PaintInv, PaintSteps
  PROVE  PaintInv' /\ Lost' \subseteq Lost
<1>0. /\ sys \in System /\ size \in [Window -> Nat]
      /\ status \in [Window -> {"unborn", "live", "freed"}] /\ wanted \subseteq Window
  BY DEF TypeInv, WindowTypes
<1>1. \A s \in Sizes : s \in Nat \ {0}
  BY WindowAssumption
<1>2. /\ \A w \in sys.visible : size[w] # 0 /\ Live(w) /\ w \in Window
      /\ \A w \in Window : Live(w) => sys.size[w] # 0
      /\ sys.invalid \subseteq sys.visible
  BY <1>0 DEF PaintInv, LiveInv, System
<1>3. CASE WmShow
  <2>1. Head(posted) \in Message /\ Head(posted).on = "show"
    BY <1>3, TakenPosted DEF WmShow
  <2>2. PICK v \in Window : v = Head(posted).win
    BY <2>1, MessageFacts
  <2>3. Live(v)
    <3>1. posted \in Seq(Message) /\ OfLive(posted) /\ posted # <<>>
      BY <1>3, TakenPosted DEF TypeInv, QueueTypes, LiveInv, WmShow
    <3> QED
      BY <2>2, <3>1, OfLiveFacts, WindowAssumption
  <2>4. UNCHANGED status
    BY <1>3 DEF WmShow
  <2>5. Head(posted).arg \in BOOLEAN
    BY <2>1, MessageFacts
  <2>6. CASE Head(posted).arg = TRUE
    <3>1. /\ sys' = [sys EXCEPT !.visible = @ \cup {v}, !.invalid = @ \cup {v}]
          /\ wanted' = wanted \cup {v}
          /\ size' = [size EXCEPT ![v] = sys.size[v]]
      BY <1>3, <2>2, <2>6 DEF WmShow
    <3>2. /\ sys'.visible = sys.visible \cup {v} /\ sys'.invalid = sys.invalid \cup {v}
          /\ sys'.size = sys.size
      BY <1>0, <3>1 DEF System
    <3>3. \A w \in sys'.visible : size'[w] # 0
      BY <1>0, <1>2, <2>3, <3>1, <3>2
    <3> QED
      BY <1>2, <2>4, <3>1, <3>2, <3>3 DEF PaintInv, Lost, Live
  <2>7. CASE Head(posted).arg = FALSE
    <3>1. /\ sys' = [sys EXCEPT !.visible = @ \ {v}, !.invalid = @ \ {v}]
          /\ UNCHANGED <<wanted, size>>
      BY <1>3, <2>2, <2>7 DEF WmShow
    <3>2. /\ sys'.visible = sys.visible \ {v} /\ sys'.invalid = sys.invalid \ {v}
          /\ sys'.size = sys.size
      BY <1>0, <3>1 DEF System
    <3> QED
      BY <1>0, <1>2, <2>2, <2>4, <3>1, <3>2 DEF PaintInv, Lost, Live
  <2> QED
    BY <2>5, <2>6, <2>7
<1>4. CASE WmSysCommand \/ WmClose
  BY <1>4, PaintSame DEF WmSysCommand, WmClose, winVars, appVars
<1>5. ASSUME NEW w \in Window, NEW s \in Sizes, CreateWindow(w, s)
      PROVE  PaintInv' /\ Lost' \subseteq Lost
  <2>1. /\ status' = [status EXCEPT ![w] = "live"] /\ sys' = [sys EXCEPT !.size[w] = s]
        /\ UNCHANGED <<size, wanted>>
    BY <1>5 DEF CreateWindow, appVars
  <2>2. /\ sys'.visible = sys.visible /\ sys'.invalid = sys.invalid
        /\ sys'.size = [sys.size EXCEPT ![w] = s] /\ sys.size \in [Window -> Nat]
    BY <1>0, <2>1 DEF System
  <2>3. \A v \in Window : Live(v)' => sys'.size[v] # 0
    BY <1>0, <1>1, <1>2, <2>1, <2>2 DEF Live
  <2> QED
    BY <2>1, <2>2, <2>3 DEF PaintInv, Lost
<1>6. ASSUME NEW w \in Window, NEW s \in Sizes, SetSize(w, s)
      PROVE  PaintInv' /\ Lost' \subseteq Lost
  <2>1. WmSize(w, s, stack) /\ UNCHANGED status
    BY <1>6 DEF SetSize
  <2>2. s \in Nat \ {0}
    BY <1>1
  <2> QED
    BY <2>1, <2>2, PaintSized
<1>7. ASSUME NEW w \in Window, Refresh(w) PROVE PaintInv' /\ Lost' \subseteq Lost
  <2>1. /\ sys' = [sys EXCEPT !.invalid = Redrawn(w)] /\ wanted' = wanted \cup {w}
        /\ UNCHANGED <<status, size>>
    BY <1>7 DEF Refresh, winVars
  <2>2. /\ sys'.visible = sys.visible /\ sys'.size = sys.size
        /\ sys'.invalid = IF w \in sys.visible THEN sys.invalid \cup {w} ELSE sys.invalid
    BY <1>0, <2>1 DEF System, Redrawn
  <2> QED
    BY <1>2, <2>1, <2>2 DEF PaintInv, Lost, Live
<1>8. ASSUME NEW w \in Window, WmPaint(w) PROVE PaintInv' /\ Lost' \subseteq Lost
  <2>1. w \in sys.invalid /\ size[w] # 0
    BY <1>2, <1>8 DEF WmPaint
  <2>2. wanted' = wanted \ {w} /\ UNCHANGED <<sys, status, size>>
    BY <1>8, <2>1 DEF WmPaint, winVars
  <2> QED
    BY <1>2, <2>2 DEF PaintInv, Lost, Live
<1>9. ASSUME NEW w \in Window,
             (\E on \in BOOLEAN : Show(w, on)) \/ GetBuffer(w) \/ ApplyBuffer(w)
      PROVE  PaintInv' /\ Lost' \subseteq Lost
  BY <1>9, PaintSame DEF Show, GetBuffer, ApplyBuffer, winVars, appVars
<1> QED
  BY <1>3, <1>4, <1>5, <1>6, <1>7, <1>8, <1>9 DEF PaintSteps

LEMMA PaintOthers ==
  ASSUME TypeInv, PaintInv, PointerSteps \/ KeySteps
  PROVE  PaintInv' /\ Lost' \subseteq Lost
<1>1. /\ UNCHANGED <<status, size, wanted>>
      /\ sys'.visible = sys.visible /\ sys'.invalid = sys.invalid /\ sys'.size = sys.size
  BY PointerLeaves, KeysLeave DEF winVars, appVars
<1> QED
  BY <1>1, PaintSame

\* The request of w that is lost when its draw callback returns.
Losing(w) ==
  /\ Callback = "draw" /\ Last(stack).win = w /\ w \in wanted
  /\ stack' = Front(stack)

LEMMA PaintReturn ==
  ASSUME TypeInv, LiveInv, PaintInv, Return
  PROVE  PaintInv' /\ \A w \in Lost' \ Lost : Losing(w)
<1>0. sys \in System
  BY DEF TypeInv
<1>1. UNCHANGED status /\ stack # <<>> /\ StackInv
  BY ReturnCases DEF TypeInv
<1>2. PICK f \in Frames : f = Last(stack)
  BY <1>1, Returned
<1>3. PICK rest : rest = Front(stack)
  OBVIOUS
<1>4. f.win \in Window /\ (f.then = "command" => f.arg \in Nat \ {0})
  BY WindowAssumption DEF Frames
<1>5. CASE UNCHANGED <<size, sys, wanted>>
  BY <1>1, <1>5, PaintSame
<1>6. CASE f.then = "paint"
  <2>1. stack' = rest /\ sys' = [sys EXCEPT !.invalid = @ \ {f.win}] /\ UNCHANGED <<size, wanted>>
    BY <1>2, <1>3, <1>6, ReturnKinds
  <2>2. /\ sys'.visible = sys.visible /\ sys'.size = sys.size
        /\ sys'.invalid = sys.invalid \ {f.win}
    BY <1>0, <2>1 DEF System
  <2>3. PaintInv'
    BY <1>1, <2>1, <2>2 DEF PaintInv, Live
  <2>4. f.fn = "draw"
    BY <1>6 DEF Frames
  <2>5. \A w \in Lost' \ Lost : w = f.win /\ w \in wanted
    BY <2>1, <2>2 DEF Lost
  <2> QED
    BY <1>1, <1>2, <1>3, <2>1, <2>3, <2>4, <2>5 DEF Losing, Callback
<1>7. CASE f.then = "command" /\ WmSize(f.win, f.arg, rest)
  BY <1>1, <1>4, <1>7, PaintSized
<1>8. CASE f.then = "entered" /\ Track(f.win, sys, posted) /\ UNCHANGED <<size, wanted>>
  <2>1. sys'.visible = sys.visible /\ sys'.invalid = sys.invalid /\ sys'.size = sys.size
    BY <1>4, <1>8, Tracked
  <2> QED
    BY <1>1, <1>8, <2>1, PaintSame
<1>9. f.then \in {"end", "command", "paint", "entered", "left", "moved"}
  BY DEF Frames
<1> QED
  BY <1>2, <1>3, <1>5, <1>6, <1>7, <1>8, <1>9, ReturnKinds

LEMMA PaintRest ==
  ASSUME TypeInv, LiveInv, PaintInv, RestSteps
  PROVE  PaintInv' /\ \A w \in Lost' \ Lost : Losing(w)
<1>0. sys \in System /\ size \in [Window -> Nat] /\ sys.size \in [Window -> Nat]
  BY DEF TypeInv, WindowTypes, System
<1>1. CASE Dispatch
  BY <1>1, PaintSame DEF Dispatch, winVars, appVars
<1>2. ASSUME NEW w \in Window, UserInput(w) \/ UserCommands(w)
      PROVE  PaintInv' /\ Lost' \subseteq Lost
  <2>1. UNCHANGED <<status, size, wanted, sys>>
    BY <1>2 DEF UserInput, Arrives, UserCommands, winVars, appVars
  <2> QED
    BY <2>1, PaintSame
<1>3. ASSUME NEW w \in Window, Uncover(w) PROVE PaintInv' /\ Lost' \subseteq Lost
  <2>1. /\ sys' = [sys EXCEPT !.invalid = @ \cup {w}] /\ wanted' = wanted \cup {w}
        /\ UNCHANGED <<status, size>>
    BY <1>3 DEF Uncover, winVars
  <2>2. /\ sys'.visible = sys.visible /\ sys'.size = sys.size
        /\ sys'.invalid = sys.invalid \cup {w}
    BY <1>0, <2>1 DEF System
  <2> QED
    BY <2>1, <2>2 DEF PaintInv, Lost, Live
<1>4. ASSUME NEW w \in Window, Destroy(w) PROVE PaintInv' /\ Lost' \subseteq Lost
  <2>1. /\ status' = [status EXCEPT ![w] = "freed"] /\ size' = [size EXCEPT ![w] = 0]
        /\ wanted' = wanted \ {w}
        /\ sys' = [sys EXCEPT !.visible = @ \ {w}, !.invalid = @ \ {w}, !.size[w] = 0,
                              !.pointer = IF @ = w THEN None ELSE @,
                              !.tracked = IF @ = w THEN None ELSE @]
    BY <1>4 DEF Destroy
  <2>2. /\ sys'.visible = sys.visible \ {w} /\ sys'.invalid = sys.invalid \ {w}
        /\ sys'.size = [sys.size EXCEPT ![w] = 0] /\ sys.visible \subseteq Window
    BY <1>0, <2>1 DEF System
  <2>3. \A v \in Window : Live(v)' => Live(v) /\ v # w
    BY <2>1 DEF Live, TypeInv, WindowTypes
  <2>4. \A v \in sys'.visible : size'[v] # 0
    BY <1>0, <2>1, <2>2 DEF PaintInv
  <2>5. \A v \in Window : Live(v)' => sys'.size[v] # 0
    BY <1>0, <2>2, <2>3 DEF PaintInv
  <2>6. Lost' \subseteq Lost
    BY <2>1, <2>2 DEF Lost
  <2> QED
    BY <2>4, <2>5, <2>6 DEF PaintInv
<1> QED
  BY <1>1, <1>2, <1>3, <1>4, PaintReturn DEF RestSteps

\* A request for a draw event is lost in one way only: it is made while the window's
\* own draw callback runs, by the program or by the system, and what WM_PAINT does
\* after the callback takes it back.  Any other finds the window invalid when WM_PAINT
\* comes, or when the window is shown (win_refresh, and win_proc's WM_SIZE and WM_PAINT).
THEOREM PaintsKept == Spec => PaintKept
<1>1. Init => PaintInv
  BY DEF Init, PaintInv, Live
<1>2. TypeInv /\ LiveInv /\ PaintInv /\ [Next]_vars =>
        PaintInv' /\ \A w \in Lost' \ Lost : Losing(w)
  <2>1. TypeInv /\ PaintInv /\ UNCHANGED vars => PaintInv' /\ Lost' \subseteq Lost
    BY PaintSame DEF vars, winVars, appVars
  <2> QED
    BY <2>1, Steps, PaintSizes, PaintOthers, PaintRest
<1>3. TypeInv /\ LiveInv /\ PaintInv /\ [Next]_vars =>
        [\A w \in Lost' \ Lost :
           /\ Callback = "draw" /\ Last(stack).win = w /\ w \in wanted
           /\ stack' = Front(stack)]_vars
  BY <1>2 DEF Losing
<1> QED
  BY <1>1, <1>2, <1>3, LiveHolds, PTL DEF Spec, PaintKept

-----------------------------------------------------------------------------
(* The leave messages *)

NoLeave(q) == \A i \in DOMAIN q : q[i].on # "leave"

\* q holds one leave message, for w.
OneLeave(q, w) ==
  /\ \E i \in DOMAIN q : q[i].on = "leave"
  /\ \A i \in DOMAIN q : q[i].on = "leave" => q[i].win = w
  /\ \A i, j \in DOMAIN q : q[i].on = "leave" /\ q[j].on = "leave" => i = j

SameLeaves(q, r) ==
  /\ NoLeave(q) => NoLeave(r)
  /\ \A w \in Pointed : OneLeave(q, w) => OneLeave(r, w)

\* The leave messages of r are those of q when they are at different places of q, at,
\* and none of q is lost.
LEMMA LeavesKept ==
  ASSUME NEW q, NEW r, NEW at,
         \A j \in DOMAIN r : r[j].on = "leave" => at[j] \in DOMAIN q /\ q[at[j]] = r[j],
         \A i, j \in DOMAIN r :
           r[i].on = "leave" /\ r[j].on = "leave" /\ at[i] = at[j] => i = j,
         \A i \in DOMAIN q : q[i].on = "leave" => \E j \in DOMAIN r : r[j] = q[i]
  PROVE  SameLeaves(q, r)
<1>1. NoLeave(q) => NoLeave(r)
  BY DEF NoLeave
<1>2. ASSUME NEW w \in Pointed, OneLeave(q, w) PROVE OneLeave(r, w)
  <2>1. \E j \in DOMAIN r : r[j].on = "leave"
    BY <1>2 DEF OneLeave
  <2>2. \A j \in DOMAIN r : r[j].on = "leave" => r[j].win = w
    BY <1>2 DEF OneLeave
  <2>3. ASSUME NEW i \in DOMAIN r, NEW j \in DOMAIN r, r[i].on = "leave", r[j].on = "leave"
        PROVE  i = j
    <3>1. at[i] \in DOMAIN q /\ at[j] \in DOMAIN q /\ q[at[i]] = r[i] /\ q[at[j]] = r[j]
      BY <2>3
    <3>2. at[i] = at[j]
      BY <1>2, <2>3, <3>1 DEF OneLeave
    <3> QED
      BY <2>3, <3>2
  <2> QED
    BY <2>1, <2>2, <2>3 DEF OneLeave
<1> QED
  BY <1>1, <1>2 DEF SameLeaves

LEMMA LeaveTail ==
  ASSUME NEW q \in Seq(Message), q # <<>>
  PROVE  /\ Head(q).on # "leave" => SameLeaves(q, Tail(q))
         /\ NoLeave(q) => NoLeave(Tail(q)) /\ Head(q).on # "leave"
         /\ \A w : OneLeave(q, w) /\ Head(q).on = "leave" =>
              NoLeave(Tail(q)) /\ Head(q).win = w
<1>1. PICK r \in Seq(Message) : r = Tail(q)
  BY HeadAndTail
<1>2. /\ 1 \in DOMAIN q /\ Head(q) = q[1]
      /\ \A i \in DOMAIN r : i \in Nat /\ i + 1 \in DOMAIN q /\ i + 1 # 1 /\ r[i] = q[i + 1]
      /\ \A i \in DOMAIN q : i # 1 => \E j \in DOMAIN r : r[j] = q[i]
  BY <1>1, HeadAndTail
<1>3. ASSUME Head(q).on # "leave" PROVE SameLeaves(q, r)
  <2> DEFINE at == [j \in DOMAIN r |-> j + 1]
  <2>1. \A j \in DOMAIN r : at[j] \in DOMAIN q /\ q[at[j]] = r[j]
    BY <1>2
  <2>2. \A i, j \in DOMAIN r : at[i] = at[j] => i = j
    BY <1>2
  <2>3. \A i \in DOMAIN q : q[i].on = "leave" => \E j \in DOMAIN r : r[j] = q[i]
    BY <1>2, <1>3
  <2> HIDE DEF at
  <2> QED
    BY <2>1, <2>2, <2>3, LeavesKept
<1>4. NoLeave(q) => NoLeave(r) /\ Head(q).on # "leave"
  BY <1>2 DEF NoLeave
<1>5. ASSUME NEW w, OneLeave(q, w), Head(q).on = "leave" PROVE NoLeave(r) /\ Head(q).win = w
  BY <1>2, <1>5 DEF NoLeave, OneLeave
<1> QED
  BY <1>1, <1>3, <1>4, <1>5

LEMMA LeaveAppended ==
  ASSUME NEW q \in Seq(Message), NEW m \in Message
  PROVE  /\ m.on # "leave" => SameLeaves(q, Append(q, m))
         /\ m.on = "leave" /\ NoLeave(q) => OneLeave(Append(q, m), m.win)
<1>1. PICK r : r = Append(q, m)
  OBVIOUS
<1>2. PICK n : n \notin DOMAIN q /\ DOMAIN r = DOMAIN q \cup {n} /\ r[n] = m
  BY <1>1, Queued
<1>3. \A i \in DOMAIN q : r[i] = q[i]
  BY <1>1, Queued
<1>4. ASSUME m.on # "leave" PROVE SameLeaves(q, r)
  BY <1>2, <1>3, <1>4 DEF SameLeaves, NoLeave, OneLeave
<1>5. ASSUME m.on = "leave", NoLeave(q) PROVE OneLeave(r, m.win)
  BY <1>2, <1>3, <1>5 DEF NoLeave, OneLeave
<1> QED
  BY <1>1, <1>4, <1>5

LEMMA LeaveOthers ==
  ASSUME NEW q \in Seq(Message), NEW v
  PROVE  /\ NoLeave(q) => NoLeave(OfOthers(q, v))
         /\ OneLeave(q, v) => NoLeave(OfOthers(q, v))
         /\ \A w \in Pointed : w # v /\ OneLeave(q, w) => OneLeave(OfOthers(q, v), w)
<1>1. PICK r : r = OfOthers(q, v)
  OBVIOUS
<1>2. PICK place \in [DOMAIN r -> DOMAIN q] :
        /\ \A j \in DOMAIN r : r[j] = q[place[j]] /\ q[place[j]].win # v
        /\ \A i, j \in DOMAIN r : place[i] = place[j] => i = j
        /\ \A i \in DOMAIN q : q[i].win # v => \E j \in DOMAIN r : place[j] = i
  BY <1>1, OthersFacts
<1>3. NoLeave(q) => NoLeave(r)
  BY <1>2 DEF NoLeave
<1>4. OneLeave(q, v) => NoLeave(r)
  BY <1>2 DEF NoLeave, OneLeave
<1>5. ASSUME NEW w \in Pointed, w # v, OneLeave(q, w) PROVE OneLeave(r, w)
  <2>1. \A i \in DOMAIN q : q[i].on = "leave" => \E j \in DOMAIN r : r[j] = q[i]
    BY <1>2, <1>5 DEF OneLeave
  <2>2. SameLeaves(q, r)
    BY <1>2, <2>1, LeavesKept
  <2> QED
    BY <1>5, <2>2 DEF SameLeaves
<1> QED
  BY <1>1, <1>3, <1>4, <1>5

\* Translating a key adds and takes characters.
LEMMA LeaveKeys ==
  ASSUME TypeInv, HandleKey
  PROVE  SameLeaves(posted, posted')
<1>1. PICK q : /\ q = IF msg.on = "keydown" THEN posted \o Chars(msg.arg) ELSE posted
               /\ posted' = SubSeq(q, Leading(q) + 1, Len(q))
  BY DEF HandleKey
<1>2. posted \in Seq(Message) /\ msg \in Message
  BY DEF HandleKey, TypeInv, QueueTypes
<1>3. /\ q \in Seq(Message) /\ Len(posted) <= Len(q)
      /\ \A i \in 1 .. Len(q) :
           IF i <= Len(posted) THEN q[i] = posted[i] ELSE q[i].on = "char"
  <2>1. CASE msg.on = "keydown"
    <3>1. msg.arg \in Text
      BY <1>2, <2>1, MessageFacts
    <3>2. PICK n \in Nat : n = msg.arg
      <4>1. \A k \in Text : k \in Nat
        BY TextAssumption
      <4> QED
        BY <3>1, <4>1
    <3>3. PICK c \in Seq(Message) :
            c = Chars(n) /\ Len(c) = n /\ \A i \in 1 .. n : c[i].on = "char"
      BY Characters
    <3>4. q = posted \o c
      BY <1>1, <2>1, <3>2, <3>3
    <3> QED
      BY <1>2, <3>3, <3>4
  <2>2. CASE msg.on # "keydown"
    BY <1>1, <1>2, <2>2
  <2> QED
    BY <2>1, <2>2
<1>4. PICK n \in 0 .. Len(q) : n = Leading(q) /\ \A i \in 1 .. n : q[i].on = "char"
  BY <1>3, LeadingCounts
<1>5. PICK r : r = posted'
  OBVIOUS
<1>6. /\ Len(q) \in Nat /\ Len(posted) \in Nat
      /\ DOMAIN posted = 1 .. Len(posted) /\ DOMAIN r = 1 .. Len(q) - n
      /\ \A i \in 1 .. Len(q) - n : r[i] = q[i + n]
  <2>1. /\ Len(q) \in Nat /\ Len(posted) \in Nat /\ DOMAIN posted = 1 .. Len(posted)
        /\ r = SubSeq(q, n + 1, Len(q))
    BY <1>1, <1>2, <1>3, <1>4, <1>5
  <2>2. r = [i \in 1 .. Len(q) - n |-> q[i + n]]
    BY <1>3, <2>1
  <2> QED
    BY <2>1, <2>2
<1> DEFINE at == [j \in DOMAIN r |-> j + n]
<1>7. ASSUME NEW j \in DOMAIN r, r[j].on = "leave"
      PROVE  at[j] \in DOMAIN posted /\ posted[at[j]] = r[j]
  <2>1. j + n \in 1 .. Len(q) /\ r[j] = q[j + n] /\ at[j] = j + n
    BY <1>6
  <2>2. j + n <= Len(posted)
    BY <1>3, <1>7, <2>1
  <2> QED
    BY <1>3, <1>6, <2>1, <2>2
<1>8. \A i, j \in DOMAIN r : at[i] = at[j] => i = j
  BY <1>6
<1>9. ASSUME NEW i \in DOMAIN posted, posted[i].on = "leave"
      PROVE  \E j \in DOMAIN r : r[j] = posted[i]
  <2>1. i \in 1 .. Len(q) /\ q[i] = posted[i]
    BY <1>3, <1>6
  <2>2. ~ (i <= n)
    BY <1>4, <1>9, <2>1
  <2>3. i - n \in 1 .. Len(q) - n /\ (i - n) + n = i
    BY <1>6, <2>1, <2>2
  <2> QED
    BY <1>6, <2>1, <2>3
<1> HIDE DEF at
<1> QED
  BY <1>5, <1>7, <1>8, <1>9, LeavesKept

-----------------------------------------------------------------------------
(* The window under the pointer *)

\* What keeps MouseAgrees.  While win_proc runs the enter and leave callbacks,
\* mouse_over is not what the listener was told yet.  The system tracks mouse_over, or
\* its leave message is posted, so no other window is entered before it is left; moves
\* are for the window the pointer is at.
MouseInv ==
  /\ \A w \in Window : w \in inside <=>
       /\ Live(w)
       /\ w = over \/ (Under.then = "entered" /\ w = Under.win)
       /\ ~ (Under.then = "left" /\ w = Under.win)
  /\ \A w \in inside : cursor[w] # "unset" => sys.shown = cursor[w]
  /\ \/ NoLeave(posted)
     \/ OneLeave(posted, over) /\ sys.tracked = None /\ Under.then # "left"
  /\ sys.tracked # None =>
       sys.tracked = over /\ sys.tracked = sys.pointer /\ Under.then # "left"
  /\ Live(over) => sys.tracked = over \/ Under.then = "left" \/ OneLeave(posted, over)
  /\ Under.then = "entered" => ~ Live(over)
  /\ Under.then = "left" => Under.win = over
  /\ \A i \in DOMAIN input : input[i].on = "move" => input[i].win = sys.pointer
  /\ over # None => status[over] # "unborn"

\* The moves of r are moves of q.
SameMoves(q, r) ==
  \A i \in DOMAIN r : r[i].on = "move" => \E j \in DOMAIN q : r[i] = q[j]

LEMMA MovesKept ==
  ASSUME NEW q \in Seq(Message)
  PROVE  /\ SameMoves(q, q)
         /\ q # <<>> => SameMoves(q, Tail(q))
         /\ \A m \in Message : m.on # "move" => SameMoves(q, Append(q, m))
<1>1. q # <<>> => SameMoves(q, Tail(q))
  BY HeadAndTail DEF SameMoves
<1>2. ASSUME NEW m \in Message, m.on # "move" PROVE SameMoves(q, Append(q, m))
  <2>1. PICK r : r = Append(q, m)
    OBVIOUS
  <2>2. PICK n : DOMAIN r = DOMAIN q \cup {n} /\ r[n] = m
    BY <2>1, Queued
  <2>3. \A i \in DOMAIN q : r[i] = q[i]
    BY <2>1, Queued
  <2> QED
    BY <1>2, <2>1, <2>2, <2>3 DEF SameMoves
<1> QED
  BY <1>1, <1>2 DEF SameMoves

\* Steps that are not about the pointer.
LEMMA MouseSame ==
  ASSUME TypeInv, MouseInv, UNCHANGED <<status, cursor, over, inside>>,
         sys'.pointer = sys.pointer, sys'.tracked = sys.tracked, sys'.shown = sys.shown,
         SameLeaves(posted, posted'), SameMoves(input, input'),
         \/ Under' = Under
         \/ Under.then \notin {"entered", "left"} /\ Under'.then \notin {"entered", "left"}
  PROVE  MouseInv'
<1>1. /\ NoLeave(posted) => NoLeave(posted')
      /\ OneLeave(posted, over) => OneLeave(posted', over)
  BY DEF SameLeaves, TypeInv, WindowTypes
<1>2. PICK p : p = posted'
  OBVIOUS
<1>3. PICK n : n = input'
  OBVIOUS
<1>4. \A i \in DOMAIN n : n[i].on = "move" => n[i].win = sys.pointer
  BY <1>3 DEF SameMoves, MouseInv
<1>5. PICK f : f = Under'
  OBVIOUS
<1>6. /\ f.then = "entered" <=> Under.then = "entered"
      /\ f.then = "left" <=> Under.then = "left"
      /\ Under.then \in {"entered", "left"} => f = Under
  BY <1>5
<1>7. /\ \A w \in Window : w \in inside <=>
           /\ Live(w)
           /\ w = over \/ (f.then = "entered" /\ w = f.win)
           /\ ~ (f.then = "left" /\ w = f.win)
      /\ f.then = "entered" => ~ Live(over)
      /\ f.then = "left" => f.win = over
  BY <1>6 DEF MouseInv
<1>8. /\ NoLeave(p) \/ (OneLeave(p, over) /\ sys.tracked = None /\ f.then # "left")
      /\ sys.tracked # None =>
           sys.tracked = over /\ sys.tracked = sys.pointer /\ f.then # "left"
      /\ Live(over) => sys.tracked = over \/ f.then = "left" \/ OneLeave(p, over)
  BY <1>1, <1>2, <1>6 DEF MouseInv
<1> QED
  BY <1>2, <1>3, <1>4, <1>5, <1>7, <1>8 DEF MouseInv, Live, NoLeave, OneLeave

LEMMA SameRefl == \A q : SameLeaves(q, q)
  BY DEF SameLeaves

\* A window is created: it is not mouse_over yet.
LEMMA MouseCreate ==
  ASSUME TypeInv, MouseInv, NEW w \in Window, NEW s \in Sizes, CreateWindow(w, s)
  PROVE  MouseInv'
<1>1. /\ UNCHANGED <<cursor, over, inside, input, stack>> /\ stack = <<>>
      /\ status[w] = "unborn" /\ status' = [status EXCEPT ![w] = "live"]
      /\ posted' = Append(posted, Msg("show", w, TRUE))
  BY DEF CreateWindow, appVars
<1>2. sys'.pointer = sys.pointer /\ sys'.tracked = sys.tracked /\ sys'.shown = sys.shown
  BY PaintLeaves DEF PaintSteps
<1>3. SameLeaves(posted, posted')
  <2>1. Msg("show", w, TRUE) \in Message /\ Msg("show", w, TRUE).on # "leave"
    BY MessageTypes DEF Msg
  <2> QED
    BY <1>1, <2>1, LeaveAppended DEF TypeInv, QueueTypes
<1>4. /\ NoLeave(posted) => NoLeave(posted')
      /\ OneLeave(posted, over) => OneLeave(posted', over)
  BY <1>3 DEF SameLeaves, TypeInv, WindowTypes
<1>5. PICK p : p = posted'
  OBVIOUS
<1>6. Under.then = "none" /\ Under' = Under
  BY <1>1 DEF Under, NoFrame, Frame
<1>7. /\ status \in [Window -> {"unborn", "live", "freed"}] /\ over # w
      /\ over \in Window => status'[over] = status[over]
  BY <1>1, WindowAssumption DEF MouseInv, TypeInv, WindowTypes
<1>8. (Live(over)' <=> Live(over)) /\ w \notin inside
  BY <1>1, <1>7 DEF Live, MouseInv, TypeInv, WindowTypes, Pointed
<1>9. \A v \in Window : v \in inside' <=> Live(v)' /\ v = over
  BY <1>1, <1>6, <1>7, <1>8 DEF Live, MouseInv
<1>10. NoLeave(p) \/ (OneLeave(p, over) /\ sys.tracked = None)
  BY <1>4, <1>5 DEF MouseInv
<1>11. Live(over) => sys.tracked = over \/ OneLeave(p, over)
  BY <1>4, <1>5, <1>6 DEF MouseInv
<1>12. over # None => status'[over] # "unborn"
  BY <1>7 DEF MouseInv, TypeInv, WindowTypes, Pointed
<1> QED
  BY <1>1, <1>2, <1>5, <1>6, <1>8, <1>9, <1>10, <1>11, <1>12 DEF MouseInv, NoLeave, OneLeave

LEMMA MousePaint ==
  ASSUME TypeInv, MouseInv, PaintSteps
  PROVE  MouseInv'
<1>1. /\ UNCHANGED <<cursor, over, input, inside>> /\ posted \in Seq(Message)
      /\ sys'.pointer = sys.pointer /\ sys'.tracked = sys.tracked /\ sys'.shown = sys.shown
  BY PaintLeaves DEF TypeInv, QueueTypes
<1>2. \/ Under' = Under
      \/ Under.then \notin {"entered", "left"} /\ Under'.then \notin {"entered", "left"}
  BY UnderSizes DEF NoFrame, Frame
<1>3. SameMoves(input, input')
  BY <1>1 DEF SameMoves
<1>4. ASSUME UNCHANGED status, SameLeaves(posted, posted') PROVE MouseInv'
  BY <1>1, <1>2, <1>3, <1>4, MouseSame
<1>5. CASE WmShow \/ WmSysCommand \/ WmClose
  <2>1. /\ UNCHANGED status /\ posted # <<>> /\ posted' = Tail(posted)
        /\ Head(posted).on \in {"show", "command", "close"}
    BY <1>5, TakenPosted DEF WmShow, WmSysCommand, WmClose, winVars
  <2> QED
    BY <1>1, <1>4, <2>1, LeaveTail
<1>6. ASSUME NEW w \in Window, NEW on \in BOOLEAN, Show(w, on) PROVE MouseInv'
  <2>1. UNCHANGED status /\ posted' = Append(posted, Msg("show", w, on))
    BY <1>6 DEF Show, winVars
  <2>2. Msg("show", w, on) \in Message /\ Msg("show", w, on).on # "leave"
    BY MessageTypes DEF Msg
  <2> QED
    BY <1>1, <1>4, <2>1, <2>2, LeaveAppended
<1>7. ASSUME NEW w \in Window,
             \/ \E s \in Sizes : SetSize(w, s)
             \/ Refresh(w) \/ WmPaint(w) \/ GetBuffer(w) \/ ApplyBuffer(w)
      PROVE  MouseInv'
  <2>1. UNCHANGED <<status, posted>>
    BY <1>7 DEF SetSize, Refresh, WmPaint, GetBuffer, ApplyBuffer, winVars, msgVars
  <2> QED
    BY <1>4, <2>1, SameRefl
<1> QED
  BY <1>5, <1>6, <1>7, MouseCreate DEF PaintSteps

LEMMA MouseKeys ==
  ASSUME TypeInv, MouseInv, KeySteps
  PROVE  MouseInv'
<1>1. /\ UNCHANGED <<status, cursor, over, inside, sys>>
      /\ posted \in Seq(Message) /\ input \in Seq(Message)
  BY KeysLeave DEF winVars, appVars, TypeInv, QueueTypes
<1>2. \/ Under' = Under
      \/ Under.then \notin {"entered", "left"} /\ Under'.then \notin {"entered", "left"}
  BY UnderKeys DEF NoFrame, Frame, Under
<1>3. SameLeaves(posted, posted') /\ SameMoves(input, input')
  <2>1. CASE TakeKey
    BY <1>1, <2>1, SameRefl, MovesKept DEF TakeKey
  <2>2. CASE HandleKey
    BY <1>1, <2>2, LeaveKeys, MovesKept DEF HandleKey
  <2>3. CASE Drop
    <3>1. /\ posted # <<>> /\ posted' = Tail(posted) /\ Head(posted).on \in {"char", "user"}
          /\ UNCHANGED input
      BY <2>3, TakenPosted DEF Drop
    <3> QED
      BY <1>1, <3>1, LeaveTail, MovesKept
  <2>4. CASE Wakeup
    <3>1. posted' = Append(posted, Msg("user", None, 0)) /\ UNCHANGED input
      BY <2>4 DEF Wakeup
    <3>2. Msg("user", None, 0) \in Message /\ Msg("user", None, 0).on # "leave"
      BY MessageTypes DEF Msg
    <3> QED
      BY <1>1, <3>1, <3>2, LeaveAppended, MovesKept
  <2> QED
    BY <2>1, <2>2, <2>3, <2>4 DEF KeySteps
<1> QED
  BY <1>1, <1>2, <1>3, MouseSame

\* The pointer is at w now; t is the system PointerAt is given.
LEMMA MousePointed ==
  ASSUME TypeInv, MouseInv, NEW w \in Pointed, NEW t \in System, PointerAt(w, t),
         t.pointer = sys.pointer, t.tracked = sys.tracked, t.shown = sys.shown,
         UNCHANGED <<status, cursor, over, inside, stack>>
  PROVE  MouseInv'
<1>1. /\ sys'.pointer = w /\ sys'.shown = sys.shown
      /\ \/ /\ sys.tracked \in {None, w} /\ sys'.tracked = sys.tracked /\ posted' = posted
         \/ /\ sys.tracked \in Window /\ sys.tracked # w /\ sys'.tracked = None
            /\ posted' = Append(posted, Msg("leave", sys.tracked, 0))
  BY PointerMoved
<1>2. Under' = Under
  BY DEF Under
<1>3. \A i \in DOMAIN input' : input'[i].on = "move" => input'[i].win = w
  <2>1. \A i \in DOMAIN input' :
          \/ input'[i] = Msg("move", w, 0)
          \/ \E j \in DOMAIN input : input'[i] = input[j] /\ input[j].on # "move"
    BY PointerMoved
  <2>2. Msg("move", w, 0).win = w
    BY DEF Msg
  <2> QED
    BY <2>1, <2>2
<1>4. PICK p : p = posted'
  OBVIOUS
<1>5. /\ NoLeave(p) \/ (OneLeave(p, over) /\ sys'.tracked = None /\ Under.then # "left")
      /\ sys'.tracked # None => sys'.tracked = over /\ sys'.tracked = w /\ Under.then # "left"
      /\ Live(over) => sys'.tracked = over \/ Under.then = "left" \/ OneLeave(p, over)
  <2>1. CASE sys.tracked \in {None, w} /\ sys'.tracked = sys.tracked /\ posted' = posted
    BY <1>4, <2>1 DEF MouseInv
  <2>2. CASE /\ sys.tracked \in Window /\ sys'.tracked = None
             /\ posted' = Append(posted, Msg("leave", sys.tracked, 0))
    <3>1. sys.tracked # None /\ sys.tracked = over /\ Under.then # "left"
      BY <2>2, WindowAssumption DEF MouseInv
    <3>2. NoLeave(posted) /\ posted \in Seq(Message)
      BY <3>1 DEF MouseInv, TypeInv, QueueTypes
    <3>3. PICK m \in Message : m = Msg("leave", over, 0) /\ m.on = "leave" /\ m.win = over
      BY <2>2, <3>1, MessageTypes DEF Msg
    <3>4. OneLeave(p, over)
      BY <1>4, <2>2, <3>1, <3>2, <3>3, LeaveAppended
    <3> QED
      BY <2>2, <3>1, <3>4
  <2> QED
    BY <1>1, <2>1, <2>2
<1>6. /\ \A v \in Window : v \in inside' <=>
           /\ Live(v)
           /\ v = over \/ (Under.then = "entered" /\ v = Under.win)
           /\ ~ (Under.then = "left" /\ v = Under.win)
      /\ \A v \in inside' : cursor'[v] # "unset" => sys'.shown = cursor'[v]
      /\ Under.then = "entered" => ~ Live(over)
      /\ Under.then = "left" => Under.win = over
      /\ over # None => status[over] # "unborn"
  BY <1>1 DEF MouseInv
<1> QED
  BY <1>1, <1>2, <1>3, <1>4, <1>5, <1>6 DEF MouseInv, Live, NoLeave, OneLeave

\* WM_MOUSEMOVE and WM_MOUSELEAVE.
LEMMA MouseMoves ==
  ASSUME TypeInv, LiveInv, MouseInv, WmMouseMove
  PROVE  MouseInv'
<1>1. /\ UNCHANGED <<status, cursor, locked, over, posted>> /\ posted = <<>>
      /\ input # <<>> /\ input' = Tail(input) /\ Head(input).on = "move"
      /\ Under = NoFrame /\ Under.then = "none"
  BY MoveTaken DEF winVars, NoFrame, Frame
<1>2. PICK w \in Window :
        /\ Head(input).win = w /\ sys' = WithCursor(w)
        /\ \/ UNCHANGED inside /\ Under' = NoFrame
           \/ w = over /\ UNCHANGED inside /\ Under' = Frame("move", w, "moved", 0)
           \/ w # over /\ inside' = inside \cup {w} /\ Under' = Frame("enter", w, "entered", 0)
  BY MoveTaken
<1>3. input \in Seq(Message) /\ sys \in System /\ posted \in Seq(Message)
  BY DEF TypeInv, QueueTypes
<1>4. 1 \in DOMAIN input /\ Head(input) = input[1]
  BY <1>1, <1>3, HeadAndTail
<1>5. sys.pointer = w /\ Live(w)
  <2>1. w = sys.pointer
    BY <1>1, <1>2, <1>4 DEF MouseInv
  <2> QED
    BY <2>1, WindowAssumption DEF LiveInv
<1>6. NoLeave(posted) /\ (Live(over) => sys.tracked = over /\ over = w)
  <2>1. NoLeave(posted)
    BY <1>1 DEF NoLeave
  <2>2. ~ OneLeave(posted, over)
    BY <1>1 DEF OneLeave
  <2>3. Live(over) => sys.tracked = over /\ over # None
    BY <1>1, <2>2 DEF MouseInv, Live
  <2>4. Live(over) => over = w
    BY <1>5, <2>3 DEF MouseInv
  <2> QED
    BY <2>1, <2>3, <2>4
<1>7. /\ sys'.pointer = sys.pointer /\ sys'.tracked = sys.tracked
      /\ cursor[w] # "unset" => sys'.shown = cursor[w]
  BY <1>2, <1>3 DEF WithCursor, System
<1>8. \A v \in Window : v \in inside <=> Live(v) /\ v = over
  BY <1>1 DEF MouseInv
<1>9. inside \subseteq {w} /\ inside \subseteq Window
  BY <1>6, <1>8 DEF TypeInv, WindowTypes
<1>10. inside' \subseteq {w}
  BY <1>2, <1>9
<1>11. PICK n : n = input' /\ \A i \in DOMAIN n : n[i].on = "move" => n[i].win = sys.pointer
  <2>1. PICK n : n = input'
    OBVIOUS
  <2>2. SameMoves(input, n)
    BY <1>1, <1>3, <2>1, MovesKept
  <2>3. \A i \in DOMAIN n : n[i].on = "move" => n[i].win = sys.pointer
    BY <2>2 DEF SameMoves, MouseInv
  <2> QED
    BY <2>1, <2>3
<1>12. /\ NoFrame.then = "none" /\ Frame("move", w, "moved", 0).then = "moved"
       /\ Frame("enter", w, "entered", 0).then = "entered"
       /\ Frame("enter", w, "entered", 0).win = w
  BY DEF NoFrame, Frame
<1>13. PICK f : f = Under'
  OBVIOUS
<1>14. /\ \A v \in Window : v \in inside' <=>
            /\ Live(v)
            /\ v = over \/ (f.then = "entered" /\ v = f.win)
            /\ ~ (f.then = "left" /\ v = f.win)
       /\ f.then = "entered" => ~ Live(over)
       /\ f.then # "left"
  <2>1. CASE UNCHANGED inside /\ f.then \in {"none", "moved"}
    BY <1>8, <2>1
  <2>2. CASE w # over /\ inside' = inside \cup {w} /\ f.then = "entered" /\ f.win = w
    BY <1>5, <1>6, <1>8, <2>2
  <2> QED
    BY <1>2, <1>12, <1>13, <2>1, <2>2
<1>15. /\ sys.tracked # None => sys.tracked = over /\ sys.tracked = sys.pointer
       /\ over # None => status[over] # "unborn"
  BY DEF MouseInv
<1>16. \A v \in inside' : cursor'[v] # "unset" => sys'.shown = cursor'[v]
  BY <1>1, <1>7, <1>10
<1> QED
  BY <1>1, <1>6, <1>7, <1>11, <1>13, <1>14, <1>15, <1>16 DEF MouseInv, Live, NoLeave

LEMMA MouseLeaves ==
  ASSUME TypeInv, MouseInv, WmMouseLeave
  PROVE  MouseInv'
<1>1. /\ UNCHANGED <<status, cursor, over, sys, input>> /\ posted # <<>>
      /\ posted' = Tail(posted) /\ Head(posted).on = "leave" /\ Under.then = "none"
      /\ posted \in Seq(Message)
  BY LeaveTaken DEF winVars, NoFrame, Frame, TypeInv, QueueTypes
<1>2. PICK w \in Window : /\ Head(posted).win = w /\ inside' = inside \ {w}
                          /\ Under' = Frame("leave", w, "left", 0)
  BY LeaveTaken
<1>3. OneLeave(posted, over) /\ sys.tracked = None
  <2>1. ~ NoLeave(posted)
    BY <1>1, LeaveTail
  <2> QED
    BY <2>1 DEF MouseInv
<1>4. PICK p : p = posted' /\ NoLeave(p) /\ w = over
  BY <1>1, <1>2, <1>3, LeaveTail
<1>5. PICK f : f = Under' /\ f.then = "left" /\ f.win = w
  BY <1>2 DEF Frame
<1>6. /\ \A v \in Window : v \in inside <=> Live(v) /\ v = over
      /\ \A v \in inside : cursor[v] # "unset" => sys.shown = cursor[v]
      /\ \A i \in DOMAIN input : input[i].on = "move" => input[i].win = sys.pointer
      /\ over # None => status[over] # "unborn"
  BY <1>1 DEF MouseInv
<1>7. \A v \in Window : v \notin inside'
  BY <1>2, <1>4, <1>6
<1> QED
  BY <1>1, <1>2, <1>3, <1>4, <1>5, <1>6, <1>7 DEF MouseInv, Live, NoLeave

LEMMA MouseSteps ==
  ASSUME TypeInv, LiveInv, MouseInv, "enter" \notin CursorIn, PointerSteps
  PROVE  MouseInv'
<1>0. sys \in System /\ posted \in Seq(Message) /\ input \in Seq(Message) /\ StackInv
  BY DEF TypeInv, QueueTypes
<1>1. CASE WmInput \/ WmButton
  <2>1. /\ UNCHANGED <<status, cursor, over, inside, posted, sys>>
        /\ input # <<>> /\ input' = Tail(input)
    BY <1>1, TakenInput DEF WmInput, WmButton, winVars, appVars
  <2>2. \/ Under' = Under
        \/ Under.then \notin {"entered", "left"} /\ Under'.then \notin {"entered", "left"}
    BY <1>1, UnderKeys DEF NoFrame, Frame, Under
  <2>3. SameMoves(input, input')
    BY <1>0, <2>1, MovesKept
  <2> QED
    BY <2>1, <2>2, <2>3, SameRefl, MouseSame
<1>2. ASSUME NEW v \in Pointed, UserMoves(v) PROVE MouseInv'
  <2>1. PointerAt(v, sys) /\ UNCHANGED <<status, cursor, over, inside, stack>>
    BY <1>2 DEF UserMoves, winVars, appVars
  <2> QED
    BY <1>0, <2>1, MousePointed
<1>3. ASSUME NEW w \in Window, LockPointer(w) PROVE MouseInv'
  <2>1. /\ UNCHANGED <<status, cursor, over, inside, stack>>
        /\ \E ok \in RawWorks :
             PointerAt(w, IF ok THEN [sys EXCEPT !.clip = w, !.raw = w]
                                ELSE [sys EXCEPT !.clip = None])
    BY <1>3 DEF LockPointer, appVars
  <2>2. PICK t \in System : /\ PointerAt(w, t) /\ t.pointer = sys.pointer
                            /\ t.tracked = sys.tracked /\ t.shown = sys.shown
    <3>1. \A t \in {[sys EXCEPT !.clip = w, !.raw = w], [sys EXCEPT !.clip = None]} :
            /\ t \in System /\ t.pointer = sys.pointer
            /\ t.tracked = sys.tracked /\ t.shown = sys.shown
      BY ZenonT(30), <1>0 DEF System, Pointed
    <3> QED
      BY <2>1, <3>1, SwitchAssumption
  <2> QED
    BY <2>1, <2>2, MousePointed DEF Pointed
<1>4. ASSUME NEW w \in Window, UnlockPointer(w) PROVE MouseInv'
  <2>1. /\ UNCHANGED <<status, cursor, over, inside, posted, input, stack>>
        /\ sys' = [sys EXCEPT !.clip = None, !.raw = None]
    BY <1>4 DEF UnlockPointer, appVars, msgVars
  <2>2. sys'.pointer = sys.pointer /\ sys'.tracked = sys.tracked /\ sys'.shown = sys.shown
    BY <1>0, <2>1 DEF System
  <2>3. Under' = Under
    BY <2>1 DEF Under
  <2> QED
    BY <1>0, <2>1, <2>2, <2>3, SameRefl, MovesKept, MouseSame
<1>5. ASSUME NEW w \in Window, NEW c \in Images, SetCursor(w, c) PROVE MouseInv'
  <2>1. /\ UNCHANGED <<status, over, inside, posted, input, stack>>
        /\ cursor' = [cursor EXCEPT ![w] = c] /\ Callbacks \subseteq CursorIn
        /\ sys' = IF over = w /\ c # "unset" THEN [sys EXCEPT !.shown = c] ELSE sys
    BY <1>5 DEF SetCursor, appVars, msgVars
  <2>2. /\ sys'.pointer = sys.pointer /\ sys'.tracked = sys.tracked
        /\ sys'.shown = IF over = w /\ c # "unset" THEN c ELSE sys.shown
    BY <1>0, <2>1 DEF System
  <2>3. Under' = Under
    BY <2>1 DEF Under
  <2>4. Under.then # "entered"
    <3>1. CASE stack = <<>>
      BY <3>1 DEF Under, NoFrame, Frame
    <3>2. CASE stack # <<>>
      <4>1. 1 \in DOMAIN stack /\ stack[1] \in Frames /\ Under = stack[1]
        BY <1>0, <3>2 DEF StackInv, Under
      <4>2. stack[1].fn \in CursorIn
        BY <2>1, <3>2, <4>1 DEF Callbacks
      <4>3. Under.fn # "enter"
        BY <4>1, <4>2
      <4> QED
        BY <4>1, <4>3 DEF Frames
    <3> QED
      BY <3>1, <3>2
  <2>5. \A v \in inside : v = over /\ v \in Window
    BY <2>4 DEF MouseInv, TypeInv, WindowTypes
  <2>6. \A v \in inside : cursor'[v] # "unset" => sys'.shown = cursor'[v]
    <3>1. \A v \in inside : cursor[v] # "unset" => sys.shown = cursor[v]
      BY DEF MouseInv
    <3>2. \A v \in Window : cursor'[v] = IF v = w THEN c ELSE cursor[v]
      BY <2>1 DEF TypeInv, WindowTypes
    <3> QED
      BY <2>2, <2>5, <3>1, <3>2
  <2> QED
    BY <2>1, <2>2, <2>3, <2>6 DEF MouseInv, Live, NoLeave, OneLeave
<1>6. Images # {}
  BY DEF Images
<1> QED
  BY <1>1, <1>2, <1>3, <1>4, <1>5, <1>6, MouseMoves, MouseLeaves DEF PointerSteps

\* The enter and leave callbacks return, and mouse_over becomes what the listener was
\* told.
LEMMA MouseEntered ==
  ASSUME TypeInv, LiveInv, MouseInv, Return, NEW w \in Window,
         Under.then = "entered", Under.win = w, Live(w), over' = w, Track(w, sys, posted),
         Under'.then = "moved"
  PROVE  MouseInv'
<1>1. /\ UNCHANGED <<status, cursor, input, inside>>
      /\ sys'.pointer = sys.pointer /\ sys'.shown = sys.shown
  BY ReturnLeaves
<1>2. ~ Live(over)
  BY DEF MouseInv
<1>3. NoLeave(posted)
  <2>1. SUFFICES ASSUME OneLeave(posted, over) PROVE FALSE
    BY DEF MouseInv
  <2>2. PICK i \in DOMAIN posted : posted[i].on = "leave" /\ posted[i].win = over
    BY <2>1 DEF OneLeave
  <2>3. posted[i] \in Message
    BY DEF TypeInv, QueueTypes
  <2>4. posted[i].win # None
    BY <2>2, <2>3, MessageFacts, WindowAssumption
  <2> QED
    BY <1>2, <2>2, <2>4 DEF LiveInv, OfLive
<1>4. sys.tracked = None
  BY <1>2 DEF MouseInv, LiveInv
<1>5. PICK p : p = posted'
  OBVIOUS
<1>6. \/ sys.pointer = w /\ sys'.tracked = w /\ p = posted
      \/ sys'.tracked = None /\ p = Append(posted, Msg("leave", w, 0))
  BY <1>4, <1>5, Tracked
<1>7. /\ NoLeave(p) \/ (OneLeave(p, w) /\ sys'.tracked = None)
      /\ sys'.tracked # None => sys'.tracked = w /\ sys'.tracked = sys.pointer
      /\ sys'.tracked = w \/ OneLeave(p, w)
  <2>1. PICK m \in Message : m = Msg("leave", w, 0) /\ m.on = "leave" /\ m.win = w
    BY MessageTypes DEF Msg
  <2>2. OneLeave(Append(posted, m), w)
    BY <1>3, <2>1, LeaveAppended DEF TypeInv, QueueTypes
  <2> QED
    BY <1>3, <1>6, <2>1, <2>2
<1>8. \A v \in Window : v \in inside <=> Live(v) /\ v = w
  BY <1>2 DEF MouseInv
<1>9. status[w] # "unborn"
  BY DEF Live
<1>10. /\ \A v \in inside : cursor[v] # "unset" => sys.shown = cursor[v]
       /\ \A i \in DOMAIN input : input[i].on = "move" => input[i].win = sys.pointer
  BY DEF MouseInv
<1> QED
  BY <1>1, <1>5, <1>7, <1>8, <1>9, <1>10 DEF MouseInv, Live, NoLeave, OneLeave

LEMMA MouseLeft ==
  ASSUME TypeInv, MouseInv, Return, Under.then = "left", over' = None,
         UNCHANGED <<posted, sys>>, Under' = NoFrame
  PROVE  MouseInv'
<1>1. UNCHANGED <<status, cursor, input, inside>> /\ Under'.then = "none"
  BY ReturnLeaves DEF NoFrame, Frame
<1>2. NoLeave(posted) /\ sys.tracked = None
  BY DEF MouseInv
<1>3. \A v \in Window : v \notin inside
  BY DEF MouseInv
<1>4. inside = {}
  BY <1>3 DEF TypeInv, WindowTypes
<1>5. \A i \in DOMAIN input : input[i].on = "move" => input[i].win = sys.pointer
  BY DEF MouseInv
<1>6. \A v \in Window : v # None
  BY WindowAssumption
<1> QED
  BY <1>1, <1>2, <1>4, <1>5, <1>6 DEF MouseInv, Live, NoLeave

LEMMA MouseReturn ==
  ASSUME TypeInv, LiveInv, MouseInv, Return
  PROVE  MouseInv'
<1>0. sys \in System
  BY DEF TypeInv
<1>1. /\ UNCHANGED <<status, cursor, input, inside>>
      /\ sys'.pointer = sys.pointer /\ sys'.shown = sys.shown
  BY ReturnLeaves
<1>2. PICK u \in Frames : u = Under
  BY ReturnCases
<1>3. u.win \in Window
  BY DEF Frames
<1>4. /\ NoFrame.then = "none" /\ Frame("resize", u.win, "end", 0).then = "end"
      /\ Frame("move", u.win, "moved", 0).then = "moved"
  BY DEF NoFrame, Frame
<1>5. ASSUME UNCHANGED <<over, posted>>, sys'.tracked = sys.tracked,
             \/ Under' = Under
             \/ u.then \notin {"entered", "left"} /\ Under'.then \notin {"entered", "left"}
      PROVE  MouseInv'
  <2>1. SameMoves(input, input')
    BY <1>1 DEF SameMoves
  <2> QED
    BY <1>1, <1>2, <1>5, <2>1, SameRefl, MouseSame
<1>6. CASE /\ UNCHANGED <<over, posted, sys>>
           /\ \/ Under' = Under
              \/ u.then \in {"end", "moved", "command"} /\ Under' = NoFrame
  BY <1>4, <1>5, <1>6
<1>7. CASE /\ u.then = "paint" /\ Under' = NoFrame
           /\ sys' = [sys EXCEPT !.invalid = @ \ {u.win}] /\ UNCHANGED <<over, posted>>
  <2>1. sys'.tracked = sys.tracked
    BY <1>0, <1>7 DEF System
  <2> QED
    BY <1>4, <1>5, <1>7, <2>1
<1>8. CASE /\ u.then = "command" /\ WmSize(u.win, u.arg, <<>>) /\ UNCHANGED <<over, posted>>
           /\ Under' = NoFrame \/ Under' = Frame("resize", u.win, "end", 0)
  <2>1. u.arg \in Nat
    BY DEF Frames
  <2>2. sys'.tracked = sys.tracked
    BY <1>3, <1>8, <2>1, Sized
  <2> QED
    BY <1>4, <1>5, <1>8, <2>2
<1>9. CASE /\ u.then = "entered" /\ Live(u.win) /\ over' = u.win /\ Track(u.win, sys, posted)
           /\ Under' = Frame("move", u.win, "moved", 0)
  BY <1>2, <1>3, <1>4, <1>9, MouseEntered
<1>10. CASE /\ u.then = "left" /\ over' = None /\ UNCHANGED <<posted, sys>> /\ Under' = NoFrame
  BY <1>2, <1>10, MouseLeft
<1> QED
  BY <1>2, <1>6, <1>7, <1>8, <1>9, <1>10, ReturnCases

LEMMA MouseDestroy ==
  ASSUME TypeInv, MouseInv, NEW w \in Window, Destroy(w)
  PROVE  MouseInv'
<1>0. /\ sys \in System /\ posted \in Seq(Message) /\ input \in Seq(Message)
      /\ status \in [Window -> {"unborn", "live", "freed"}] /\ over \in Pointed
      /\ cursor \in [Window -> {"unset", "hand", "hidden"}] /\ inside \subseteq Window
  BY DEF TypeInv, QueueTypes, WindowTypes
<1>1. /\ status' = [status EXCEPT ![w] = "freed"] /\ cursor' = [cursor EXCEPT ![w] = "unset"]
      /\ posted' = OfOthers(posted, w) /\ input' = OfOthers(input, w)
      /\ inside' = inside \ {w} /\ UNCHANGED <<over, stack>>
      /\ sys' = [sys EXCEPT !.visible = @ \ {w}, !.invalid = @ \ {w}, !.size[w] = 0,
                            !.pointer = IF @ = w THEN None ELSE @,
                            !.tracked = IF @ = w THEN None ELSE @]
  BY DEF Destroy
<1>2. /\ sys'.pointer = (IF sys.pointer = w THEN None ELSE sys.pointer)
      /\ sys'.tracked = (IF sys.tracked = w THEN None ELSE sys.tracked)
      /\ sys'.shown = sys.shown
  BY <1>0, <1>1 DEF System
<1>3. /\ \A v \in Window : Live(v)' <=> Live(v) /\ v # w
      /\ Live(over)' <=> Live(over) /\ over # w
  <2>1. \A v \in Window : Live(v)' <=> Live(v) /\ v # w
    BY <1>0, <1>1 DEF Live
  <2>2. Live(over)' <=> Live(over) /\ over # w
    BY <1>0, <1>1 DEF Live, Pointed
  <2> QED
    BY <2>1, <2>2
<1>4. Under' = Under
  BY <1>1 DEF Under
<1>5. \A v \in Window : v \in inside' <=>
        /\ Live(v)'
        /\ v = over \/ (Under.then = "entered" /\ v = Under.win)
        /\ ~ (Under.then = "left" /\ v = Under.win)
  BY <1>1, <1>3 DEF MouseInv, Pointed
<1>6. \A v \in inside' : cursor'[v] # "unset" => sys'.shown = cursor'[v]
  BY <1>0, <1>1, <1>2 DEF MouseInv
<1>7. PICK p : p = posted'
  OBVIOUS
<1>8. /\ NoLeave(posted) => NoLeave(p)
      /\ OneLeave(posted, w) => NoLeave(p)
      /\ over # w /\ OneLeave(posted, over) => OneLeave(p, over)
  BY <1>0, <1>1, <1>7, LeaveOthers
<1>9. /\ NoLeave(p) \/ (OneLeave(p, over) /\ sys'.tracked = None /\ Under.then # "left")
      /\ sys'.tracked # None =>
           sys'.tracked = over /\ sys'.tracked = sys'.pointer /\ Under.then # "left"
      /\ Live(over)' => sys'.tracked = over \/ Under.then = "left" \/ OneLeave(p, over)
  <2>1. /\ NoLeave(posted) \/ (OneLeave(posted, over) /\ sys.tracked = None /\ Under.then # "left")
        /\ sys.tracked # None =>
             sys.tracked = over /\ sys.tracked = sys.pointer /\ Under.then # "left"
        /\ Live(over) => sys.tracked = over \/ Under.then = "left" \/ OneLeave(posted, over)
    BY DEF MouseInv
  <2>2. CASE over = w
    <3>1. ~ Live(over)' /\ NoLeave(p)
      BY <1>0, <1>3, <1>8, <2>1, <2>2
    <3>2. sys'.tracked = None
      BY <1>2, <2>1, <2>2
    <3> QED
      BY <3>1, <3>2
  <2>3. CASE over # w
    <3>1. /\ Live(over)' => Live(over)
          /\ NoLeave(posted) => NoLeave(p)
          /\ OneLeave(posted, over) => OneLeave(p, over)
      BY <1>0, <1>3, <1>8, <2>3
    <3>2. sys'.tracked = sys.tracked /\ (sys.tracked # None => sys'.pointer = sys.pointer)
      BY <1>2, <2>1, <2>3
    <3> QED
      BY <2>1, <3>1, <3>2
  <2> QED
    BY <2>2, <2>3
<1>10. PICK n : n = input' /\ \A i \in DOMAIN n : n[i].on = "move" => n[i].win = sys'.pointer
  <2>1. PICK n : n = OfOthers(input, w)
    OBVIOUS
  <2>2. PICK place \in [DOMAIN n -> DOMAIN input] :
          \A j \in DOMAIN n : n[j] = input[place[j]] /\ input[place[j]].win # w
    BY <1>0, <2>1, OthersFacts
  <2>3. \A j \in DOMAIN n : n[j].on = "move" => n[j].win = sys.pointer /\ n[j].win # w
    BY <2>2 DEF MouseInv
  <2> QED
    BY <1>1, <1>2, <2>1, <2>3
<1>11. /\ Under.then = "entered" => ~ Live(over)'
       /\ Under.then = "left" => Under.win = over
       /\ over # None => status'[over] # "unborn"
  BY <1>0, <1>1, <1>3 DEF MouseInv, Pointed
<1> QED
  BY <1>1, <1>4, <1>5, <1>6, <1>7, <1>9, <1>10, <1>11 DEF MouseInv, Live, NoLeave, OneLeave

LEMMA MouseRest ==
  ASSUME TypeInv, LiveInv, MouseInv, RestSteps
  PROVE  MouseInv'
<1>0. sys \in System /\ posted \in Seq(Message) /\ input \in Seq(Message)
  BY DEF TypeInv, QueueTypes
<1>1. ASSUME UNCHANGED <<status, cursor, over, inside, stack>>,
             sys'.pointer = sys.pointer, sys'.tracked = sys.tracked, sys'.shown = sys.shown,
             SameLeaves(posted, posted'), SameMoves(input, input')
      PROVE  MouseInv'
  BY <1>1, MouseSame DEF Under
<1>2. CASE Dispatch
  BY <1>0, <1>1, <1>2, SameRefl, MovesKept DEF Dispatch, winVars, appVars
<1>3. ASSUME NEW w \in Window, UserInput(w) PROVE MouseInv'
  <2>1. UNCHANGED <<status, cursor, over, inside, stack, sys, posted>>
    BY <1>3 DEF UserInput, Arrives, winVars, appVars
  <2>2. PICK m \in Message : input' = Append(input, m) /\ m.on # "move"
    <3>1. ASSUME NEW m \in Message, Arrives(m) PROVE input' = Append(input, m)
      BY <3>1 DEF Arrives
    <3>2. \E m \in Message : Arrives(m) /\ m.on # "move"
      <4>1. \A on, n : Msg(on, w, n).on = on
        BY DEF Msg
      <4> QED
        BY <1>3, <4>1, MessageTypes DEF UserInput
    <3> QED
      BY <3>1, <3>2
  <2>3. SameMoves(input, input')
    BY <1>0, <2>2, MovesKept
  <2> QED
    BY <1>1, <2>1, <2>3, SameRefl
<1>4. ASSUME NEW w \in Window, UserCommands(w) PROVE MouseInv'
  <2>1. /\ UNCHANGED <<status, cursor, over, inside, stack, sys, input>>
        /\ \E m \in {Msg("close", w, 0)} \cup {Msg("command", w, s) : s \in Sizes} :
             posted' = Append(posted, m)
    BY <1>4 DEF UserCommands, winVars, appVars
  <2>2. /\ Msg("close", w, 0) \in Message
        /\ \A s \in Sizes : Msg("command", w, s) \in Message
    BY MessageTypes
  <2>3. \A n : Msg("close", w, n).on # "leave" /\ Msg("command", w, n).on # "leave"
    BY DEF Msg
  <2>4. PICK m \in Message : posted' = Append(posted, m) /\ m.on # "leave"
    BY <2>1, <2>2, <2>3
  <2>5. SameLeaves(posted, posted')
    BY <1>0, <2>4, LeaveAppended
  <2> QED
    BY <1>0, <1>1, <2>1, <2>5, MovesKept
<1>5. ASSUME NEW w \in Window, Uncover(w) PROVE MouseInv'
  <2>1. /\ UNCHANGED <<status, cursor, over, inside, stack, posted, input>>
        /\ sys' = [sys EXCEPT !.invalid = @ \cup {w}]
    BY <1>5 DEF Uncover, winVars, msgVars
  <2>2. sys'.pointer = sys.pointer /\ sys'.tracked = sys.tracked /\ sys'.shown = sys.shown
    BY <1>0, <2>1 DEF System
  <2> QED
    BY <1>0, <1>1, <2>1, <2>2, SameRefl, MovesKept
<1> QED
  BY <1>2, <1>3, <1>4, <1>5, MouseReturn, MouseDestroy DEF RestSteps

LEMMA MouseStep ==
  ASSUME TypeInv, LiveInv, MouseInv, "enter" \notin CursorIn, [Next]_vars
  PROVE  MouseInv'
<1>1. CASE UNCHANGED vars
  <2>1. SameMoves(input, input') /\ Under' = Under
    BY <1>1 DEF SameMoves, Under, vars, msgVars
  <2> QED
    BY <1>1, <2>1, SameRefl, MouseSame DEF vars, winVars, msgVars, appVars
<1> QED
  BY <1>1, Steps, MousePaint, MouseSteps, MouseKeys, MouseRest

\* An application that sets no cursor while it is told that the pointer entered: between
\* two messages, the window told so is mouse_over, and it shows its cursor; and
\* win_proc's assertion about the window that was left holds (WM_MOUSEMOVE, WM_MOUSELEAVE and win_set_cursor).
THEOREM PointersAgree == ASSUME "enter" \notin CursorIn PROVE Spec => []MouseAgrees
<1>1. Init => MouseInv
  <2>1. Init => /\ Under.then = "none" /\ inside = {} /\ over = None /\ posted = <<>>
                /\ input = <<>> /\ sys.tracked = None
    BY TypeInit DEF Init, NoFrame, Frame
  <2>2. Init => \A w \in Window : w # None
    BY WindowAssumption
  <2> QED
    BY <2>1, <2>2 DEF MouseInv, Live, NoLeave
<1>2. TypeInv /\ LiveInv /\ MouseInv /\ [Next]_vars => MouseInv'
  BY MouseStep
<1>3. TypeInv /\ MouseInv => MouseAgrees
  <2>1. ASSUME TypeInv, MouseInv, stack = <<>>
        PROVE  /\ inside = {w \in Window : Live(w) /\ over = w}
               /\ \A w \in inside : cursor[w] # "unset" => sys.shown = cursor[w]
    <3>1. Under.then = "none"
      BY <2>1 DEF Under, NoFrame, Frame
    <3>2. \A w \in Window : w \in inside <=> Live(w) /\ over = w
      BY <2>1, <3>1 DEF MouseInv
    <3>3. inside \subseteq Window
      BY <2>1 DEF TypeInv, WindowTypes
    <3> QED
      BY <2>1, <3>2, <3>3 DEF MouseInv
  <2>2. ASSUME TypeInv, MouseInv, NEW i \in DOMAIN stack, stack[i].then = "left"
        PROVE  over = stack[i].win
    <3>1. stack \in Seq(Frames) /\ (i > 1 => stack[i].then = "end")
      BY <2>2 DEF TypeInv, StackInv
    <3>2. stack # <<>> /\ i = 1
      BY <2>2, <3>1
    <3> QED
      BY <2>2, <3>2 DEF MouseInv, Under
  <2> QED
    BY <2>1, <2>2 DEF MouseAgrees
<1> QED
  BY <1>1, <1>2, <1>3, LiveHolds, PTL DEF Spec
=============================================================================

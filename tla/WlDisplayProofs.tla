-------------------------- MODULE WlDisplayProofs --------------------------
(***************************************************************************)
(* Data offers of WlDisplay, for any offers and bounds: every request is   *)
(* answered once, and no offer is leaked or lost.                          *)
(***************************************************************************)
EXTENDS WlDisplay, TLAPS

-----------------------------------------------------------------------------
(* The inductive invariants *)

OfferData == [handler : BOOLEAN, n : Nat, pipe : Nat, left : Nat, open : BOOLEAN, sent : Nat]

TypeOK ==
  /\ at \in {"start", "app", "poll", "run", "gone"}
  /\ listed \subseteq Offer
  /\ selection \in Offer \cup {None}
  /\ data \in [Offer -> OfferData]
  /\ count \in Nat
  /\ asked \in [Offer -> Nat] /\ answered \in [Offer -> Nat]
  /\ call = NoCall \/ call.offer \in Offer
  /\ call.from \in {"none", "read", "select", "quit"}
  /\ call = NoCall <=> call.from = "none"
  /\ call.from = "select" => call.arg \in Offer \cup {None}

\* The offer whose handler runs, and those whose pipes are about to be read, are
\* waited for.
WaitInv ==
  /\ at # "run" => ready \cap Offer = {}
  /\ \A o \in ready \cap Offer : data[o].handler
  /\ call # NoCall => data[call.offer].handler
  /\ call.from = "quit" => at = "app"

BaseInv == TypeOK /\ WaitInv

\* The events about offers, in the order the compositor sent them.
EventOn == {"offer", "drag", "select"}
Event == [on : EventOn, offer : Offer \cup {None}]

EventInv ==
  /\ events \in Seq(Event)
  /\ met \in [Offer -> {"none", "select", "drag"}]
  /\ \A i, j \in 1..Len(events) :
       events[i] = events[j] /\ events[i].offer # None => i = j
  /\ \A i \in 1..Len(events) :
       events[i].offer # None =>
         IF events[i].on = "offer" THEN met[events[i].offer] # "none"
                                   ELSE met[events[i].offer] = events[i].on
  /\ \A i \in 1..Len(events) :
       events[i].on = "offer" =>
         /\ events[i].offer # None
         /\ \/ met[events[i].offer] = "drag"
            \/ \E j \in 1..Len(events) : j > i /\ events[j] = Ev("select", events[i].offer)

\* The display still handles its events.
Serving == at # "gone" /\ call.from # "quit"

\* An offer is introduced before it is selected, and selected once.
Coming(on, o) == \E i \in 1..Len(events) : events[i] = Ev(on, o)

NewSelections ==
  \A i \in 1..Len(events) :
    Serving /\ events[i].on = "select" /\ events[i].offer # None =>
      /\ events[i].offer # selection
      /\ call.from = "select" => events[i].offer # call.arg
      /\ \/ events[i].offer \in listed
         \/ \E j \in 1..Len(events) : j < i /\ events[j] = Ev("offer", events[i].offer)

\* What is listed and selected was introduced; a display that was not created or
\* is destroyed has neither.
ListInv ==
  /\ ~Serving \/ at = "start" => listed = {} /\ selection = None
  /\ \A o \in listed : met[o] # "none"
  /\ selection # None => met[selection] # "none"

\* The old selection is unlinked while its handler runs.
CallInv ==
  IF call.from = "select"
    THEN /\ at = "run"
         /\ selection = call.offer /\ selection \notin listed
         /\ call.arg \in listed \cup {None}
    ELSE selection \in listed \cup {None}

KeptInv ==
  \A o \in listed \ {selection} :
    \/ Coming("select", o)
    \/ call.from = "select" /\ call.arg = o
    \/ met[o] = "drag"

OfferInv == NewSelections /\ ListInv /\ CallInv /\ KeptInv

-----------------------------------------------------------------------------
(* The events *)

LEMMA TailEvents ==
  ASSUME NEW S, NEW s \in Seq(S), s # <<>>
  PROVE  /\ Tail(s) \in Seq(S) /\ Head(s) = s[1] /\ Head(s) \in S
         /\ Len(s) \in Nat \ {0} /\ Len(Tail(s)) = Len(s) - 1
         /\ \A i \in 1..Len(s) - 1 : Tail(s)[i] = s[i + 1]
         /\ \A i \in 1..Len(s) - 1 : i + 1 \in 1..Len(s)
  OBVIOUS

LEMMA MoreEvents ==
  ASSUME NEW S, NEW s \in Seq(S), NEW t \in Seq(S)
  PROVE  /\ s \o t \in Seq(S) /\ Len(s \o t) = Len(s) + Len(t)
         /\ Len(s) \in Nat /\ Len(t) \in Nat
         /\ \A i \in 1..Len(s) : (s \o t)[i] = s[i]
         /\ \A i \in 1..Len(t) : (s \o t)[Len(s) + i] = t[i]
  OBVIOUS

LEMMA EventInit == Init => EventInv
  BY OfferAssumption DEF Init, EventInv

\* The rest of the events is as good as all of them.
LEMMA NextEventInv ==
  ASSUME EventInv, events # <<>>, events' = Tail(events), UNCHANGED met
  PROVE  EventInv'
<1> DEFINE n == Len(events)
<1>1. /\ n \in Nat \ {0} /\ Len(events') = n - 1
      /\ \A i \in 1..n - 1 : events'[i] = events[i + 1] /\ i + 1 \in 1..n
      /\ events' \in Seq(Event)
  BY TailEvents DEF EventInv
<1>2. ASSUME NEW i \in 1..n - 1, NEW j \in 1..n - 1,
             events'[i] = events'[j], events'[i].offer # None
      PROVE  i = j
  BY <1>1, <1>2 DEF EventInv
<1>3. ASSUME NEW i \in 1..n - 1, events'[i].on = "offer"
      PROVE  /\ events'[i].offer # None
             /\ \/ met'[events'[i].offer] = "drag"
                \/ \E j \in 1..n - 1 : j > i /\ events'[j] = Ev("select", events'[i].offer)
  <2>1. CASE \E j \in 1..n : j > i + 1 /\ events[j] = Ev("select", events[i + 1].offer)
    <3>1. PICK j \in 1..n : j > i + 1 /\ events[j] = Ev("select", events[i + 1].offer)
      BY <2>1
    <3>2. j - 1 \in 1..n - 1 /\ j - 1 > i /\ events'[j - 1] = events[j]
      BY <3>1, <1>1
    <3> QED
      BY <3>1, <3>2, <1>1, <1>3 DEF EventInv
  <2> QED
    BY <2>1, <1>1, <1>3 DEF EventInv
<1> HIDE DEF n
<1>4. \A i \in 1..n - 1 :
        events'[i].offer # None =>
          IF events'[i].on = "offer" THEN met'[events'[i].offer] # "none"
                                     ELSE met'[events'[i].offer] = events'[i].on
  BY <1>1 DEF EventInv, n
<1> QED
  BY <1>1, <1>2, <1>3, <1>4 DEF EventInv

LEMMA SendOfferInv ==
  ASSUME EventInv, NEW o \in Offer, SendOffer(o)
  PROVE  EventInv'
<1>1. PICK on \in {"select", "drag"} :
        /\ met' = [met EXCEPT ![o] = on]
        /\ events' = events \o <<Ev("offer", o), Ev(on, o)>>
  BY DEF SendOffer, SendEvents
<1> DEFINE n == Len(events)
<1>2. <<Ev("offer", o), Ev(on, o)>> \in Seq(Event) /\ Len(<<Ev("offer", o), Ev(on, o)>>) = 2
  BY DEF Event, Ev, EventOn
<1>3. /\ events' \in Seq(Event) /\ n \in Nat /\ Len(events') = n + 2
      /\ \A i \in 1..n : events'[i] = events[i]
      /\ events'[n + 1] = Ev("offer", o) /\ events'[n + 2] = Ev(on, o)
  BY <1>1, <1>2, MoreEvents DEF EventInv
<1>4. /\ met' \in [Offer -> {"none", "select", "drag"}]
      /\ met[o] = "none" /\ met'[o] = on
      /\ \A p \in Offer \ {o} : met'[p] = met[p]
  BY <1>1 DEF EventInv, SendOffer
<1>5. ASSUME NEW i \in 1..n
      PROVE  events[i] \in Event /\ events[i].offer # o
  <2>0. events[i] \in Event
    BY DEF EventInv
  <2>1. events[i] \in Event /\ events[i].on \in EventOn
    BY <2>0 DEF Event
  <2>2. o # None
    BY OfferAssumption
  <2>3. events[i].offer = o => events[i].on = "offer" \/ met[o] = events[i].on
    BY <2>2 DEF EventInv
  <2>4. events[i].offer = o => met[o] # "none"
    BY <2>1, <2>2, <2>3 DEF EventInv, EventOn
  <2> QED
    BY <2>1, <2>4, <1>4
<1> HIDE DEF n
<1>6. \A i \in 1..Len(events') : i \in 1..n \/ i = n + 1 \/ i = n + 2
  BY <1>3
<1>7. \A i, j \in 1..Len(events') :
        events'[i] = events'[j] /\ events'[i].offer # None => i = j
  BY SMTT(30), <1>3, <1>5, <1>6 DEF EventInv, Ev, n
<1>8. \A i \in 1..Len(events') :
        events'[i].offer # None =>
          IF events'[i].on = "offer" THEN met'[events'[i].offer] # "none"
                                     ELSE met'[events'[i].offer] = events'[i].on
  BY <1>3, <1>4, <1>5, <1>6 DEF EventInv, Ev, Event, n
<1>9. \A i \in 1..Len(events') :
        events'[i].on = "offer" =>
          /\ events'[i].offer # None
          /\ \/ met'[events'[i].offer] = "drag"
             \/ \E j \in 1..Len(events') :
                  j > i /\ events'[j] = Ev("select", events'[i].offer)
  <2> SUFFICES ASSUME NEW i \in 1..Len(events'), events'[i].on = "offer"
               PROVE  /\ events'[i].offer # None
                      /\ \/ met'[events'[i].offer] = "drag"
                         \/ \E j \in 1..Len(events') :
                              j > i /\ events'[j] = Ev("select", events'[i].offer)
    OBVIOUS
  <2>1. CASE i \in 1..n
    BY <2>1, <1>3, <1>4, <1>5 DEF EventInv, Event, n
  <2>2. CASE i = n + 1
    BY <2>2, <1>3, <1>4, OfferAssumption DEF Ev
  <2>3. CASE i = n + 2
    BY <2>3, <1>3 DEF Ev
  <2> QED
    BY <2>1, <2>2, <2>3, <1>6
<1> QED
  BY <1>3, <1>4, <1>7, <1>8, <1>9 DEF EventInv

LEMMA SendNoSelectionInv ==
  ASSUME EventInv, SendNoSelection
  PROVE  EventInv'
<1>1. events = <<>> /\ events' = events \o <<Ev("select", None)>> /\ UNCHANGED met
  BY DEF SendNoSelection, SendEvents
<1>2. <<Ev("select", None)>> \in Seq(Event) /\ Len(<<Ev("select", None)>>) = 1
  BY DEF Event, Ev, EventOn
<1>3. /\ events' \in Seq(Event) /\ Len(events') = 1 /\ events'[1] = Ev("select", None)
  BY <1>1, <1>2, MoreEvents DEF EventInv
<1> QED
  BY <1>1, <1>3 DEF EventInv, Ev

\* All other actions leave the events alone.
LEMMA EventStep == EventInv /\ [Next]_vars => EventInv'
<1> SUFFICES ASSUME EventInv, [Next]_vars PROVE EventInv'
  OBVIOUS
<1>1. CASE UNCHANGED <<events, met>>
  BY <1>1 DEF EventInv
<1>2. CASE DataOffer \/ DataDrag \/ DataSelection
  BY <1>2, NextEventInv DEF DataOffer, DataDrag, DataSelection, NextEvent
<1>3. CASE Loop /\ ~(DataOffer \/ DataDrag \/ DataSelection)
  BY <1>1, <1>3 DEF Loop, Dispatch, Poll, Dispatched, ClearWakeup, EndEvents,
                    HandlerReturns, ReadData, EndRead
<1>4. CASE \E o \in Offer : SendOffer(o)
  BY <1>4, SendOfferInv
<1>5. CASE SendNoSelection
  BY <1>5, SendNoSelectionInv
<1>6. CASE \/ \E g \in Globals : HandleGlobal(g)
           \/ Create \/ Wakeup \/ Destroy
  BY <1>1, <1>6 DEF HandleGlobal, Create, Wakeup, Destroy
<1>7. CASE \E o \in Offer : RequestData(o) \/ SourceWrites(o) \/ SourceCloses(o)
  BY <1>1, <1>7 DEF RequestData, SourceWrites, SourceCloses, SourceStep
<1>8. CASE UNCHANGED vars
  BY <1>1, <1>8 DEF vars
<1> QED
  BY <1>2, <1>3, <1>4, <1>5, <1>6, <1>7, <1>8 DEF Next

-----------------------------------------------------------------------------
(* Types, and the offers that are waited for *)

LEMMA BaseInit == Init => BaseInv
  BY OfferAssumption, SizeAssumption
     DEF Init, BaseInv, TypeOK, WaitInv, NoData, NoCall, Call, OfferData

\* What an offer's data becomes when it is freed, asked for, read and written.
LEMMA DataTypes ==
  ASSUME TypeOK
  PROVE  /\ NoData \in OfferData /\ ~NoData.handler
         /\ \A o \in Offer : data[o] \in OfferData
  BY DEF TypeOK, OfferData, NoData

LEMMA FreedBase ==
  ASSUME BaseInv, NEW o \in Offer, Freed(o)
  PROVE  /\ data' \in [Offer -> OfferData]
         /\ ready' = ready \ {o}
         /\ ~data'[o].handler
         /\ \A p \in Offer \ {o} : data'[p] = data[p]
  BY DataTypes DEF BaseInv, TypeOK, Freed

LEMMA CallBase ==
  ASSUME BaseInv, NEW o \in Offer, NEW from \in {"read", "select", "quit"}, NEW arg,
         CallHandler(o, from, arg)
  PROVE  /\ call'.offer = o /\ call'.from = from /\ call'.arg = arg /\ call' # NoCall
         /\ answered' \in [Offer -> Nat]
  BY DEF BaseInv, TypeOK, CallHandler, Call, NoCall

LEMMA BaseLoop ==
  ASSUME BaseInv, EventInv, Dispatch \/ Poll \/ Dispatched \/ ClearWakeup \/ EndEvents \/ DataOffer
                  \/ DataDrag
  PROVE  BaseInv'
<1> USE OfferAssumption, SizeAssumption
<1> USE DEF BaseInv, TypeOK, WaitInv, offerVars, appVars
<1>1. CASE Dispatch
  BY <1>1 DEF Dispatch, Quiet, NoCall, Call
<1>2. CASE Poll
  BY <1>2 DEF Poll, Ready
<1>3. CASE Dispatched
  BY <1>3 DEF Dispatched
<1>4. CASE ClearWakeup
  BY <1>4 DEF ClearWakeup, Handling
<1>5. CASE EndEvents
  BY <1>5 DEF EndEvents, Handling
<1>6. CASE DataOffer
  <2>1. events \in Seq(Event) /\ events # <<>> /\ Head(events).on = "offer"
    BY <1>6 DEF DataOffer, NextEvent, EventInv
  <2>2. Head(events) = events[1] /\ Head(events) \in Event /\ 1 \in 1..Len(events)
    BY <2>1, TailEvents
  <2>3. Head(events).offer \in Offer
    BY <2>1, <2>2 DEF EventInv, Event
  <2> QED
    BY <1>6, <2>3 DEF DataOffer, NextEvent, Handling
<1>7. CASE DataDrag
  BY <1>7 DEF DataDrag, NextEvent, Handling
<1> QED
  BY <1>1, <1>2, <1>3, <1>4, <1>5, <1>6, <1>7

\* data_offer_destroy, from data_dev_selection.
LEMMA BaseSelection ==
  ASSUME BaseInv, EventInv, DataSelection
  PROVE  BaseInv'
<1> USE OfferAssumption, SizeAssumption
<1> DEFINE new == Head(events).offer
<1>1. new \in Offer \cup {None}
  <2>1. events \in Seq(Event) /\ events # <<>>
    BY DEF DataSelection, NextEvent, EventInv
  <2>2. Head(events) \in Event
    BY <2>1, TailEvents
  <2> QED
    BY <2>2 DEF Event
<1>2. /\ call = NoCall /\ at = "run" /\ UNCHANGED <<at, count, asked>>
  BY DEF DataSelection, NextEvent, Handling, Quiet
<1> HIDE DEF new
<1>3. CASE selection = None
  BY <1>1, <1>2, <1>3 DEF DataSelection, BaseInv, TypeOK, WaitInv, new
<1>4. CASE selection # None /\ data[selection].handler
  <2>1. /\ selection \in Offer
        /\ CallHandler(selection, "select", new) /\ UNCHANGED <<data, ready, selection>>
        /\ listed' = listed \ {selection}
    BY <1>4 DEF DataSelection, DestroyOffer, BaseInv, TypeOK, new
  <2>2. /\ call'.offer = selection /\ call'.from = "select" /\ call'.arg = new
        /\ call' # NoCall /\ answered' \in [Offer -> Nat]
    BY <2>1, CallBase
  <2> QED
    BY <1>1, <1>2, <1>4, <2>1, <2>2 DEF BaseInv, TypeOK, WaitInv
<1>5. CASE selection # None /\ ~data[selection].handler
  <2>1. /\ selection \in Offer
        /\ Freed(selection) /\ UNCHANGED <<call, answered>>
        /\ listed' = listed \ {selection} /\ selection' = new
    BY <1>5 DEF DataSelection, DestroyOffer, BaseInv, TypeOK, new
  <2>2. /\ data' \in [Offer -> OfferData] /\ ready' = ready \ {selection}
        /\ \A p \in Offer \ {selection} : data'[p] = data[p]
    BY <2>1, FreedBase
  <2> QED
    BY <1>1, <1>2, <2>1, <2>2 DEF BaseInv, TypeOK, WaitInv
<1> QED
  BY <1>3, <1>4, <1>5

LEMMA BaseReturns ==
  ASSUME BaseInv, HandlerReturns
  PROVE  BaseInv'
<1>1. /\ call # NoCall /\ call.offer \in Offer
      /\ Freed(call.offer) /\ call' = NoCall /\ UNCHANGED <<listed, count, asked, answered>>
      /\ selection' = IF call.from = "select" THEN call.arg ELSE selection
      /\ at' = IF call.from = "quit" THEN "gone" ELSE at
  BY DEF HandlerReturns, BaseInv, TypeOK, appVars
<1>2. /\ data' \in [Offer -> OfferData] /\ ready' = ready \ {call.offer}
      /\ \A p \in Offer \ {call.offer} : data'[p] = data[p]
  BY <1>1, FreedBase
<1>3. TypeOK'
  BY <1>1, <1>2 DEF BaseInv, TypeOK, NoCall, Call
<1>4. WaitInv'
  BY <1>1, <1>2 DEF BaseInv, TypeOK, WaitInv, NoCall, Call
<1> QED
  BY <1>3, <1>4 DEF BaseInv

\* Reading an offer's pipe.
LEMMA BaseRead ==
  ASSUME BaseInv, NEW o \in Offer, ReadData(o) \/ EndRead(o)
  PROVE  BaseInv'
<1>1. /\ at = "run" /\ call = NoCall /\ o \in ready /\ data[o].handler
      /\ UNCHANGED <<at, listed, selection, asked>>
  BY DEF ReadData, EndRead, Handling, Quiet, BaseInv, WaitInv, offerVars, appVars
<1>2. CASE ReadData(o)
  <2> DEFINE ret == IF data[o].pipe < count THEN data[o].pipe ELSE count
             more == IF 0 < ret /\ ret < count THEN data[o].n + count + ret ELSE data[o].n
  <2>1. /\ data' = [data EXCEPT ![o].pipe = data[o].pipe - ret, ![o].n = more]
        /\ count' = IF ret = count THEN 2 * count ELSE count
        /\ ready' = IF ret = 0 THEN ready \ {o} ELSE ready
        /\ UNCHANGED <<call, answered>>
    BY <1>2 DEF ReadData, appVars
  <2>2. data[o] \in OfferData /\ count \in Nat
    BY DataTypes DEF BaseInv, TypeOK
  <2>3. ret \in Nat /\ data[o].pipe - ret \in Nat /\ more \in Nat
    BY <2>2 DEF OfferData
  <2> HIDE DEF ret, more
  <2>4. /\ data' \in [Offer -> OfferData]
        /\ \A p \in Offer : data'[p].handler = data[p].handler
    BY <2>1, <2>2, <2>3 DEF BaseInv, TypeOK, OfferData
  <2>5. count' \in Nat
    BY <2>1, <2>2
  <2> QED
    BY <1>1, <2>1, <2>4, <2>5 DEF BaseInv, TypeOK, WaitInv
<1>3. CASE EndRead(o)
  <2>1. PICK arg : CallHandler(o, "read", arg)
    BY <1>3 DEF EndRead
  <2>2. /\ call'.offer = o /\ call'.from = "read" /\ call' # NoCall
        /\ answered' \in [Offer -> Nat]
    BY <2>1, CallBase
  <2>3. UNCHANGED <<data, ready, count>>
    BY <1>3 DEF EndRead, offerVars
  <2> QED
    BY <1>1, <2>2, <2>3 DEF BaseInv, TypeOK, WaitInv
<1> QED
  BY <1>2, <1>3

LEMMA BaseRequest ==
  ASSUME BaseInv, NEW o \in Offer, RequestData(o)
  PROVE  BaseInv'
<1>1. PICK n \in Bytes :
        data' = [data EXCEPT ![o] = [NoData EXCEPT !.handler = TRUE, !.left = n,
                                                   !.open = TRUE, !.sent = n]]
  BY DEF RequestData
<1>2. /\ data' \in [Offer -> OfferData] /\ data'[o].handler
      /\ \A p \in Offer \ {o} : data'[p] = data[p]
  BY <1>1, SizeAssumption DEF BaseInv, TypeOK, OfferData, NoData
<1>3. at = "app" /\ asked' \in [Offer -> Nat]
  BY DEF RequestData, BaseInv, TypeOK
<1> QED
  BY <1>2, <1>3 DEF RequestData, BaseInv, TypeOK, WaitInv

LEMMA BaseSource ==
  ASSUME BaseInv, NEW o \in Offer, SourceWrites(o) \/ SourceCloses(o)
  PROVE  /\ BaseInv'
         /\ \A p \in Offer : data'[p].handler = data[p].handler
<1>1. PICK new \in OfferData : SourceStep(o, new) /\ new.handler = data[o].handler
  <2>1. data[o] \in OfferData
    BY DataTypes DEF BaseInv
  <2>2. CASE SourceWrites(o)
    <3>1. PICK n \in 1..data[o].left :
            SourceStep(o, [data[o] EXCEPT !.left = @ - n, !.pipe = @ + n])
      BY <2>2 DEF SourceWrites
    <3> DEFINE new == [data[o] EXCEPT !.left = @ - n, !.pipe = @ + n]
    <3>2. data[o].left - n \in Nat /\ data[o].pipe + n \in Nat
      BY <2>1 DEF OfferData
    <3>3. new \in OfferData /\ new.handler = data[o].handler
      BY <2>1, <3>2 DEF OfferData
    <3>4. SourceStep(o, new)
      BY <3>1
    <3> HIDE DEF new
    <3> QED
      BY <3>3, <3>4
  <2>3. CASE SourceCloses(o)
    <3> DEFINE new == [data[o] EXCEPT !.open = FALSE]
    <3>1. new \in OfferData /\ new.handler = data[o].handler
      BY <2>1 DEF OfferData
    <3>2. SourceStep(o, new)
      BY <2>3 DEF SourceCloses
    <3> HIDE DEF new
    <3> QED
      BY <3>1, <3>2
  <2> QED
    BY <2>2, <2>3
<1>2. /\ data' = [data EXCEPT ![o] = new]
      /\ UNCHANGED <<at, ready, listed, selection, count, call, asked, answered>>
  BY <1>1 DEF SourceStep, appVars
<1> QED
  BY <1>1, <1>2 DEF BaseInv, TypeOK, WaitInv

\* display_destroy.
LEMMA BaseDestroy ==
  ASSUME BaseInv, Destroy
  PROVE  BaseInv'
<1>1. /\ at = "app" /\ call = NoCall /\ listed' = {} /\ selection' = None
      /\ UNCHANGED <<ready, data, count, asked>>
  BY DEF Destroy, Quiet
<1> DEFINE waiting == {o \in listed : data[o].handler}
<1>2. CASE waiting = {}
  BY <1>1, <1>2 DEF Destroy, BaseInv, TypeOK, WaitInv
<1>3. CASE waiting # {}
  <2>1. PICK o \in waiting : CallHandler(o, "quit", None) /\ at' = at
    BY <1>3 DEF Destroy
  <2>2. o \in Offer /\ data[o].handler
    BY DEF BaseInv, TypeOK
  <2>3. /\ call'.offer = o /\ call'.from = "quit" /\ call' # NoCall
        /\ answered' \in [Offer -> Nat]
    BY <2>1, <2>2, CallBase
  <2> QED
    BY <1>1, <2>1, <2>2, <2>3 DEF BaseInv, TypeOK, WaitInv
<1> QED
  BY <1>2, <1>3

LEMMA BaseStep == BaseInv /\ EventInv /\ [Next]_vars => BaseInv'
<1> SUFFICES ASSUME BaseInv, EventInv, [Next]_vars PROVE BaseInv'
  OBVIOUS
<1>1. CASE UNCHANGED <<at, ready, offerVars, count, call, appVars>>
  BY <1>1 DEF BaseInv, TypeOK, WaitInv, offerVars, appVars
<1>2. CASE \/ \E g \in Globals : HandleGlobal(g)
           \/ Wakeup \/ SendNoSelection \/ \E o \in Offer : SendOffer(o)
  BY <1>1, <1>2 DEF HandleGlobal, Wakeup, SendNoSelection, SendOffer, SendEvents
<1>3. CASE Create
  BY <1>3 DEF Create, BaseInv, TypeOK, WaitInv, offerVars, appVars
<1>4. CASE Loop
  BY <1>4, BaseLoop, BaseSelection, BaseReturns, BaseRead DEF Loop
<1>5. CASE Destroy
  BY <1>5, BaseDestroy
<1>6. CASE \E o \in Offer : RequestData(o) \/ SourceWrites(o) \/ SourceCloses(o)
  BY <1>6, BaseRequest, BaseSource
<1>7. CASE UNCHANGED vars
  BY <1>1, <1>7 DEF vars
<1> QED
  BY <1>2, <1>3, <1>4, <1>5, <1>6, <1>7 DEF Next

-----------------------------------------------------------------------------
(* Every request is answered once *)

\* The handler of an offer is called: what was asked for is answered.
LEMMA AnswerOnce ==
  ASSUME ~FreeInHandler, BaseInv, HandlerOnce, call = NoCall,
         NEW o \in Offer, data[o].handler,
         NEW from \in {"read", "select", "quit"}, NEW arg, CallHandler(o, from, arg),
         UNCHANGED <<data, asked>>
  PROVE  HandlerOnce'
<1>1. call'.offer = o
  BY CallBase
<1>2. call.offer = None /\ None \notin Offer
  BY OfferAssumption DEF NoCall, Call
<1>3. answered' = [answered EXCEPT ![o] = @ + 1]
  BY DEF CallHandler
<1> QED
  BY <1>1, <1>2, <1>3 DEF HandlerOnce, BaseInv, TypeOK

\* An offer nobody waits for is freed.
LEMMA FreeOnce ==
  ASSUME BaseInv, HandlerOnce, NEW o \in Offer, Freed(o), UNCHANGED <<asked, answered>>,
         \/ ~data[o].handler /\ UNCHANGED call
         \/ call.offer = o /\ call' = NoCall
  PROVE  HandlerOnce'
<1>1. /\ ~data'[o].handler
      /\ \A p \in Offer \ {o} : data'[p] = data[p]
  BY FreedBase
<1>2. NoCall.offer = None /\ None \notin Offer
  BY OfferAssumption DEF NoCall, Call
<1> QED
  BY <1>1, <1>2 DEF HandlerOnce, BaseInv, TypeOK

LEMMA HandlerStep ==
  ASSUME ~FreeInHandler, BaseInv, HandlerOnce, [Next]_vars
  PROVE  HandlerOnce'
<1>1. CASE UNCHANGED <<data, call, asked, answered>>
  BY <1>1 DEF HandlerOnce
<1>2. CASE \/ \E g \in Globals : HandleGlobal(g)
           \/ Create \/ Wakeup \/ SendNoSelection \/ \E o \in Offer : SendOffer(o)
  BY <1>1, <1>2 DEF HandleGlobal, Create, Wakeup, SendNoSelection, SendOffer, SendEvents,
                    offerVars, appVars
<1>3. CASE \/ Dispatch \/ Poll \/ Dispatched \/ ClearWakeup
           \/ EndEvents \/ DataOffer \/ DataDrag
  BY <1>1, <1>3 DEF Dispatch, Poll, Dispatched, ClearWakeup, EndEvents, DataOffer, DataDrag,
                    offerVars, appVars
<1>4. CASE DataSelection
  <2> DEFINE new == Head(events).offer
  <2>1. call = NoCall /\ UNCHANGED asked /\ selection \in Offer \cup {None}
    BY <1>4 DEF DataSelection, NextEvent, Handling, Quiet, BaseInv, TypeOK
  <2>2. CASE selection = None
    BY <1>1, <1>4, <2>2 DEF DataSelection
  <2>3. CASE selection # None /\ data[selection].handler
    <3>1. CallHandler(selection, "select", new) /\ UNCHANGED data
      BY <1>4, <2>3 DEF DataSelection, DestroyOffer
    <3> QED
      BY <2>1, <2>3, <3>1, AnswerOnce
  <2>4. CASE selection # None /\ ~data[selection].handler
    <3>1. Freed(selection) /\ UNCHANGED <<call, answered>>
      BY <1>4, <2>4 DEF DataSelection, DestroyOffer
    <3> QED
      BY <2>1, <2>4, <3>1, FreeOnce
  <2> QED
    BY <2>2, <2>3, <2>4
<1>5. CASE HandlerReturns
  <2>1. /\ call.offer \in Offer /\ Freed(call.offer) /\ call' = NoCall
        /\ UNCHANGED <<asked, answered>>
    BY <1>5 DEF HandlerReturns, BaseInv, TypeOK, appVars
  <2> QED
    BY <2>1, FreeOnce
<1>6. ASSUME NEW o \in Offer, ReadData(o)
      PROVE  HandlerOnce'
  <2>1. \A p \in Offer : data'[p].handler = data[p].handler
    BY <1>6 DEF ReadData, BaseInv, TypeOK, OfferData
  <2> QED
    BY <1>6, <2>1 DEF ReadData, HandlerOnce, appVars
<1>7. ASSUME NEW o \in Offer, EndRead(o)
      PROVE  HandlerOnce'
  <2>1. PICK arg : CallHandler(o, "read", arg)
    BY <1>7 DEF EndRead
  <2>2. call = NoCall /\ data[o].handler /\ UNCHANGED <<data, asked>>
    BY <1>7 DEF EndRead, Handling, Quiet, BaseInv, WaitInv, offerVars
  <2> QED
    BY <2>1, <2>2, AnswerOnce
<1>8. CASE Destroy
  <2>1. call = NoCall /\ UNCHANGED <<data, asked>>
    BY <1>8 DEF Destroy, Quiet
  <2> DEFINE waiting == {o \in listed : data[o].handler}
  <2>2. CASE waiting = {}
    BY <1>1, <1>8, <2>1, <2>2 DEF Destroy
  <2>3. CASE waiting # {}
    <3>1. PICK o \in waiting : CallHandler(o, "quit", None)
      BY <1>8, <2>3 DEF Destroy
    <3>2. o \in Offer /\ data[o].handler
      BY DEF BaseInv, TypeOK
    <3> HIDE DEF waiting
    <3> QED
      BY <2>1, <3>1, <3>2, AnswerOnce
  <2> QED
    BY <2>2, <2>3
<1>9. ASSUME NEW o \in Offer, RequestData(o)
      PROVE  HandlerOnce'
  <2>1. /\ ~data[o].handler /\ data'[o].handler
        /\ \A p \in Offer \ {o} : data'[p] = data[p]
    BY <1>9 DEF RequestData, BaseInv, TypeOK, NoData
  <2>2. call.offer # o
    BY <2>1, OfferAssumption DEF BaseInv, WaitInv, NoCall, Call
  <2>3. asked' = [asked EXCEPT ![o] = @ + 1] /\ UNCHANGED <<call, answered>>
    BY <1>9 DEF RequestData
  <2> QED
    BY <2>1, <2>2, <2>3 DEF HandlerOnce, BaseInv, TypeOK
<1>10. ASSUME NEW o \in Offer, SourceWrites(o) \/ SourceCloses(o)
       PROVE  HandlerOnce'
  <2>1. \A p \in Offer : data'[p].handler = data[p].handler
    BY <1>10, BaseSource
  <2> QED
    BY ZenonT(30), <1>10, <2>1 DEF SourceWrites, SourceCloses, SourceStep, HandlerOnce, appVars
<1>11. CASE UNCHANGED vars
  BY <1>1, <1>11 DEF vars, offerVars, appVars
<1> QED
  BY <1>2, <1>3, <1>4, <1>5, <1>6, <1>7, <1>8, <1>9, <1>10, <1>11 DEF Next, Loop

\* Types are correct, and the offers whose data is still awaited are those with
\* a handler: the bookkeeping of data_offer_data, data_pipe_cb and
\* data_offer_destroy.
THEOREM TypesSafe == Spec => [](BaseInv /\ EventInv)
<1>1. Init => BaseInv /\ EventInv
  BY BaseInit, EventInit
<1>2. BaseInv /\ EventInv /\ [Next]_vars => (BaseInv /\ EventInv)'
  BY BaseStep, EventStep
<1> QED
  BY <1>1, <1>2, PTL DEF Spec

\* Each data request is answered once, by the end of the data, an error, a new
\* selection or the end of the display, when no handler destroys its offer.
THEOREM HandlersOnce ==
  ASSUME ~FreeInHandler
  PROVE  Spec => []HandlerOnce
<1>1. Init => HandlerOnce
  BY DEF Init, HandlerOnce, NoData
<1>2. BaseInv /\ HandlerOnce /\ [Next]_vars => HandlerOnce'
  BY HandlerStep
<1> QED
  BY <1>1, <1>2, TypesSafe, PTL DEF Spec

-----------------------------------------------------------------------------
(* No offer is leaked or lost *)

\* What is left of the events when the first is taken.
LEMMA EventsLeft ==
  ASSUME EventInv, events # <<>>, events' = Tail(events)
  PROVE  /\ Head(events) = events[1] /\ Head(events) \in Event /\ 1 \in 1..Len(events)
         /\ \A i \in 1..Len(events') : events'[i] = events[i + 1] /\ i + 1 \in 1..Len(events)
         /\ \A i \in 1..Len(events) :
              i = 1 \/ (i - 1 \in 1..Len(events') /\ events'[i - 1] = events[i])
         /\ \A on, o : Coming(on, o) => Head(events) = Ev(on, o) \/ Coming(on, o)'
<1>1. /\ Head(events) = events[1] /\ Head(events) \in Event /\ Len(events) \in Nat \ {0}
      /\ Len(events') = Len(events) - 1
      /\ \A i \in 1..Len(events) - 1 : events'[i] = events[i + 1]
  BY TailEvents DEF EventInv
<1>2. \A i \in 1..Len(events) :
        i = 1 \/ (i - 1 \in 1..Len(events') /\ events'[i - 1] = events[i])
  BY <1>1
<1>3. ASSUME NEW on, NEW o, Coming(on, o)
      PROVE  Head(events) = Ev(on, o) \/ Coming(on, o)'
  <2>1. PICK i \in 1..Len(events) : events[i] = Ev(on, o)
    BY <1>3 DEF Coming
  <2> QED
    BY <2>1, <1>1, <1>2 DEF Coming, Ev
<1> QED
  BY <1>1, <1>2, <1>3

\* The selections that are left are still to come, and no later than before, when
\* the first event leaves what they depend on as it was or is of another offer.
LEMMA SelectionsLeft ==
  ASSUME EventInv, NewSelections, Serving, events # <<>>, events' = Tail(events),
         NEW i \in 1..Len(events'), events'[i].on = "select", events'[i].offer # None
  PROVE  /\ events'[i].offer # selection
         /\ call.from = "select" => events'[i].offer # call.arg
         /\ events'[i] # Head(events)
         /\ \/ events'[i].offer \in listed
            \/ Head(events) = Ev("offer", events'[i].offer)
            \/ \E j \in 1..Len(events') : j < i /\ events'[j] = Ev("offer", events'[i].offer)
<1>1. /\ Head(events) = events[1] /\ 1 \in 1..Len(events)
      /\ events'[i] = events[i + 1] /\ i + 1 \in 1..Len(events)
  BY EventsLeft
<1>2. events'[i] # Head(events)
  BY <1>1 DEF EventInv
<1>3. /\ events'[i].offer # selection
      /\ call.from = "select" => events'[i].offer # call.arg
      /\ \/ events'[i].offer \in listed
         \/ \E j \in 1..Len(events) : j < i + 1 /\ events[j] = Ev("offer", events'[i].offer)
  BY <1>1 DEF NewSelections
<1>4. ASSUME NEW j \in 1..Len(events), j < i + 1, events[j] = Ev("offer", events'[i].offer)
      PROVE  \/ Head(events) = Ev("offer", events'[i].offer)
             \/ \E k \in 1..Len(events') : k < i /\ events'[k] = Ev("offer", events'[i].offer)
  <2>1. CASE j = 1
    BY <2>1, <1>1, <1>4
  <2>2. CASE j # 1
    <3>1. j - 1 \in 1..Len(events') /\ events'[j - 1] = events[j] /\ j - 1 < i
      BY <2>2, <1>4, EventsLeft
    <3> QED
      BY <3>1, <1>4
  <2> QED
    BY <2>1, <2>2
<1> QED
  BY <1>2, <1>3, <1>4

LEMMA OfferInit == Init => OfferInv
  BY DEF Init, OfferInv, NewSelections, ListInv, CallInv, KeptInv, NoCall, Call

\* Events, the list, the selection and the call are left alone.
LEMMA OfferSame ==
  ASSUME OfferInv, UNCHANGED <<at, listed, selection, call, events, met>>
  PROVE  OfferInv'
BY DEF OfferInv, NewSelections, ListInv, CallInv, KeptInv, Coming, Serving

\* A handler is called, or the event loop goes on, with no other in its way.
LEMMA OfferIdle ==
  ASSUME OfferInv, UNCHANGED <<listed, selection, events, met>>,
         call.from # "select", call'.from \in {"none", "read"}, call.from # "quit",
         at' # "start",
         at' = "gone" => listed = {} /\ selection = None,
         at # "gone"
  PROVE  OfferInv'
BY DEF OfferInv, NewSelections, ListInv, CallInv, KeptInv, Coming, Serving

LEMMA OfferDataOffer ==
  ASSUME BaseInv, EventInv, OfferInv, DataOffer
  PROVE  OfferInv'
<1> DEFINE o1 == Head(events).offer
<1>1. /\ at = "run" /\ call = NoCall /\ events # <<>> /\ events' = Tail(events)
      /\ Head(events).on = "offer" /\ listed' = listed \cup {o1}
      /\ UNCHANGED <<at, selection, call, met>>
  BY DEF DataOffer, NextEvent, Handling, Quiet
<1>2. call.from = "none" /\ Serving /\ Serving'
  BY <1>1 DEF NoCall, Call, Serving
<1>3. /\ o1 # None /\ Head(events) = Ev("offer", o1)
      /\ met[o1] = "drag" \/ Coming("select", o1)
      /\ met[o1] # "none"
  BY <1>1, EventsLeft DEF EventInv, Event, Ev, Coming
<1>4. NewSelections'
  <2> SUFFICES ASSUME NEW i \in 1..Len(events'), events'[i].on = "select",
                      events'[i].offer # None
               PROVE  /\ events'[i].offer # selection
                      /\ \/ events'[i].offer \in listed'
                         \/ \E j \in 1..Len(events') :
                              j < i /\ events'[j] = Ev("offer", events'[i].offer)
    BY <1>1, <1>2 DEF NewSelections
  <2>1. Head(events) = Ev("offer", events'[i].offer) => events'[i].offer = o1
    BY DEF Ev
  <2> QED
    BY <1>1, <1>2, <2>1, SelectionsLeft DEF OfferInv
<1>5. ListInv'
  BY <1>1, <1>2, <1>3 DEF OfferInv, ListInv
<1>6. CallInv'
  BY <1>1, <1>2 DEF OfferInv, CallInv
<1>7. KeptInv'
  <2> SUFFICES ASSUME NEW o \in listed' \ {selection}
               PROVE  Coming("select", o)' \/ met[o] = "drag"
    BY <1>1 DEF KeptInv
  <2>1. Coming("select", o) \/ met[o] = "drag"
    BY <1>1, <1>2, <1>3 DEF OfferInv, KeptInv
  <2>2. Head(events) # Ev("select", o)
    BY <1>1 DEF Ev
  <2> QED
    BY <1>1, <2>1, <2>2, EventsLeft
<1> QED
  BY <1>4, <1>5, <1>6, <1>7 DEF OfferInv

LEMMA OfferDrag ==
  ASSUME EventInv, OfferInv, DataDrag
  PROVE  OfferInv'
<1>1. /\ at = "run" /\ call = NoCall /\ events # <<>> /\ events' = Tail(events)
      /\ Head(events).on = "drag" /\ UNCHANGED <<at, listed, selection, call, met>>
  BY DEF DataDrag, NextEvent, Handling, Quiet, offerVars
<1>2. call.from = "none" /\ Serving /\ Serving'
  BY <1>1 DEF NoCall, Call, Serving
<1>3. \A on, o : Head(events) = Ev(on, o) => on = "drag"
  BY <1>1 DEF Ev
<1>4. NewSelections'
  <2> SUFFICES ASSUME NEW i \in 1..Len(events'), events'[i].on = "select",
                      events'[i].offer # None
               PROVE  /\ events'[i].offer # selection
                      /\ \/ events'[i].offer \in listed
                         \/ \E j \in 1..Len(events') :
                              j < i /\ events'[j] = Ev("offer", events'[i].offer)
    BY <1>1, <1>2 DEF NewSelections
  <2>1. Head(events) # Ev("offer", events'[i].offer)
    BY <1>3
  <2> QED
    BY <1>1, <1>2, <2>1, SelectionsLeft DEF OfferInv
<1>5. KeptInv'
  <2> SUFFICES ASSUME NEW o \in listed \ {selection}
               PROVE  Coming("select", o)' \/ met[o] = "drag"
    BY <1>1 DEF KeptInv
  <2>1. Coming("select", o) \/ met[o] = "drag"
    BY <1>1, <1>2 DEF OfferInv, KeptInv
  <2> QED
    BY <1>1, <1>3, <2>1, EventsLeft
<1>6. ListInv' /\ CallInv'
  BY <1>1, <1>2 DEF OfferInv, ListInv, CallInv
<1> QED
  BY <1>4, <1>5, <1>6 DEF OfferInv

\* A new selection takes the place of the old one.
LEMMA OfferSelection ==
  ASSUME BaseInv, EventInv, OfferInv, DataSelection
  PROVE  OfferInv'
<1> USE OfferAssumption
<1> DEFINE new == Head(events).offer
<1>1. /\ at = "run" /\ call = NoCall /\ events # <<>> /\ events' = Tail(events)
      /\ Head(events).on = "select" /\ UNCHANGED <<at, met>>
  BY DEF DataSelection, NextEvent, Handling, Quiet
<1>2. call.from = "none" /\ Serving /\ listed \subseteq Offer
  BY <1>1 DEF NoCall, Call, Serving, BaseInv, TypeOK
<1>3. /\ Head(events) = Ev("select", new)
      /\ new # None => new # selection /\ new \in listed /\ met[new] # "none"
  <2>1. Head(events) = events[1] /\ Head(events) \in Event /\ 1 \in 1..Len(events)
    BY <1>1, EventsLeft
  <2>2. new # None => new # selection /\ met[new] = "select"
    BY <1>1, <1>2, <2>1 DEF OfferInv, NewSelections, EventInv
  <2>3. new # None => new \in listed
    BY <1>1, <1>2, <2>1 DEF OfferInv, NewSelections
  <2>4. Head(events) = Ev("select", new)
    BY <1>1, <2>1 DEF Event, Ev
  <2> QED
    BY <2>2, <2>3, <2>4
\* The selections left are of other offers.
<1>4. ASSUME NEW i \in 1..Len(events'), events'[i].on = "select", events'[i].offer # None
      PROVE  /\ events'[i].offer # selection /\ events'[i].offer # new
             /\ \/ events'[i].offer \in listed \ {selection}
                \/ \E j \in 1..Len(events') :
                     j < i /\ events'[j] = Ev("offer", events'[i].offer)
  <2>1. events'[i] = Ev("select", events'[i].offer)
    <3>1. events'[i] \in Event
      BY <1>1, EventsLeft DEF EventInv
    <3> QED
      BY <3>1, <1>4 DEF Event, Ev
  <2>2. events'[i] # Head(events)
    BY <1>1, <1>2, <1>4, SelectionsLeft DEF OfferInv
  <2>3. events'[i].offer # new
    BY <1>3, <2>1, <2>2
  <2>4. Head(events) # Ev("offer", events'[i].offer)
    BY <1>1 DEF Ev
  <2> QED
    BY <1>1, <1>2, <1>4, <2>3, <2>4, SelectionsLeft DEF OfferInv
<1>5. ASSUME NEW o \in listed \ {selection}
      PROVE  Coming("select", o)' \/ o = new \/ met[o] = "drag"
  <2>1. Coming("select", o) \/ met[o] = "drag"
    BY <1>2 DEF OfferInv, KeptInv
  <2>2. Head(events) = Ev("select", o) => o = new
    BY DEF Ev
  <2> QED
    BY <1>1, <2>1, <2>2, EventsLeft
<1>6. selection \in listed \cup {None}
  BY <1>2 DEF OfferInv, CallInv
<1>7. CASE /\ listed' = listed \ {selection} /\ selection' = new /\ UNCHANGED call
  <2>1. Serving'
    BY <1>1, <1>2, <1>7 DEF Serving
  <2>2. NewSelections'
    BY <1>2, <1>4, <1>7 DEF NewSelections
  <2>3. KeptInv'
    BY <1>1, <1>5, <1>7 DEF KeptInv
  <2>4. CallInv'
    BY <1>2, <1>3, <1>7 DEF CallInv
  <2>5. ListInv'
    BY <1>1, <1>3, <1>7, <2>1 DEF OfferInv, ListInv
  <2> QED
    BY <2>2, <2>3, <2>4, <2>5 DEF OfferInv
<1>8. CASE /\ listed' = listed \ {selection} /\ UNCHANGED selection
           /\ selection \in Offer /\ CallHandler(selection, "select", new)
  <2>1. call'.offer = selection /\ call'.from = "select" /\ call'.arg = new
    BY <1>8, CallBase
  <2>2. Serving'
    BY <1>1, <2>1 DEF Serving
  <2>3. NewSelections'
    BY <1>4, <1>8, <2>1 DEF NewSelections
  <2>4. KeptInv'
    BY <1>1, <1>5, <1>8, <2>1 DEF KeptInv
  <2>5. CallInv'
    BY <1>1, <1>3, <1>8, <2>1 DEF CallInv
  <2>6. ListInv'
    BY <1>1, <1>8, <2>2 DEF OfferInv, ListInv
  <2> QED
    BY <2>3, <2>4, <2>5, <2>6 DEF OfferInv
<1>9. CASE selection = None
  <2>1. listed' = listed /\ selection' = new /\ UNCHANGED call
    BY <1>9 DEF DataSelection
  <2>2. listed \ {selection} = listed
    BY <1>2, <1>9
  <2> QED
    BY <2>1, <2>2, <1>7
<1>10. CASE selection # None
  <2>1. /\ listed' = listed \ {selection}
        /\ IF data[selection].handler
             THEN CallHandler(selection, "select", new) /\ selection' = selection
             ELSE UNCHANGED call /\ selection' = new
    BY <1>10 DEF DataSelection, DestroyOffer
  <2>2. selection \in Offer
    BY <1>2, <1>6, <1>10
  <2> HIDE DEF new
  <2> QED
    BY <2>1, <2>2, <1>7, <1>8
<1> QED
  BY <1>9, <1>10

LEMMA OfferReturns ==
  ASSUME BaseInv, OfferInv, HandlerReturns
  PROVE  OfferInv'
<1>1. /\ call # NoCall /\ call' = NoCall /\ call'.from = "none"
      /\ UNCHANGED <<listed, events, met>>
      /\ selection' = IF call.from = "select" THEN call.arg ELSE selection
      /\ at' = IF call.from = "quit" THEN "gone" ELSE at
  BY DEF HandlerReturns, NoCall, Call
<1>2. listed \subseteq Offer /\ None \notin Offer
  BY OfferAssumption DEF BaseInv, TypeOK
<1>3. CASE call.from = "select"
  <2>1. /\ at = "run" /\ UNCHANGED at /\ selection' = call.arg
        /\ selection \notin listed /\ call.arg \in listed \cup {None}
    BY <1>1, <1>3 DEF OfferInv, CallInv
  <2>2. Serving /\ Serving'
    BY <1>1, <1>3, <2>1 DEF Serving
  <2>3. NewSelections'
    BY <1>1, <1>3, <2>1, <2>2 DEF OfferInv, NewSelections
  <2>4. ListInv'
    BY <1>1, <2>1, <2>2 DEF OfferInv, ListInv
  <2>5. KeptInv'
    BY <1>1, <1>3, <2>1 DEF OfferInv, KeptInv, Coming
  <2>6. CallInv'
    BY <1>1, <2>1 DEF CallInv
  <2> QED
    BY <2>3, <2>4, <2>5, <2>6 DEF OfferInv
<1>4. CASE call.from # "select"
  <2>1. Serving' <=> Serving
    BY <1>1, <1>4 DEF Serving
  <2>2. NewSelections'
    BY <1>1, <1>4, <2>1 DEF OfferInv, NewSelections
  <2>3. ListInv'
    BY <1>1, <1>4, <2>1 DEF OfferInv, ListInv
  <2>4. KeptInv'
    BY <1>1, <1>4 DEF OfferInv, KeptInv, Coming
  <2>5. CallInv'
    BY <1>1, <1>4 DEF OfferInv, CallInv
  <2> QED
    BY <2>2, <2>3, <2>4, <2>5 DEF OfferInv
<1> QED
  BY <1>3, <1>4

LEMMA OfferDestroy ==
  ASSUME BaseInv, OfferInv, Destroy
  PROVE  OfferInv'
<1>1. /\ at = "app" /\ call.from = "none" /\ listed' = {} /\ selection' = None
      /\ UNCHANGED <<events, met>>
  BY DEF Destroy, Quiet, NoCall, Call
<1>2. ~Serving' /\ call'.from # "select"
  <2> DEFINE waiting == {o \in listed : data[o].handler}
  <2>1. CASE waiting = {}
    BY <1>1, <2>1 DEF Destroy, Serving
  <2>2. CASE waiting # {}
    <3>1. PICK o \in waiting : CallHandler(o, "quit", None)
      BY <2>2 DEF Destroy
    <3>2. o \in Offer
      BY DEF BaseInv, TypeOK
    <3>3. call'.from = "quit"
      BY <3>1, <3>2, CallBase
    <3> QED
      BY <3>3 DEF Serving
  <2> QED
    BY <2>1, <2>2
<1> QED
  BY <1>1, <1>2 DEF OfferInv, NewSelections, ListInv, CallInv, KeptInv

\* The compositor introduces an offer once.
LEMMA OfferSent ==
  ASSUME BaseInv, EventInv, OfferInv, NEW o \in Offer, SendOffer(o)
  PROVE  OfferInv'
<1>1. PICK on \in {"select", "drag"} :
        /\ met' = [met EXCEPT ![o] = on]
        /\ events' = events \o <<Ev("offer", o), Ev(on, o)>>
  BY DEF SendOffer, SendEvents
<1>2. /\ met[o] = "none" /\ met'[o] # "none"
      /\ \A p \in Offer \ {o} : met'[p] = met[p]
      /\ UNCHANGED <<at, listed, selection, call>>
  BY <1>1 DEF SendOffer, SendEvents, EventInv, offerVars
<1>3. listed \subseteq Offer /\ selection \in Offer \cup {None} /\ None \notin Offer
  BY OfferAssumption DEF BaseInv, TypeOK
<1>4. o \notin listed /\ o # selection /\ (call.from = "select" => o # call.arg)
  BY <1>2, <1>3 DEF OfferInv, ListInv, CallInv
<1> DEFINE n == Len(events)
<1>5. <<Ev("offer", o), Ev(on, o)>> \in Seq(Event) /\ Len(<<Ev("offer", o), Ev(on, o)>>) = 2
  BY DEF Event, Ev, EventOn
<1>6. /\ n \in Nat /\ Len(events') = n + 2
      /\ \A i \in 1..n : events'[i] = events[i]
      /\ events'[n + 1] = Ev("offer", o) /\ events'[n + 2] = Ev(on, o)
  BY <1>1, <1>5, MoreEvents DEF EventInv
<1> HIDE DEF n
<1>7. NewSelections'
  <2> SUFFICES ASSUME NEW i \in 1..n + 2, Serving,
                      events'[i].on = "select", events'[i].offer # None
               PROVE  /\ events'[i].offer # selection
                      /\ call.from = "select" => events'[i].offer # call.arg
                      /\ \/ events'[i].offer \in listed
                         \/ \E j \in 1..n + 2 :
                              j < i /\ events'[j] = Ev("offer", events'[i].offer)
    BY <1>2, <1>6 DEF NewSelections, Serving
  <2>1. CASE i \in 1..n
    BY <2>1, <1>6 DEF OfferInv, NewSelections, n
  <2>2. CASE i = n + 1
    BY <2>2, <1>6 DEF Ev
  <2>3. CASE i = n + 2
    <3>1. events'[i].offer = o /\ n + 1 \in 1..n + 2 /\ n + 1 < i
      BY <2>3, <1>6 DEF Ev
    <3> QED
      BY <3>1, <1>4, <1>6
  <2> QED
    BY <2>1, <2>2, <2>3, <1>6
<1>8. ListInv'
  BY <1>2, <1>3, <1>4 DEF OfferInv, ListInv, Serving
<1>9. CallInv'
  BY <1>2 DEF OfferInv, CallInv
<1>10. KeptInv'
  <2>1. \A p : Coming("select", p) => Coming("select", p)'
    BY <1>6 DEF Coming, n
  <2> QED
    BY <2>1, <1>2, <1>3, <1>4 DEF OfferInv, KeptInv
<1> QED
  BY <1>7, <1>8, <1>9, <1>10 DEF OfferInv

LEMMA OfferNoneSent ==
  ASSUME EventInv, OfferInv, SendNoSelection
  PROVE  OfferInv'
<1>1. /\ events = <<>> /\ events' = events \o <<Ev("select", None)>>
      /\ UNCHANGED <<at, listed, selection, call, met>>
  BY DEF SendNoSelection, SendEvents, offerVars
<1>2. <<Ev("select", None)>> \in Seq(Event) /\ Len(<<Ev("select", None)>>) = 1
  BY DEF Event, Ev, EventOn
<1>3. Len(events') = 1 /\ events'[1] = Ev("select", None)
  BY <1>1, <1>2, MoreEvents DEF EventInv
<1>4. NewSelections'
  BY <1>3 DEF NewSelections, Ev
<1>5. KeptInv'
  BY <1>1 DEF OfferInv, KeptInv, Coming
<1>6. ListInv' /\ CallInv'
  BY <1>1 DEF OfferInv, ListInv, CallInv, Serving
<1> QED
  BY <1>4, <1>5, <1>6 DEF OfferInv

LEMMA OfferStep ==
  ASSUME BaseInv, EventInv, OfferInv, [Next]_vars
  PROVE  OfferInv'
<1>1. CASE UNCHANGED <<at, offerVars, call, events, met>>
  BY <1>1, OfferSame DEF offerVars
<1>2. CASE \/ \E g \in Globals : HandleGlobal(g)
           \/ Wakeup \/ ClearWakeup \/ EndEvents \/ UNCHANGED vars
  BY <1>1, <1>2 DEF HandleGlobal, Wakeup, ClearWakeup, EndEvents, vars
<1>3. CASE Create
  <2>1. /\ at = "start" /\ at' \in {"app", "gone"}
        /\ UNCHANGED <<listed, selection, call, events, met>>
    BY <1>3 DEF Create, offerVars
  <2>2. call.from \in {"none", "read"}
    BY <2>1 DEF BaseInv, TypeOK, WaitInv, OfferInv, CallInv
  <2> QED
    BY <2>1, <2>2, OfferIdle DEF OfferInv, ListInv
<1>4. CASE Dispatch \/ Poll \/ Dispatched
  <2>1. /\ at \in {"app", "poll", "run"} /\ at' \in {"app", "poll", "run"}
        /\ UNCHANGED <<listed, selection, call, events, met>>
    BY <1>4 DEF Dispatch, Poll, Dispatched, offerVars
  <2>2. call.from \in {"none", "read"}
    BY <1>4, <2>1 DEF Dispatch, Poll, Dispatched, Quiet, NoCall, Call, BaseInv, TypeOK,
                      WaitInv, OfferInv, CallInv
  <2> QED
    BY <2>1, <2>2, OfferIdle
<1>5. ASSUME NEW o \in Offer, ReadData(o) \/ RequestData(o) \/ SourceWrites(o) \/ SourceCloses(o)
      PROVE  OfferInv'
  BY <1>5, OfferSame DEF ReadData, RequestData, SourceWrites, SourceCloses, SourceStep
<1>6. ASSUME NEW o \in Offer, EndRead(o)
      PROVE  OfferInv'
  <2>1. PICK arg : CallHandler(o, "read", arg)
    BY <1>6 DEF EndRead
  <2>2. call'.from = "read"
    BY <2>1, CallBase
  <2>3. /\ at = "run" /\ call.from = "none"
        /\ UNCHANGED <<at, listed, selection, events, met>>
    BY <1>6 DEF EndRead, Handling, Quiet, NoCall, Call, offerVars
  <2> QED
    BY <2>2, <2>3, OfferIdle
<1>7. CASE DataOffer \/ DataDrag \/ DataSelection \/ HandlerReturns \/ Destroy
  BY <1>7, OfferDataOffer, OfferDrag, OfferSelection, OfferReturns, OfferDestroy
<1>8. CASE SendNoSelection \/ \E o \in Offer : SendOffer(o)
  BY <1>8, OfferNoneSent, OfferSent
<1> QED
  BY <1>2, <1>3, <1>4, <1>5, <1>6, <1>7, <1>8 DEF Next, Loop

LEMMA OfferKept ==
  ASSUME BaseInv, EventInv, OfferInv
  PROVE  OffersKept
<1>1. call = NoCall => call.from = "none"
  BY DEF NoCall, Call
<1>2. DOMAIN events = 1..Len(events)
  BY DEF EventInv
<1> QED
  BY <1>1, <1>2 DEF OfferInv, CallInv, KeptInv, Coming, OffersKept

\* The clipboard's offer exists, and every other offer in data_offer_list is a
\* drag's or about to be selected: data_dev_selection leaks and loses none.
THEOREM OffersSafe == Spec => []OffersKept
<1>1. Init => OfferInv
  BY OfferInit
<1>2. BaseInv /\ EventInv /\ OfferInv /\ [Next]_vars => OfferInv'
  BY OfferStep
<1>3. BaseInv /\ EventInv /\ OfferInv => OffersKept
  BY OfferKept
<1> QED
  BY <1>1, <1>2, <1>3, TypesSafe, PTL DEF Spec
=============================================================================

------------------------------ MODULE WlDisplay ------------------------------
(***************************************************************************)
(* The display of the Wayland backend (src/swa/wayland.c): binding the     *)
(* compositor's globals, the event loop and its wakeups, the clipboard's   *)
(* data offers and the data read from them through pipes.                  *)
(*                                                                         *)
(* swa_pipe sets O_NONBLOCK with F_SETFD, which ignores it, so a read of   *)
(* an empty pipe stops the thread; NonBlock is what it was meant to do.    *)
(* call is the data handler being run and the code that called it.  Bytes  *)
(* come in units; Chunk stands for 2048 and BufSize for the 128 of         *)
(* clear_wakeup.  fault names the first use of a freed offer; nothing      *)
(* follows it.                                                             *)
(***************************************************************************)
EXTENDS Integers, Sequences, FiniteSets

CONSTANTS
  Offer,          \* the data offers the compositor may introduce
  None,           \* the null pointer
  Announced,      \* the sets of globals a compositor may announce
  Bytes,          \* the units a source may send
  Chunk, BufSize, \* the sizes read at once from a data and the wakeup pipe
  NonBlock,       \* the pipes do not block
  ReadFails,      \* read may fail
  FreeInHandler,  \* the application destroys the offer in its data handler
  MaxWake,        \* bound on the wakeups that are pending
  MaxRequests     \* bound on the data requests of an offer

Globals == {"compositor", "shm", "seat", "data", "constraints", "relative"}

ASSUME OfferAssumption ==
  /\ {None, "display", "wakeup"} \cap Offer = {}
  /\ Announced \subseteq SUBSET Globals
ASSUME SizeAssumption ==
  /\ Bytes \subseteq Nat
  /\ {Chunk, BufSize, MaxWake, MaxRequests} \subseteq Nat \ {0}
ASSUME SwitchAssumption == {NonBlock, ReadFails, FreeInHandler} \subseteq BOOLEAN

VARIABLES
  unseen,     \* the globals announced and not handled yet
  bound,      \* the globals bound
  at,         \* the main thread: "start", "app", "poll", "run" or "gone"
  ready,      \* the event sources poll found ready and that were not handled yet
  listed,     \* data_offer_list
  selection,  \* dpy->selection
  data,       \* per offer: data.handler, n_bytes, the pipe and its source
  count,      \* readCount of data_pipe_cb
  call, fault,
  wake,       \* the bytes in the wakeup pipe
  events,     \* the compositor's events
  met,        \* per offer: what the compositor introduced it for
  asked, answered  \* per offer: requests made, handlers called

startVars == <<unseen, bound>>
offerVars == <<listed, selection, data>>
appVars == <<asked, answered>>
vars == <<startVars, at, ready, offerVars, count, call, fault, wake, events, met, appVars>>

-----------------------------------------------------------------------------
NoData == [handler |-> FALSE, n |-> 0, pipe |-> 0, left |-> 0, open |-> FALSE, sent |-> 0]

Ev(on, o) == [on |-> on, offer |-> o]
Call(o, from, arg) == [offer |-> o, from |-> from, arg |-> arg]
NoCall == Call(None, "none", None)

Init ==
  /\ unseen \in Announced
  /\ bound = {}
  /\ at = "start"
  /\ ready = {}
  /\ listed = {}
  /\ selection = None
  /\ data = [o \in Offer |-> NoData]
  /\ count = Chunk
  /\ call = NoCall
  /\ fault = "none"
  /\ wake = 0
  /\ events = <<>>
  /\ met = [o \in Offer |-> "none"]
  /\ asked = [o \in Offer |-> 0]
  /\ answered = [o \in Offer |-> 0]

-----------------------------------------------------------------------------
(* Starting *)

\* handle_global: the relative pointer manager is bound only while there are no
\* pointer constraints.
HandleGlobal(g) ==
  /\ at = "start"
  /\ g \in unseen
  /\ unseen' = unseen \ {g}
  /\ bound' = IF g = "relative" /\ "constraints" \in bound THEN bound ELSE bound \cup {g}
  /\ UNCHANGED <<at, ready, offerVars, count, call, fault, wake, events, met, appVars>>

\* swa_display_wl_create, after its round trips.
Create ==
  /\ at = "start"
  /\ unseen = {}
  /\ at' = IF "compositor" \in bound THEN "app" ELSE "gone"
  /\ UNCHANGED <<startVars, ready, offerVars, count, call, fault, wake, events, met,
                 appVars>>

HasDataDevice == at \notin {"start", "gone"} /\ {"data", "seat"} \subseteq bound

-----------------------------------------------------------------------------
(* The event loop *)

\* The sources poll reports: the connection, the wakeup pipe, the data pipes
\* with data or without a writer.
Ready ==
  (IF events # <<>> THEN {"display"} ELSE {})
    \cup (IF wake > 0 THEN {"wakeup"} ELSE {})
    \cup {o \in Offer : data[o].handler /\ (data[o].pipe > 0 \/ ~data[o].open)}

Quiet == call = NoCall /\ fault = "none"

\* display_dispatch waits in poll.
Dispatch ==
  /\ at = "app" /\ Quiet
  /\ at' = "poll"
  /\ UNCHANGED <<startVars, ready, offerVars, count, call, fault, wake, events, met,
                 appVars>>

Poll ==
  /\ at = "poll"
  /\ Ready # {}
  /\ at' = "run"
  /\ ready' = Ready
  /\ count' = Chunk
  /\ UNCHANGED <<startVars, offerVars, call, fault, wake, events, met, appVars>>

\* Every source found ready was handled.
Dispatched ==
  /\ at = "run" /\ Quiet
  /\ ready = {}
  /\ at' = "app"
  /\ UNCHANGED <<startVars, ready, offerVars, count, call, fault, wake, events, met,
                 appVars>>

\* The sources are handled one after the other, the display first.
Handling(source) ==
  /\ at = "run" /\ Quiet
  /\ source \in ready
  /\ source # "display" => "display" \notin ready
  /\ source \in Offer => "wakeup" \notin ready

\* Mutant: clear_wakeup reads until nothing comes.
ClearWakeupMutant ==
  /\ Handling("wakeup")
  /\ wake > 0 \/ NonBlock
  /\ wake' = IF wake > BufSize THEN wake - BufSize ELSE 0
  /\ ready' = IF wake > 0 THEN ready ELSE ready \ {"wakeup"}
  /\ UNCHANGED <<startVars, at, offerVars, count, call, fault, events, met, appVars>>

\* clear_wakeup reads again after it read as much as it asked for.
ClearWakeup ==
  /\ Handling("wakeup")
  /\ wake > 0 \/ NonBlock
  /\ wake' = IF wake > BufSize THEN wake - BufSize ELSE 0
  /\ ready' = IF wake >= BufSize THEN ready ELSE ready \ {"wakeup"}
  /\ UNCHANGED <<startVars, at, offerVars, count, call, fault, events, met, appVars>>

\* display_wakeup, called by any thread.
Wakeup ==
  /\ at \notin {"start", "gone"}
  /\ wake < MaxWake
  /\ wake' = wake + 1
  /\ UNCHANGED <<startVars, at, ready, offerVars, count, call, fault, events, met,
                 appVars>>

-----------------------------------------------------------------------------
(* Data offers *)

\* The data handler is called.  An application that destroys the offer in it
\* is called by data_offer_destroy again.
CallHandler(o, from, arg) ==
  /\ call' = Call(o, from, arg)
  /\ answered' = [answered EXCEPT ![o] = @ + (IF FreeInHandler THEN 2 ELSE 1)]

\* data_offer_destroy unlinks the offer and calls a handler that still waits;
\* Freed(o) follows when that returns, or at once.
Freed(o) ==
  /\ data' = [data EXCEPT ![o] = NoData]
  /\ ready' = ready \ {o}

DestroyOffer(o, from, arg) ==
  /\ listed' = listed \ {o}
  /\ IF data[o].handler
       THEN CallHandler(o, from, arg) /\ UNCHANGED <<data, ready>>
       ELSE Freed(o) /\ UNCHANGED <<call, answered>>

NextEvent(on) ==
  /\ Handling("display")
  /\ events # <<>>
  /\ Head(events).on = on
  /\ events' = Tail(events)

\* The connection has nothing more to read.
EndEvents ==
  /\ Handling("display")
  /\ events = <<>>
  /\ ready' = ready \ {"display"}
  /\ UNCHANGED <<startVars, at, offerVars, count, call, fault, wake, events, met, appVars>>

\* data_dev_data_offer.
DataOffer ==
  /\ NextEvent("offer")
  /\ listed' = listed \cup {Head(events).offer}
  /\ UNCHANGED <<startVars, at, ready, selection, data, count, call, fault, wake, met,
                 appVars>>

\* data_dev_enter, leave, motion and drop do nothing with their offer.
DataDrag ==
  /\ NextEvent("drag")
  /\ UNCHANGED <<startVars, at, ready, offerVars, count, call, fault, wake, met, appVars>>

\* Mutant: the old selection is only forgotten.
DataSelectionMutant ==
  /\ NextEvent("select")
  /\ selection' = Head(events).offer
  /\ UNCHANGED <<startVars, at, ready, listed, data, count, call, fault, wake, met,
                 appVars>>

\* data_dev_selection destroys the old selection first.
DataSelection ==
  /\ NextEvent("select")
  /\ LET new == Head(events).offer
     IN IF selection = None
          THEN selection' = new /\ UNCHANGED <<listed, data, ready, call, answered>>
          ELSE /\ DestroyOffer(selection, "select", new)
               /\ selection' = IF data[selection].handler THEN selection ELSE new
  /\ UNCHANGED <<startVars, at, count, fault, wake, met, asked>>

\* data_offer_data, on the offer display_get_clipboard returned.
RequestData(o) ==
  /\ at = "app" /\ fault = "none"
  /\ o = selection
  /\ ~data[o].handler
  /\ asked[o] < MaxRequests
  /\ asked' = [asked EXCEPT ![o] = @ + 1]
  /\ \E n \in Bytes :
       data' = [data EXCEPT ![o] = [NoData EXCEPT !.handler = TRUE, !.left = n,
                                                  !.open = TRUE, !.sent = n]]
  /\ UNCHANGED <<startVars, at, ready, listed, selection, count, call, fault, wake,
                 events, met, answered>>

\* One read of data_pipe_cb.  A short read is counted with the size of the
\* buffer, a full one not at all; nothing to read yet ends the loop.
ReadData(o) ==
  /\ Handling(o)
  /\ data[o].pipe > 0 \/ (NonBlock /\ data[o].open)
  /\ LET ret == IF data[o].pipe < count THEN data[o].pipe ELSE count
     IN /\ data' = [data EXCEPT ![o].pipe = @ - ret,
                                ![o].n = IF 0 < ret /\ ret < count THEN @ + count + ret
                                         ELSE @]
        /\ count' = IF ret = count THEN 2 * count ELSE count
        /\ ready' = IF ret = 0 THEN ready \ {o} ELSE ready
  /\ UNCHANGED <<startVars, at, listed, selection, call, fault, wake, events, met,
                 appVars>>

\* Mutant: a read that fails is given up without a word.
EndReadMutant(o) ==
  /\ Handling(o)
  /\ \/ /\ data[o].pipe = 0 /\ ~data[o].open
        /\ CallHandler(o, "read", data[o].n)
        /\ UNCHANGED <<ready, data>>
     \/ ReadFails /\ Freed(o) /\ UNCHANGED <<call, answered>>
  /\ UNCHANGED <<startVars, at, listed, selection, count, fault, wake, events, met, asked>>

\* The end of the data, or an error.
EndRead(o) ==
  /\ Handling(o)
  /\ \/ data[o].pipe = 0 /\ ~data[o].open /\ CallHandler(o, "read", data[o].n)
     \/ ReadFails /\ CallHandler(o, "read", 0)
  /\ UNCHANGED <<startVars, at, ready, offerVars, count, fault, wake, events, met, asked>>

\* Mutant: data_pipe_cb leaves the handler set.
HandlerReturnsMutant ==
  /\ call # NoCall /\ fault = "none"
  /\ call' = NoCall
  /\ ready' = ready \ {call.offer}
  /\ data' = [data EXCEPT ![call.offer] =
                IF call.from = "read" THEN [@ EXCEPT !.open = TRUE] ELSE NoData]
  /\ selection' = IF call.from = "select" THEN call.arg ELSE selection
  /\ at' = IF call.from = "quit" THEN "gone" ELSE at
  /\ UNCHANGED <<startVars, listed, count, fault, wake, events, met, appVars>>

\* The handler returns to data_pipe_cb or data_offer_destroy, which both go on
\* with the offer.
HandlerReturns ==
  /\ call # NoCall /\ fault = "none"
  /\ call' = NoCall
  /\ Freed(call.offer)
  /\ fault' = IF FreeInHandler THEN "freed offer" ELSE "none"
  /\ selection' = IF call.from = "select" THEN call.arg ELSE selection
  /\ at' = IF call.from = "quit" THEN "gone" ELSE at
  /\ UNCHANGED <<startVars, listed, count, wake, events, met, appVars>>

\* display_destroy destroys the offers, at most one of which is waited for.
Destroy ==
  /\ at = "app" /\ Quiet
  /\ listed' = {}
  /\ LET waiting == {o \in listed : data[o].handler}
     IN IF waiting = {}
          THEN at' = "gone" /\ UNCHANGED <<call, answered>>
          ELSE CallHandler(CHOOSE o \in waiting : TRUE, "quit", None) /\ UNCHANGED at
  /\ selection' = None
  /\ UNCHANGED <<startVars, ready, data, count, fault, wake, events, met, asked>>

-----------------------------------------------------------------------------
(* The compositor and the source of the data *)

SendEvents(new) ==
  /\ HasDataDevice /\ fault = "none"
  /\ events' = events \o new
  /\ UNCHANGED <<startVars, at, ready, offerVars, count, call, fault, wake, appVars>>

\* A new selection or drag is introduced by an offer; or there is none.
SendOffer(o) ==
  /\ met[o] = "none"
  /\ \E on \in {"select", "drag"} :
       /\ met' = [met EXCEPT ![o] = on]
       /\ SendEvents(<<Ev("offer", o), Ev(on, o)>>)

SendNoSelection ==
  /\ events = <<>> /\ selection # None
  /\ UNCHANGED met
  /\ SendEvents(<<Ev("select", None)>>)

SourceStep(o, new) ==
  /\ fault = "none"
  /\ data[o].handler /\ data[o].open
  /\ data' = [data EXCEPT ![o] = new]
  /\ UNCHANGED <<startVars, at, ready, listed, selection, count, call, fault, wake,
                 events, met, appVars>>

SourceWrites(o) ==
  \E n \in 1..data[o].left :
    SourceStep(o, [data[o] EXCEPT !.left = @ - n, !.pipe = @ + n])

SourceCloses(o) ==
  data[o].left = 0 /\ SourceStep(o, [data[o] EXCEPT !.open = FALSE])

-----------------------------------------------------------------------------
Loop ==
  \/ Dispatch \/ Poll \/ Dispatched \/ ClearWakeup
  \/ EndEvents \/ DataOffer \/ DataDrag \/ DataSelection \/ HandlerReturns
  \/ \E o \in Offer : ReadData(o) \/ EndRead(o)

Next ==
  \/ \E g \in Globals : HandleGlobal(g)
  \/ Create \/ Loop \/ Wakeup \/ Destroy \/ SendNoSelection
  \/ \E o \in Offer : RequestData(o) \/ SendOffer(o) \/ SourceWrites(o) \/ SourceCloses(o)

\* The application keeps dispatching, and the sources write what they have and
\* close their pipe.
Fairness ==
  /\ WF_vars(Loop)
  /\ \A o \in Offer : WF_vars(SourceWrites(o)) /\ WF_vars(SourceCloses(o))

Spec == Init /\ [][Next]_vars /\ Fairness

-----------------------------------------------------------------------------
(* Properties *)

\* A data handler is called once for each request: by the end of the data, an
\* error, or the end of its offer, and by no two of them.
HandlerOnce ==
  \A o \in Offer :
    asked[o] = answered[o] + (IF data[o].handler /\ call.offer # o THEN 1 ELSE 0)

\* The selection is an offer that exists, and no other exists but those of
\* drags and those whose selection is still to be handled.
OffersKept ==
  /\ call = NoCall => selection \in listed \cup {None}
  /\ \A o \in listed \ {selection} :
       \/ \E i \in DOMAIN events : events[i] = Ev("select", o)
       \/ call.from = "select" /\ call.arg = o
       \/ met[o] = "drag"

\* Data that was asked for arrives, unless the application leaves.
HandlerServed ==
  \A o \in Offer : asked[o] > answered[o] ~> (asked[o] = answered[o] \/ fault # "none")

\* A wakeup ends the dispatch it finds waiting.
WakeServed == at = "poll" /\ wake > 0 ~> at = "app" \/ fault # "none"

\* What the application is told it was sent is what was sent.
SizeExact ==
  call.from = "read" /\ ~ReadFails => call.arg = data[call.offer].sent

\* No offer is used after it was freed.
NoFault == fault = "none"
=============================================================================

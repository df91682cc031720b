------------------------------ MODULE EventBus ------------------------------
(***************************************************************************)
(* EventBus (events/bus.rs) over a bounded broadcast channel, and the      *)
(* MetricsHandler (events/handler.rs) that spawn_handler runs on one of    *)
(* its receivers.                                                          *)
(*                                                                         *)
(* The channel holds the last Capacity events.  A receiver is the number   *)
(* of them it has not read, and whether events it had not read were        *)
(* overwritten (the channel reports that once, as Lagged, and the receiver *)
(* then stands at the oldest event held).                                  *)
(***************************************************************************)
EXTENDS Naturals, Sequences, FiniteSets

CONSTANTS Subscribers,
          Capacity,      \* of the channel
          Nodes          \* node ids events may name

VARIABLES channel,         \* the events held, oldest first
          receivers,
          subscriberCount, \* EventBus::subscriber_count
          metrics          \* what each subscriber's MetricsHandler has counted

busVars == <<channel, receivers, subscriberCount, metrics>>

NoEvent   == [kind |-> "none"]
NoMetrics == [events |-> 0, completed |-> 0, errored |-> 0, saved |-> 0,
              executions |-> [n \in Nodes |-> 0], failures |-> [n \in Nodes |-> 0]]

\* Two parts are history: the receiver was there from the first event on and has
\* never lagged; and the last event it read.
Gone == [on |-> FALSE, unread |-> 0, overwritten |-> FALSE, lossless |-> TRUE, heard |-> NoEvent]

BusInit ==
  /\ channel = <<>>
  /\ receivers = [s \in Subscribers |-> Gone]
  /\ subscriberCount = 0
  /\ metrics = [s \in Subscribers |-> NoMetrics]

Newest == IF channel = <<>> THEN NoEvent ELSE channel[Len(channel)]

Smaller(a, b) == IF a < b THEN a ELSE b

-----------------------------------------------------------------------------
\* Publish these events, one after the other.
Publish(events) ==
  LET all == channel \o events
  IN  /\ channel' = SubSeq(all, Len(all) - Smaller(Capacity, Len(all)) + 1, Len(all))
      /\ receivers' = [s \in Subscribers |->
           LET r == receivers[s] IN
           IF ~r.on THEN [r EXCEPT !.lossless = FALSE]
           ELSE [r EXCEPT !.unread      = Smaller(@ + Len(events), Capacity),
                          !.overwritten = @ \/ r.unread + Len(events) > Capacity]]
      /\ UNCHANGED <<subscriberCount, metrics>>

Subscribe(s) ==
  /\ ~receivers[s].on
  /\ receivers' = [receivers EXCEPT ![s].on = TRUE]
  /\ subscriberCount' = subscriberCount + 1
  /\ UNCHANGED <<channel, metrics>>


\* The receiver, or the stream it was made into, is dropped, and its
\* handler with it.
Unsubscribe(s) ==
  /\ receivers[s].on
  /\ receivers' = [receivers EXCEPT ![s] = [Gone EXCEPT !.lossless = FALSE]]
  /\ subscriberCount' = subscriberCount - 1
  /\ metrics' = [metrics EXCEPT ![s] = NoMetrics]
  /\ UNCHANGED channel

\* Mutant: executions are counted when a node is entered.
CountedEarly(m, event) ==
  LET n == [m EXCEPT !.events = @ + 1]
  IN  CASE event.kind = "completed" -> [n EXCEPT !.completed = @ + 1]
        [] event.kind = "error"     -> [n EXCEPT !.errored = @ + 1]
        [] event.kind = "entered"   -> [n EXCEPT !.executions[event.node] = @ + 1]
        [] event.kind = "failed"    -> [n EXCEPT !.failures[event.node] = @ + 1]
        [] event.kind = "saved"     -> [n EXCEPT !.saved = @ + 1]
        [] OTHER                    -> n

\* MetricsHandler::handle
Counted(m, event) ==
  LET n == [m EXCEPT !.events = @ + 1]
  IN  CASE event.kind = "completed" -> [n EXCEPT !.completed = @ + 1]
        [] event.kind = "error"     -> [n EXCEPT !.errored = @ + 1]
        [] event.kind = "exited"    -> [n EXCEPT !.executions[event.node] = @ + 1]
        [] event.kind = "failed"    -> [n EXCEPT !.failures[event.node] = @ + 1]
        [] event.kind = "saved"     -> [n EXCEPT !.saved = @ + 1]
        [] OTHER                    -> n

\* Mutant: a receiver that lagged goes on with what is published from now on.
ReadFromNow(r, event) ==
  [r EXCEPT !.unread      = IF r.overwritten THEN 0 ELSE @ - 1,
            !.overwritten = FALSE,
            !.lossless    = @ /\ ~r.overwritten,
            !.heard       = event]

\* One event read; a lag is logged and the oldest event held comes next.
Read(r, event) ==
  [r EXCEPT !.unread      = @ - 1,
            !.overwritten = FALSE,
            !.lossless    = @ /\ ~r.overwritten,
            !.heard       = event]

\* EventReceiver::recv in spawn_handler's loop, and the handler.
Handle(s) ==
  /\ receivers[s].on /\ receivers[s].unread > 0
  /\ LET event == channel[Len(channel) - receivers[s].unread + 1]
     IN  /\ receivers' = [receivers EXCEPT ![s] = Read(@, event)]
         /\ metrics' = [metrics EXCEPT ![s] = Counted(@, event)]
  /\ UNCHANGED <<channel, subscriberCount>>

BusNext == \E s \in Subscribers : Subscribe(s) \/ Unsubscribe(s) \/ Handle(s)

\* A receiver's unread events are held, and the counter agrees with the
\* receivers that are there.
BusTypeOK ==
  /\ Len(channel) <= Capacity
  /\ \A s \in Subscribers : /\ receivers[s].unread <= Len(channel)
                            /\ receivers[s].unread > 0 => receivers[s].on
  /\ subscriberCount = Cardinality({s \in Subscribers : receivers[s].on})
=============================================================================

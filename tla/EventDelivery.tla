----------------------------- MODULE EventDelivery -----------------------------
(***************************************************************************)
(* The delivering half of EventBusService and the subscriptions of the     *)
(* three listeners.  Every subscribe() call has a queue of its own, which  *)
(* is exclusive: it goes with the connection of the process that asked for *)
(* it.  A message is acknowledged after its handler and never delivered    *)
(* again, whether the handler succeeded or threw.                          *)
(***************************************************************************)
EXTENDS EventBus, Sequences, Naturals

VARIABLE queues          \* queues[s]: what the exchange routed to s, in order

Subscriptions ==
  { <<"gateway", "driver.location_updated">>, <<"gateway", "trip.status_changed">>,
    <<"gateway", "trip.requested">>,          <<"payment", "trip.status_changed">>,
    <<"notification", "trip.status_changed">>, <<"notification", "identity.verified">>,
    <<"notification", "payment.completed">> }

QueuesInit == queues = [s \in Subscriptions |-> <<>>]

\* (faulty variant) queues bound with the pattern #
RoutedToAll(qs, service, event) ==
  [s \in Subscriptions |->
     IF {service, s[1]} \subseteq Connected THEN Append(qs[s], event) ELSE qs[s]]

\* A service without a channel sends nothing and has no queue.
Routed(qs, service, event) ==
  [s \in Subscriptions |->
     IF {service, s[1]} \subseteq Connected /\ s[2] = event.type
       THEN Append(qs[s], event) ELSE qs[s]]

Send(service, event) == /\ Publish(service, event)
                        /\ queues' = Routed(queues, service, event)

\* (faulty variant) a handler that awaits before it acts, so that the handler
\* of the next message may act first
ReadyUnordered(i) == TRUE

\* Messages are handed out in order.
Ready(i) == i = 1

Without(qs, s, i) ==
  [qs EXCEPT ![s] = SubSeq(@, 1, i - 1) \o SubSeq(@, i + 1, Len(@))]

\* The queues of a process that is started again.
Emptied(service) ==
  [s \in Subscriptions |-> IF s[1] = service THEN <<>> ELSE queues[s]]
================================================================================

------------------------------- MODULE EventBus --------------------------------
(***************************************************************************)
(* The publishing half of EventBusService.  A service whose connection to  *)
(* RabbitMQ failed at start-up has no channel, and its publish() returns   *)
(* without doing anything ("degraded mode"); a connected one hands the     *)
(* event to the topic exchange.  published is the set of events handed     *)
(* over so far; what the queues then do with them is not modelled here.    *)
(***************************************************************************)
CONSTANT Connected    \* the services whose onModuleInit opened a channel

VARIABLE published

\* EventType values used by the ride and payment services.
EventType == {"trip.requested", "trip.offer_declined", "trip.status_changed",
              "payment.completed"}

Event(type, trip, from, to) ==
  [type |-> type, trip |-> trip, from |-> from, to |-> to]

Publish(service, event) ==
  published' = IF service \in Connected THEN published \cup {event}
                                        ELSE published
================================================================================

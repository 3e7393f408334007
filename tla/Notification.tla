------------------------------ MODULE Notification ------------------------------
(***************************************************************************)
(* The notification service: NotificationEventListener's three handlers,   *)
(* which save a notification and push it to the user's devices, and the    *)
(* NotificationController's writes.  A delivery d is what one handler is   *)
(* doing; there is no prefetch limit, so any number of them run at once.   *)
(***************************************************************************)
EXTENDS EventDelivery

CONSTANTS Users, DeviceTokens

VARIABLES notifications, \* the notifications table, in order of insertion
          devices,       \* the active rows of device_tokens: user and token
          deliveries,    \* the handlers that run
          pushed,        \* history: which notification went to which device
          dropped        \* history: events lost to a failure or a restart

notifyVars == <<notifications, devices, deliveries, pushed, dropped>>

\* (faulty variant) no text for a completed trip
SilentlyCompleted == {"driver_assigned", "driver_arriving", "picked_up",
                      "in_progress", "paid", "cancelled"}

\* The keys of TRIP_STATUS_MESSAGES.
MessageStatus == {"driver_assigned", "driver_arriving", "picked_up",
                  "in_progress", "completed", "paid", "cancelled"}

\* Whether the handler of an event sends anything: the branch for a searching
\* trip's driver comes after the test for a message, which that status lacks.
HasMessage(event) ==
  event.type = "trip.status_changed" => event.to \in MessageStatus

NotifyInit == /\ notifications = <<>> /\ devices = {} /\ deliveries = {}
              /\ pushed = {} /\ dropped = {}

\* POST /notifications/device: INSERT ... ON CONFLICT DO UPDATE; no code
\* deactivates a token.
RegisterDevice(u, token) ==
  /\ devices' = devices \cup {<<u, token>>}
  /\ UNCHANGED <<notifications, deliveries, pushed, dropped, queues, published>>

\* PATCH /notifications/:id/read: another user's id is left alone.
MarkRead(u, id) ==
  /\ notifications' = [notifications EXCEPT ![id].read =
                         @ \/ notifications[id].event.user = u]
  /\ UNCHANGED <<devices, deliveries, pushed, dropped, queues, published>>

Deliver(s, i) ==
  LET event == queues[s][i] IN
  /\ s[1] = "notification" /\ Ready(i)
  /\ queues' = Without(queues, s, i)
  /\ deliveries' = IF HasMessage(event)
                     THEN deliveries \cup {[pc |-> "save", event |-> event, id |-> 0]}
                     ELSE deliveries
  /\ UNCHANGED <<notifications, devices, pushed, dropped, published>>

SaveNotification(d) ==
  /\ d \in deliveries /\ d.pc = "save"
  /\ notifications' = Append(notifications, [event |-> d.event, read |-> FALSE])
  /\ deliveries' = (deliveries \ {d}) \cup
                     {[d EXCEPT !.pc = "push", !.id = Len(notifications')]}
  /\ UNCHANGED <<devices, pushed, dropped, queues, published>>

\* getActiveTokens and sendToTokens, and the message is acknowledged.
PushNotification(d) ==
  /\ d \in deliveries /\ d.pc = "push"
  /\ pushed' = pushed \cup ({d.id} \X {row \in devices : row[1] = d.event.user})
  /\ deliveries' = deliveries \ {d}
  /\ UNCHANGED <<notifications, devices, dropped, queues, published>>

\* (faulty variant) nack(msg, false, true): the message is delivered again
Requeue(d) ==
  /\ d \in deliveries
  /\ deliveries' = deliveries \ {d}
  /\ queues' = [queues EXCEPT ![<<"notification", d.event.type>>] = <<d.event>> \o @]
  /\ UNCHANGED <<notifications, devices, pushed, dropped, published>>

\* A query throws; nack(msg, false, false) drops the message.
FailDelivery(d) ==
  /\ d \in deliveries
  /\ deliveries' = deliveries \ {d}
  /\ dropped' = dropped \cup {d.event}
  /\ UNCHANGED <<notifications, devices, pushed, queues, published>>

\* What was published to the old process's queues and not yet handled is lost.
RestartNotification ==
  /\ queues' = Emptied("notification")
  /\ deliveries' = {}
  /\ dropped' = dropped \cup {d.event : d \in deliveries}
       \cup UNION {{queues[s][i] : i \in DOMAIN queues[s]} :
                     s \in {x \in Subscriptions : x[1] = "notification"}}
  /\ UNCHANGED <<notifications, devices, pushed, published>>

NotifyStep ==
  \/ \E s \in Subscriptions : \E i \in DOMAIN queues[s] : Deliver(s, i)
  \/ \E d \in deliveries : SaveNotification(d) \/ PushNotification(d)

===============================================================================

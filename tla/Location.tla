-------------------------------- MODULE Location --------------------------------
(***************************************************************************)
(* The location service: a driver reports where he is, FakeGpsDetector     *)
(* compares the report with his last one, and the position is stored and   *)
(* announced or the report refused.  Positions are Places with distances   *)
(* in whole kilometres; a report that is only suspicious (severity medium) *)
(* is stored like any other.                                               *)
(***************************************************************************)
EXTENDS EventDelivery

CONSTANTS Drivers, Places,
          Km,            \* Km[a, b]: how far b is from a
          Intervals,     \* seconds between two reports of a driver
          LocReqs,       \* bound: reports the service handles at once
          Nowhere        \* SQL NULL: a driver who never reported

ASSUME LocationAssumption ==
  /\ Km \in [Places \X Places -> Nat]
  /\ Intervals \subseteq Nat
  /\ Nowhere \notin Places /\ Nowhere \notin Drivers

VARIABLES places,        \* places[d]: drivers.current_location
          lastReport,    \* the detector's history: the last report of a driver
          locReqs,       \* locReqs[r]: the report handled in slot r
          alerts,        \* audit_logs, action fake_gps_detected
          disturbed      \* history: drivers whose last report overlapped another
                         \* one, or was stored and then lost in a crash

locVars == <<places, lastReport, locReqs, alerts, disturbed>>

\* overlapped is no variable: another report of the driver ran meanwhile.
IdleReport == [pc |-> "idle", driver |-> Nowhere, place |-> Nowhere,
               overlapped |-> FALSE]

LocInit == /\ places = [d \in Drivers |-> Nowhere]
           /\ lastReport = [d \in Drivers |-> Nowhere]
           /\ locReqs = [r \in LocReqs |-> IdleReport]
           /\ alerts = {} /\ disturbed = {}

ReportAt(r, pc) == locReqs[r].pc = pc
GotoReport(r, pc) == locReqs' = [locReqs EXCEPT ![r].pc = pc]
EndReport(r) == locReqs' = [locReqs EXCEPT ![r] = IdleReport]

MaxSpeedKmh == 200

\* Severity high: faster than MAX_SPEED_KMH, unless less than a second passed.
\* (A jump of 5 km in 5 s is faster than that, so the test for it adds nothing.)
Detected(from, to, seconds) ==
  /\ from # Nowhere /\ seconds >= 1
  /\ Km[from, to] * 3600 > MaxSpeedKmh * seconds

\* The driver row is read, and the report becomes the one the next is compared
\* with, whatever the verdict.
ReportLocation(r, d, place, seconds) ==
  LET others == {q \in LocReqs : locReqs[q].driver = d}
      new == [pc         |-> IF Detected(lastReport[d], place, seconds)
                               THEN "alert" ELSE "update",
              driver     |-> d,
              place      |-> place,
              overlapped |-> others # {}]
  IN
  /\ ReportAt(r, "idle")
  /\ lastReport' = [lastReport EXCEPT ![d] = place]
  /\ locReqs' = [q \in LocReqs |->
                   IF q = r THEN new
                   ELSE IF q \in others THEN [locReqs[q] EXCEPT !.overlapped = TRUE]
                   ELSE locReqs[q]]
  /\ UNCHANGED <<places, alerts, disturbed, queues, published>>

\* (faulty variant) the alert is logged and the report goes on
LogOnly(r) ==
  /\ ReportAt(r, "alert")
  /\ alerts' = alerts \cup {<<locReqs[r].driver, locReqs[r].place>>}
  /\ GotoReport(r, "publish")
  /\ UNCHANGED <<places, lastReport, disturbed, queues, published>>

\* logFraudAlert, and the report is refused.
LogFraudAlert(r) ==
  /\ ReportAt(r, "alert")
  /\ alerts' = alerts \cup {<<locReqs[r].driver, locReqs[r].place>>}
  /\ EndReport(r)
  /\ UNCHANGED <<places, lastReport, disturbed, queues, published>>

\* updateDriverLocation
StoreLocation(r) ==
  /\ ReportAt(r, "update")
  /\ places' = [places EXCEPT ![locReqs[r].driver] = locReqs[r].place]
  /\ GotoReport(r, "publish")
  /\ UNCHANGED <<lastReport, alerts, disturbed, queues, published>>

LocationEvent(d, place) ==
  [type |-> "driver.location_updated", driver |-> d, place |-> place]

PublishLocation(r) ==
  /\ ReportAt(r, "publish")
  /\ Send("location", LocationEvent(locReqs[r].driver, locReqs[r].place))
  /\ disturbed' = IF locReqs[r].overlapped THEN disturbed \cup {locReqs[r].driver}
                                           ELSE disturbed \ {locReqs[r].driver}
  /\ EndReport(r)
  /\ UNCHANGED <<places, lastReport, alerts>>

\* A query throws.
FailReport(r) ==
  /\ ReportAt(r, "alert") \/ ReportAt(r, "update")
  /\ EndReport(r)
  /\ UNCHANGED <<places, lastReport, alerts, disturbed, queues, published>>

\* The process dies; its detector forgets everybody.
RestartLocation ==
  /\ locReqs' = [r \in LocReqs |-> IdleReport]
  /\ lastReport' = [d \in Drivers |-> Nowhere]
  /\ disturbed' = disturbed \cup {locReqs[r].driver : r \in
                                    {q \in LocReqs : ReportAt(q, "publish")}}
  /\ UNCHANGED <<places, alerts, queues, published>>

LocStep(r) == LogFraudAlert(r) \/ StoreLocation(r) \/ PublishLocation(r)
===============================================================================

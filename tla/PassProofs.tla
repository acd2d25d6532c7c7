------------------------------ MODULE PassProofs ------------------------------
(***************************************************************************)
(* What a pass can do to a job, whichever way process_job goes, and what   *)
(* follows for the price history, for any number of workers and jobs.      *)
(***************************************************************************)
EXTENDS SchedulerProofs

(* What processing a job comes to, one group of columns at a time. *)

\* The columns only users write, and the hotel once it is known.
SamePolicy(old, row) ==
    /\ row.refundable = old.refundable
    /\ row.cancellation_deadline = old.cancellation_deadline
    /\ old.hotel_id # None => row.hotel_id = old.hotel_id

SameAlerts(old, row) ==
    /\ row.status = old.status
    /\ row.drop_alert_sent = old.drop_alert_sent
    /\ row.lowest_alerted_price = old.lowest_alerted_price
    /\ row.deadline_alert_sent = old.deadline_alert_sent

SameFigures(old, row) ==
    /\ row.check_count = old.check_count
    /\ row.current_best_price = old.current_best_price
    /\ row.lowest_seen_price = old.lowest_seen_price

\* One more check, which found the prices in `found`: none, or one.
NewFigures(old, row, found) ==
    /\ row.check_count = old.check_count + 1
    /\ found = {} => /\ row.current_best_price = old.current_best_price
                     /\ row.lowest_seen_price = old.lowest_seen_price
    /\ \A p \in found : /\ row.current_best_price = p
                        /\ row.lowest_seen_price =
                              IF old.lowest_seen_price = None THEN p
                              ELSE IF p < old.lowest_seen_price THEN p
                              ELSE old.lowest_seen_price

Counts(w, j, row) ==
    \/ added' = added /\ SameFigures(mem[w][j], row)
    \/ \E seen \in Maybe(Prices) :
          /\ added' = [added EXCEPT ![w] = [added[w] EXCEPT ![j] = {seen}]]
          /\ NewFigures(mem[w][j], row, {seen} \ {None})

\* A job is rescheduled, left as it is, or over.
Reschedules(w, j, row) ==
    LET old == mem[w][j]
    IN  \/ row.status = old.status /\ row.next_check_at = old.next_check_at
        \/ /\ row.status \in {old.status, "drop_found", "deadline_soon"}
           /\ row.next_check_at \in Nat
           /\ row.next_check_at > passNow[w]
        \/ row.status = "expired" /\ row.next_check_at = None

\* The wrap-up, recorded if it was delivered.
TellsEnd(old, row, event, delivered) ==
    /\ event.kind = "MonitoringEnded"
    /\ IF delivered
       THEN /\ row.status = "expired"
            /\ row.drop_alert_sent = old.drop_alert_sent
            /\ row.lowest_alerted_price = old.lowest_alerted_price
            /\ row.deadline_alert_sent = old.deadline_alert_sent
       ELSE SameAlerts(old, row)

\* A drop, likewise.
TellsDrop(j, old, row, event, delivered) ==
    /\ event.kind = "PriceDropFound"
    /\ event.price \in Prices
    /\ BelowByFloor(event.price, Original[j], Original[j])
    /\ WorthTelling(j, old, event.price)
    /\ IF delivered
       THEN /\ row.status = "drop_found"
            /\ row.drop_alert_sent
            /\ row.lowest_alerted_price = event.price
            /\ row.deadline_alert_sent = old.deadline_alert_sent
       ELSE SameAlerts(old, row)

\* The deadline guard, likewise.
Warns(old, row, event, delivered) ==
    /\ event.kind = "DeadlineApproaching"
    /\ event.price = row.lowest_seen_price
    /\ ~old.deadline_alert_sent
    /\ IF delivered
       THEN /\ row.status = "deadline_soon"
            /\ row.drop_alert_sent = old.drop_alert_sent
            /\ row.lowest_alerted_price = old.lowest_alerted_price
            /\ row.deadline_alert_sent
       ELSE SameAlerts(old, row)

\* Nothing but the wrap-up is sent of a job that has ended, and no wrap-up
\* of one that has not.
Tells(w, j, row) ==
    LET old == mem[w][j]
        over == HasEnded(j, old, passNow[w])
    IN  \/ SameAlerts(old, row) /\ mail' = mail
        \/ \E event \in Event, outcome \in Outcomes :
              /\ Emit(j, event, outcome)
              /\ \/ over /\ TellsEnd(old, row, event, Delivered(outcome))
                 \/ ~over /\ TellsDrop(j, old, row, event, Delivered(outcome))
                 \/ ~over /\ Warns(old, row, event, Delivered(outcome))

Effect(w, j, row) ==
    /\ Process(w, j, row)
    /\ SamePolicy(mem[w][j], row)
    /\ Counts(w, j, row)
    /\ Reschedules(w, j, row)
    /\ Tells(w, j, row)

\* A price is a number, and no number is None.
LEMMA PricesAreNumbers == \A p \in Prices : p \in Nat /\ p # None
  <1>1. Prices \subseteq Nat
    BY StoreAssumption
  <1>2. QED
    BY <1>1, FloorAssumption

\* What a completed check leaves, before any alert.
LEMMA CheckEffect ==
    ASSUME TypeOK, NEW w \in Workers, NEW j \in Jobs, NEW hotel \in Hotels,
           NEW best \in Maybe(Offers), NEW jitter \in Jitters, Check(w, j, hotel, best)
    PROVE  LET old == mem[w][j]
               row == CheckedRow(w, j, hotel, best, jitter)
           IN  /\ old \in Row /\ row \in Row
               /\ ~HasEnded(j, old, passNow[w])
               /\ SamePolicy(old, row)
               /\ SameAlerts(old, row)
               /\ Counts(w, j, row)
               /\ row.next_check_at \in Nat
               /\ row.next_check_at > passNow[w]
  <1> DEFINE old == mem[w][j]
             row == CheckedRow(w, j, hotel, best, jitter)
             hrs == HoursUntil(old.cancellation_deadline, passNow[w])
             next == passNow[w] + CadenceHours(hrs) + jitter
             seen == IF best = None THEN None ELSE best.price
  <1>1. old \in Row /\ passNow[w] \in Nat
    BY TodoRow DEF Check
  <1>2. row \in Row
    BY CheckType
  <1>3. next \in Nat /\ next > passNow[w]
    <2>1. jitter \in Nat
      BY SchedulerAssumption
    <2>2. CadenceHours(hrs) \in Nat \ {0}
      BY SchedulerAssumption DEF CadenceHours
    <2> HIDE DEF hrs
    <2>3. QED
      BY <1>1, <2>1, <2>2
  <1>4. row = [Checked(old, best) EXCEPT !.hotel_id = hotel, !.next_check_at = next]
    BY DEF CheckedRow
  <1>5. Checked(old, best) \in Row
    BY <1>1, CheckedType
  <1>6. /\ SameAlerts(old, Checked(old, best))
        /\ SamePolicy(old, Checked(old, best))
        /\ NewFigures(old, Checked(old, best), {seen} \ {None})
    <2>1. CASE best = None
      BY <1>1, <2>1 DEF Checked, Row, SameAlerts, SamePolicy, NewFigures
    <2>2. CASE best # None
      <3>1. best.price \in Nat /\ best.price # None
        <4>1. best.price \in Prices
          BY <2>2, SchedulerAssumption DEF Maybe
        <4>2. QED
          BY <4>1, PricesAreNumbers
      <3>2. {seen} \ {None} = {best.price}
        BY <2>2, <3>1
      <3>3. NewFigures(old, Checked(old, best), {best.price})
        BY <1>1, <2>2, <3>1 DEF Checked, Row, NewFigures
      <3>4. QED
        BY <1>1, <2>2, <3>2, <3>3 DEF Checked, Row, SameAlerts, SamePolicy
    <2>3. QED
      BY <2>1, <2>2
  <1>7. old.hotel_id # None => hotel = old.hotel_id
    BY DEF Check, Resolved
  <1>8. seen \in Maybe(Prices)
    BY SchedulerAssumption DEF Maybe
  <1>9. /\ added' = [added EXCEPT ![w] = [added[w] EXCEPT ![j] = {seen}]]
        /\ ~HasEnded(j, old, passNow[w])
    BY DEF Check
  <1> HIDE DEF next, seen
  <1>10. /\ SameAlerts(old, row)
         /\ SamePolicy(old, row)
         /\ NewFigures(old, row, {seen} \ {None})
         /\ row.next_check_at = next
    <2> HIDE DEF old, row
    <2>1. QED
      BY <1>4, <1>5, <1>6, <1>7 DEF Row, SameAlerts, SamePolicy, NewFigures
  <1>11. QED
    BY <1>1, <1>2, <1>3, <1>8, <1>9, <1>10 DEF Counts


\* Marking a row as told leaves the columns of the check alone.
LEMMA ToldKeepsCheck ==
    ASSUME NEW w \in Workers, NEW j \in Jobs, NEW row \in Row, NEW told \in Row,
           SamePolicy(mem[w][j], row), Counts(w, j, row),
           SamePolicy(row, told), told.hotel_id = row.hotel_id, SameFigures(row, told)
    PROVE  SamePolicy(mem[w][j], told) /\ Counts(w, j, told)
  BY DEF SamePolicy, SameFigures, NewFigures, Counts

\* A check that raises the drop alert.
LEMMA DropEffect ==
    ASSUME TypeOK, NEW w \in Workers, NEW j \in Jobs, RaiseDropAlert(w, j)
    PROVE  \E row \in Row : Effect(w, j, row)
  <1> DEFINE old == mem[w][j]
  <1> DEFINE Alert(best) == [kind |-> "PriceDropFound", price |-> best.price,
                             note |-> best.link]
             Raised(row, best, event, outcome) ==
                /\ Stands(j, best)
                /\ WorthTelling(j, row, best.price)
                /\ Emit(j, event, outcome)
                /\ Process(w, j,
                      IF Delivered(outcome)
                      THEN [row EXCEPT !.status = "drop_found", !.drop_alert_sent = TRUE,
                                       !.lowest_alerted_price = best.price]
                      ELSE row)
  <1>0. PICK hotel \in Hotels, best \in Offers, jitter \in Jitters, outcome \in Outcomes :
           /\ Check(w, j, hotel, best)
           /\ Raised(CheckedRow(w, j, hotel, best, jitter), best, Alert(best), outcome)
    BY DEF RaiseDropAlert
  <1>1. PICK row, event : /\ row = CheckedRow(w, j, hotel, best, jitter)
                          /\ event = Alert(best)
                          /\ Check(w, j, hotel, best)
                          /\ Raised(row, best, event, outcome)
    <2> HIDE DEF Alert, Raised
    <2>1. QED
      BY <1>0
  <1>2. best \in Maybe(Offers) /\ best.price \in Prices /\ best.link \in BOOLEAN
    BY SchedulerAssumption DEF Maybe
  <1>3. /\ old \in Row /\ row \in Row
        /\ ~HasEnded(j, old, passNow[w])
        /\ SamePolicy(old, row) /\ SameAlerts(old, row) /\ Counts(w, j, row)
        /\ row.next_check_at \in Nat /\ row.next_check_at > passNow[w]
    BY <1>1, <1>2, CheckEffect
  <1>4. event \in Event /\ event.kind = "PriceDropFound" /\ event.price = best.price
    BY <1>1, <1>2 DEF Event, EventKinds, Maybe
  <1>5. /\ BelowByFloor(best.price, Original[j], Original[j])
        /\ WorthTelling(j, old, best.price)
    BY <1>1, <1>3 DEF Stands, IsActionableDrop, WorthTelling, SameAlerts
  <1>6. CASE Delivered(outcome)
    <2>1. PICK told : told = [row EXCEPT !.status = "drop_found", !.drop_alert_sent = TRUE,
                                         !.lowest_alerted_price = best.price]
      OBVIOUS
    <2>2. /\ told \in Row
          /\ SamePolicy(row, told) /\ SameFigures(row, told)
          /\ told.hotel_id = row.hotel_id
          /\ told.status = "drop_found" /\ told.drop_alert_sent
          /\ told.lowest_alerted_price = best.price
          /\ told.deadline_alert_sent = row.deadline_alert_sent
          /\ told.next_check_at = row.next_check_at
      BY <1>2, <1>3, <2>1 DEF Row, JobStatus, Monitored, Maybe, SamePolicy, SameFigures
    <2>3. SamePolicy(old, told) /\ Counts(w, j, told)
      BY <1>3, <2>2, ToldKeepsCheck
    <2>4. TellsDrop(j, old, told, event, TRUE)
      BY <1>2, <1>3, <1>4, <1>5, <2>2 DEF TellsDrop, SameAlerts
    <2>5. Tells(w, j, told)
      BY <1>1, <1>3, <1>4, <1>6, <2>4 DEF Tells
    <2>6. Process(w, j, told)
      BY <1>1, <1>6, <2>1
    <2>7. QED
      BY <1>3, <2>2, <2>3, <2>5, <2>6 DEF Effect, Reschedules
  <1>7. CASE ~Delivered(outcome)
    <2>1. TellsDrop(j, old, row, event, Delivered(outcome))
      BY <1>2, <1>3, <1>4, <1>5, <1>7 DEF TellsDrop
    <2>2. Tells(w, j, row)
      BY <1>1, <1>3, <1>4, <2>1 DEF Tells
    <2>3. Process(w, j, row)
      BY <1>1, <1>7
    <2>4. QED
      BY <1>3, <2>2, <2>3 DEF Effect, Reschedules, SameAlerts
  <1>8. QED
    BY <1>6, <1>7

\* A check that raises the deadline alert.
LEMMA DeadlineEffect ==
    ASSUME TypeOK, NEW w \in Workers, NEW j \in Jobs, RaiseDeadlineAlert(w, j)
    PROVE  \E row \in Row : Effect(w, j, row)
  <1> DEFINE old == mem[w][j]
  <1> DEFINE Alert(row) == [kind |-> "DeadlineApproaching", price |-> row.lowest_seen_price,
                            note |-> SawMovement(j, row)]
             Raised(row, event, outcome) ==
                /\ GuardDue(row, passNow[w])
                /\ Emit(j, event, outcome)
                /\ Process(w, j,
                      IF Delivered(outcome)
                      THEN [row EXCEPT !.status = "deadline_soon", !.deadline_alert_sent = TRUE]
                      ELSE row)
  <1>0. PICK hotel \in Hotels, best \in Maybe(Offers), jitter \in Jitters,
             outcome \in Outcomes :
           /\ Check(w, j, hotel, best)
           /\ Raised(CheckedRow(w, j, hotel, best, jitter),
                     Alert(CheckedRow(w, j, hotel, best, jitter)), outcome)
    BY DEF RaiseDeadlineAlert
  <1>1. PICK row, event : /\ row = CheckedRow(w, j, hotel, best, jitter)
                          /\ event = Alert(row)
                          /\ Check(w, j, hotel, best)
                          /\ Raised(row, event, outcome)
    <2> HIDE DEF Alert, Raised
    <2>1. QED
      BY <1>0
  <1>2. /\ old \in Row /\ row \in Row
        /\ ~HasEnded(j, old, passNow[w])
        /\ SamePolicy(old, row) /\ SameAlerts(old, row) /\ Counts(w, j, row)
        /\ row.next_check_at \in Nat /\ row.next_check_at > passNow[w]
    BY <1>1, CheckEffect
  <1>3. /\ event \in Event /\ event.kind = "DeadlineApproaching"
        /\ event.price = row.lowest_seen_price
    <2>1. SawMovement(j, row) \in BOOLEAN
      BY DEF SawMovement
    <2>2. QED
      BY <1>1, <1>2, <2>1 DEF Event, EventKinds, Row
  <1>4. ~old.deadline_alert_sent
    BY <1>1, <1>2 DEF GuardDue, SameAlerts
  <1>5. CASE Delivered(outcome)
    <2>1. PICK told : told = [row EXCEPT !.status = "deadline_soon", !.deadline_alert_sent = TRUE]
      OBVIOUS
    <2>2. /\ told \in Row
          /\ SamePolicy(row, told) /\ SameFigures(row, told)
          /\ told.hotel_id = row.hotel_id
          /\ told.status = "deadline_soon" /\ told.deadline_alert_sent
          /\ told.drop_alert_sent = row.drop_alert_sent
          /\ told.lowest_alerted_price = row.lowest_alerted_price
          /\ told.next_check_at = row.next_check_at
      BY <1>2, <2>1 DEF Row, JobStatus, Monitored, Maybe, SamePolicy, SameFigures
    <2>3. SamePolicy(old, told) /\ Counts(w, j, told)
      BY <1>2, <2>2, ToldKeepsCheck
    <2>4. Warns(old, told, event, TRUE)
      BY <1>2, <1>3, <1>4, <2>2 DEF Warns, SameAlerts, SameFigures
    <2>5. Tells(w, j, told)
      BY <1>1, <1>2, <1>3, <1>5, <2>4 DEF Tells
    <2>6. Process(w, j, told)
      BY <1>1, <1>5, <2>1
    <2>7. QED
      BY <1>2, <2>2, <2>3, <2>5, <2>6 DEF Effect, Reschedules
  <1>6. CASE ~Delivered(outcome)
    <2>1. Warns(old, row, event, Delivered(outcome))
      BY <1>2, <1>3, <1>4, <1>6 DEF Warns
    <2>2. Tells(w, j, row)
      BY <1>1, <1>2, <1>3, <2>1 DEF Tells
    <2>3. Process(w, j, row)
      BY <1>1, <1>6
    <2>4. QED
      BY <1>2, <2>2, <2>3 DEF Effect, Reschedules, SameAlerts
  <1>7. QED
    BY <1>5, <1>6

\* Whichever way it goes, that is all process_job does.
LEMMA JobEffect ==
    ASSUME TypeOK, NEW w \in Workers, NEW j \in Jobs, ProcessJob(w, j)
    PROVE  \E row \in Row : Effect(w, j, row)
  <1> DEFINE old == mem[w][j]
             over == HasEnded(j, old, passNow[w])
  <1>1. old \in Row /\ passNow[w] \in Nat
    BY TodoRow DEF ProcessJob, EndMonitoring, StayUnresolved, CheckRaises, RaiseDropAlert,
       RaiseDeadlineAlert, StayQuiet, Check
  <1>2. CASE EndMonitoring(w, j)
    <2> DEFINE event == [kind |-> "MonitoringEnded", price |-> old.lowest_seen_price,
                         note |-> old.drop_alert_sent]
    <2>1. PICK outcome \in Outcomes :
             /\ Emit(j, event, outcome)
             /\ Process(w, j,
                   IF Delivered(outcome)
                   THEN [old EXCEPT !.status = "expired", !.next_check_at = None]
                   ELSE [old EXCEPT !.next_check_at = passNow[w] + RetryHours])
      BY <1>2 DEF EndMonitoring
    <2>2. event \in Event /\ event.kind = "MonitoringEnded"
      BY <1>1 DEF Event, EventKinds, Row
    <2> HIDE DEF event
    <2>3. over /\ added' = added
      BY <1>2 DEF EndMonitoring
    <2>4. CASE Delivered(outcome)
      <3>1. PICK row : row = [old EXCEPT !.status = "expired", !.next_check_at = None]
        OBVIOUS
      <3>2. /\ row \in Row
            /\ row.status = "expired" /\ row.next_check_at = None
            /\ SamePolicy(old, row) /\ SameFigures(old, row)
            /\ TellsEnd(old, row, event, TRUE)
        BY <1>1, <2>2, <3>1
        DEF Row, JobStatus, Maybe, SamePolicy, SameFigures, TellsEnd
      <3>3. Process(w, j, row)
        BY <2>1, <2>4, <3>1
      <3>4. Tells(w, j, row)
        BY <2>1, <2>2, <2>3, <2>4, <3>2 DEF Tells
      <3>5. QED
        BY <2>3, <3>2, <3>3, <3>4 DEF Effect, Counts, Reschedules
    <2>5. CASE ~Delivered(outcome)
      <3>1. PICK row : row = [old EXCEPT !.next_check_at = passNow[w] + RetryHours]
        OBVIOUS
      <3>2. passNow[w] + RetryHours \in Nat /\ passNow[w] + RetryHours > passNow[w]
        BY <1>1, SchedulerAssumption
      <3>3. /\ row \in Row
            /\ row.next_check_at \in Nat /\ row.next_check_at > passNow[w]
            /\ SamePolicy(old, row) /\ SameFigures(old, row)
            /\ SameAlerts(old, row)
        BY <1>1, <3>1, <3>2 DEF Row, Maybe, Time, SamePolicy, SameFigures, SameAlerts
      <3>4. Process(w, j, row)
        BY <2>1, <2>5, <3>1
      <3>5. Tells(w, j, row)
        BY <2>1, <2>2, <2>3, <2>5, <3>3 DEF Tells, TellsEnd
      <3>6. QED
        BY <2>3, <3>3, <3>4, <3>5 DEF Effect, Counts, Reschedules, SameAlerts
    <2>6. QED
      BY <2>4, <2>5
  <1>3. CASE StayUnresolved(w, j)
    <2>1. PICK row : row = [old EXCEPT !.next_check_at = passNow[w] + CadenceHours(
                               HoursUntil(old.cancellation_deadline, passNow[w]))]
      OBVIOUS
    <2>2. PICK h : h = HoursUntil(old.cancellation_deadline, passNow[w])
      OBVIOUS
    <2>3. CadenceHours(h) \in Nat \ {0}
      BY SchedulerAssumption DEF CadenceHours
    <2>4. PICK next : next = passNow[w] + CadenceHours(h)
      OBVIOUS
    <2>5. next \in Nat /\ next > passNow[w]
      BY <1>1, <2>3, <2>4
    <2>6. row = [old EXCEPT !.next_check_at = next]
      BY <2>1, <2>2, <2>4
    <2>7. /\ row \in Row
          /\ row.next_check_at \in Nat /\ row.next_check_at > passNow[w]
          /\ SamePolicy(old, row) /\ SameFigures(old, row) /\ SameAlerts(old, row)
      BY <1>1, <2>5, <2>6 DEF Row, Maybe, Time, SamePolicy, SameFigures, SameAlerts
    <2>8. Process(w, j, row) /\ mail' = mail /\ added' = added
      BY <1>3, <2>1 DEF StayUnresolved
    <2>9. QED
      BY <2>7, <2>8 DEF Effect, Counts, Reschedules, SameAlerts, Tells
  <1>4. CASE CheckRaises(w, j)
    <2>1. PICK hotel \in Resolved(old) \ {None} :
             Process(w, j, [old EXCEPT !.hotel_id = hotel])
      BY <1>4 DEF CheckRaises
    <2>2. PICK row : row = [old EXCEPT !.hotel_id = hotel]
      OBVIOUS
    <2>3. hotel \in Hotels /\ (old.hotel_id # None => hotel = old.hotel_id)
      BY <1>1, <2>1 DEF Resolved, Row, Maybe
    <2>4. /\ row \in Row
          /\ row.next_check_at = old.next_check_at
          /\ SamePolicy(old, row) /\ SameFigures(old, row) /\ SameAlerts(old, row)
      BY <1>1, <2>2, <2>3 DEF Row, Maybe, SamePolicy, SameFigures, SameAlerts
    <2>5. Process(w, j, row) /\ mail' = mail /\ added' = added
      BY <1>4, <2>1, <2>2 DEF CheckRaises
    <2>6. QED
      BY <2>4, <2>5 DEF Effect, Counts, Reschedules, SameAlerts, Tells
  <1>5. CASE StayQuiet(w, j)
    <2>1. PICK hotel \in Hotels, best \in Maybe(Offers), jitter \in Jitters :
             /\ Check(w, j, hotel, best)
             /\ Process(w, j, CheckedRow(w, j, hotel, best, jitter))
             /\ mail' = mail
      BY <1>5 DEF StayQuiet
    <2>2. PICK row : row = CheckedRow(w, j, hotel, best, jitter)
      OBVIOUS
    <2>3. /\ row \in Row
          /\ SamePolicy(old, row) /\ SameAlerts(old, row) /\ Counts(w, j, row)
          /\ row.next_check_at \in Nat /\ row.next_check_at > passNow[w]
      BY <2>1, <2>2, CheckEffect
    <2>4. QED
      BY <2>1, <2>2, <2>3 DEF Effect, Reschedules, SameAlerts, Tells
  <1>6. QED
    BY <1>2, <1>3, <1>4, <1>5, DropEffect, DeadlineEffect DEF ProcessJob

-----------------------------------------------------------------------------
(* What a session holds. *)

\* A session's copy keeps the columns that are the user's, is what was loaded
\* until the loop reaches the job, and the pass's `now` is not in the future.
SessionIsPass ==
    \A w \in Workers, j \in Jobs : mem[w][j] # NoRow =>
        /\ SamePolicy(loaded[w][j], mem[w][j])
        /\ loaded[w][j].status \in Monitored
        /\ j \in todo[w] => mem[w][j] = loaded[w][j]
        /\ passNow[w] <= clock

\* There is no session at first.
LEMMA InitSession == Init => SessionIsPass
  BY DEF Init, SessionInit, NoSession, SessionIsPass

\* Only the job the loop has reached changes in the session.
LEMMA NextKeepsSession == TypeOK /\ SessionIsPass /\ [Next]_schedVars => SessionIsPass'
  <1> SUFFICES ASSUME TypeOK, SessionIsPass, [Next]_schedVars PROVE SessionIsPass'
    OBVIOUS
  <1>1. CASE UNCHANGED <<sessionVars, clock>>
    BY <1>1 DEF sessionVars, SessionIsPass
  <1>2. ASSUME NEW w \in Workers, StartPass(w) PROVE SessionIsPass'
    <2>1. clock' = clock /\ clock \in Nat
      BY <1>2 DEF StartPass, storeVars, TypeOK, StoreTypeOK, Time
    <2>2. ASSUME NEW v \in Workers, NEW k \in Jobs, mem'[v][k] # NoRow, v = w
          PROVE  /\ mem'[v][k] = loaded'[v][k] /\ passNow'[v] = clock
                 /\ loaded'[v][k].status \in Monitored
      BY <1>2, <2>2 DEF StartPass, TypeOK, Due
    <2>3. ASSUME NEW v \in Workers, v # w
          PROVE  /\ mem'[v] = mem[v] /\ loaded'[v] = loaded[v]
                 /\ todo'[v] = todo[v] /\ passNow'[v] = passNow[v]
      BY <1>2, <2>3 DEF StartPass, TypeOK
    <2>4. ASSUME NEW row PROVE SamePolicy(row, row)
      BY DEF SamePolicy
    <2>5. QED
      BY <2>1, <2>2, <2>3, <2>4 DEF SessionIsPass
  <1>3. ASSUME NEW w \in Workers, NEW j \in Jobs, SkipPaused(w, j) PROVE SessionIsPass'
    <2>1. UNCHANGED <<clock, passNow, loaded, mem>>
      BY <1>3 DEF SkipPaused, Reach
    <2>2. \A v \in Workers : todo'[v] \subseteq todo[v]
      BY <1>3 DEF SkipPaused, Reach, TypeOK
    <2>3. QED
      BY <2>1, <2>2 DEF SessionIsPass
  <1>4. ASSUME NEW w \in Workers, NEW j \in Jobs, ProcessJob(w, j) PROVE SessionIsPass'
    <2>1. PICK row \in Row : Effect(w, j, row)
      BY <1>4, JobEffect
    <2>2. /\ UNCHANGED <<clock, passNow, loaded>>
          /\ j \in todo[w] /\ mem[w][j] # NoRow
      BY <2>1 DEF Effect, Process, Reach, TypeOK
    <2>3. \A v \in Workers, k \in Jobs : k \in todo'[v] => k \in todo[v] /\ (v # w \/ k # j)
      BY <2>1 DEF Effect, Process, Reach, TypeOK
    <2>4. /\ mem'[w][j] = row
          /\ \A v \in Workers, k \in Jobs : v # w \/ k # j => mem'[v][k] = mem[v][k]
      BY <2>1 DEF Effect, Process, TypeOK
    <2>5. SamePolicy(loaded[w][j], row)
      BY <2>1, <2>2 DEF SessionIsPass, Effect, SamePolicy
    <2>6. QED
      BY <2>2, <2>3, <2>4, <2>5 DEF SessionIsPass
  <1>5. ASSUME NEW w \in Workers, CommitPass(w) \/ Crash(w) PROVE SessionIsPass'
    <2>1. CloseSession(w) /\ clock' = clock
      BY <1>5 DEF CommitPass, Crash, storeVars
    <2>2. \A v \in Workers, k \in Jobs : mem'[v][k] # NoRow =>
             /\ mem'[v] = mem[v] /\ loaded'[v] = loaded[v]
             /\ todo'[v] = todo[v] /\ passNow'[v] = passNow[v]
      BY <2>1 DEF CloseSession, NoSession, TypeOK
    <2>3. QED
      BY <2>1, <2>2 DEF SessionIsPass
  <1>6. CASE Tick /\ UNCHANGED <<sessionVars, crashes>>
    <2>1. /\ UNCHANGED <<passNow, todo, loaded, mem>>
          /\ clock' = clock + 1 /\ clock \in Nat
      BY <1>6 DEF Tick, sessionVars, TypeOK, StoreTypeOK, Time
    <2>2. ASSUME NEW w \in Workers, NEW j \in Jobs, mem[w][j] # NoRow
          PROVE  passNow[w] \in Nat
      BY <2>2 DEF TypeOK, Maybe, Time
    <2>3. QED
      BY <2>1, <2>2 DEF SessionIsPass
  <1>7. QED
    BY <1>1, <1>2, <1>3, <1>4, <1>5, <1>6 DEF Next, PassStep, schedVars, storeVars

-----------------------------------------------------------------------------
(* The price history. *)

\* The figures claim no check and no price that is not among these.
Covers(n, prices, row) ==
    /\ row.check_count <= n
    /\ row.lowest_seen_price \in Maybe(prices)
    /\ row.current_best_price \in Maybe(prices)

\* What a session adds to a figure, it adds to the history with the same commit.
SessionBacked(w, j) ==
    LET old == loaded[w][j]
        row == mem[w][j]
        found == added[w][j] \ {None}
    IN  /\ Covers(checks[j].n, checks[j].prices, old)
        /\ j \in todo[w] => added[w][j] = {}
        /\ IF added[w][j] = {} THEN SameFigures(old, row)
           ELSE /\ row.check_count = old.check_count + 1
                /\ row.lowest_seen_price \in Maybe(checks[j].prices \cup found)
                /\ row.current_best_price \in Maybe(checks[j].prices \cup found)

\* Why ChecksNotOverstated holds although the last commit of a column wins:
\* every copy claims at most what is recorded or about to be.
FiguresAreBacked ==
    \A j \in Jobs :
        /\ rows[j] # NoRow => Covers(checks[j].n, checks[j].prices, rows[j])
        /\ \A w \in Workers : mem[w][j] # NoRow => SessionBacked(w, j)

\* Only a check of a job in the session adds to its history.
AddedIsLoaded ==
    \A w \in Workers, j \in Jobs : mem[w][j] = NoRow => added[w][j] = {}

\* Only a pass fills its session, and its end empties it.
LEMMA NextKeepsAdded == TypeOK /\ AddedIsLoaded /\ [Next]_schedVars => AddedIsLoaded'
  <1> SUFFICES ASSUME TypeOK, AddedIsLoaded, [Next]_schedVars PROVE AddedIsLoaded'
    OBVIOUS
  <1>1. CASE UNCHANGED sessionVars
    BY <1>1 DEF sessionVars, AddedIsLoaded
  <1>2. ASSUME NEW w \in Workers, StartPass(w) PROVE AddedIsLoaded'
    <2>1. added' = added /\ \A k \in Jobs : mem[w][k] = NoRow
      BY <1>2 DEF StartPass, TypeOK
    <2>2. \A v \in Workers \ {w} : mem'[v] = mem[v]
      BY <1>2 DEF StartPass, TypeOK
    <2>3. QED
      BY <2>1, <2>2 DEF AddedIsLoaded
  <1>3. ASSUME NEW w \in Workers, NEW j \in Jobs, SkipPaused(w, j) PROVE AddedIsLoaded'
    BY <1>3 DEF SkipPaused, AddedIsLoaded
  <1>4. ASSUME NEW w \in Workers, NEW j \in Jobs, ProcessJob(w, j) PROVE AddedIsLoaded'
    <2>1. PICK row \in Row : Effect(w, j, row)
      BY <1>4, JobEffect
    <2>2. /\ mem'[w][j] # NoRow
          /\ \A v \in Workers, k \in Jobs : v # w \/ k # j => mem'[v][k] = mem[v][k]
      BY <2>1, StoreAssumption DEF Effect, Process, TypeOK
    <2>3. \/ added' = added
          \/ \E s : added' = [added EXCEPT ![w] = [added[w] EXCEPT ![j] = s]]
      BY <2>1 DEF Effect, Counts
    <2>4. \A v \in Workers, k \in Jobs : v # w \/ k # j => added'[v][k] = added[v][k]
      BY <2>3 DEF TypeOK
    <2>5. QED
      BY <2>2, <2>4 DEF AddedIsLoaded
  <1>5. ASSUME NEW w \in Workers, CommitPass(w) \/ Crash(w) PROVE AddedIsLoaded'
    <2>1. CloseSession(w)
      BY <1>5 DEF CommitPass, Crash
    <2>2. /\ added'[w] = NothingAdded
          /\ \A v \in Workers \ {w} : mem'[v] = mem[v] /\ added'[v] = added[v]
      BY <2>1 DEF CloseSession, TypeOK
    <2>3. QED
      BY <2>2 DEF AddedIsLoaded, NothingAdded
  <1>6. QED
    BY <1>1, <1>2, <1>3, <1>4, <1>5 DEF Next, PassStep, schedVars, sessionVars

\* More history covers what less history did.
LEMMA CoversGrows ==
    ASSUME NEW n \in Nat, NEW m \in Nat, n <= m, NEW A, NEW B, A \subseteq B,
           NEW row, row.check_count \in Nat, Covers(n, A, row)
    PROVE  Covers(m, B, row)
  BY DEF Covers, Maybe

\* Which columns a commit takes the figures from.
LEMMA FlushFigures ==
    ASSUME NEW row, NEW old, NEW new
    PROVE  LET out == Flush(row, old, new)
           IN  /\ out.check_count = IF new.check_count = old.check_count
                                    THEN row.check_count ELSE new.check_count
               /\ out.lowest_seen_price \in {row.lowest_seen_price, new.lowest_seen_price}
               /\ out.current_best_price \in {row.current_best_price, new.current_best_price}
               /\ SameFigures(old, new) => SameFigures(row, out)
  BY DEF Flush, SameFigures

\* A job is processed: its session claims what it is about to add.
LEMMA ProcessBacked ==
    ASSUME TypeOK, FiguresAreBacked, NEW w \in Workers, NEW j \in Jobs, ProcessJob(w, j)
    PROVE  FiguresAreBacked'
  <1>1. PICK row \in Row : Effect(w, j, row)
    BY JobEffect
  <1>2. /\ UNCHANGED <<rows, checks, loaded>>
        /\ j \in todo[w] /\ todo' = [todo EXCEPT ![w] = todo[w] \ {j}]
        /\ mem' = [mem EXCEPT ![w] = [mem[w] EXCEPT ![j] = row]]
    BY <1>1 DEF Effect, Process, Reach
  <1>3. mem[w][j] # NoRow /\ mem[w][j] \in Row
    BY <1>2, TodoRow DEF TypeOK
  <1>4. ASSUME NEW v \in Workers, NEW k \in Jobs, v # w \/ k # j
        PROVE  mem'[v][k] = mem[v][k] /\ added'[v][k] = added[v][k]
    <2>1. mem'[v][k] = mem[v][k]
      BY <1>2, <1>4 DEF TypeOK
    <2>2. \/ added' = added
          \/ \E s : added' = [added EXCEPT ![w] = [added[w] EXCEPT ![j] = s]]
      BY <1>1 DEF Effect, Counts
    <2>3. added'[v][k] = added[v][k]
      BY <1>4, <2>2 DEF TypeOK
    <2>4. QED
      BY <2>1, <2>3
  <1>5. \A v \in Workers, k \in Jobs : k \in todo'[v] => k \in todo[v] /\ (v # w \/ k # j)
    BY <1>2 DEF TypeOK
  <1>6. mem'[w][j] = row
    BY <1>2 DEF TypeOK
  <1>7. SessionBacked(w, j)'
    <2>1. /\ SessionBacked(w, j) /\ added[w][j] = {}
          /\ Covers(checks[j].n, checks[j].prices, loaded[w][j])
          /\ SameFigures(loaded[w][j], mem[w][j])
      BY <1>2, <1>3 DEF FiguresAreBacked, SessionBacked
    <2>2. Covers(checks[j].n, checks[j].prices, mem[w][j])
      BY <2>1 DEF Covers, SameFigures
    <2>3. CASE added' = added /\ SameFigures(mem[w][j], row)
      BY <1>2, <1>5, <1>6, <2>1, <2>3 DEF SessionBacked, SameFigures
    <2>4. ASSUME NEW seen \in Maybe(Prices),
                 added' = [added EXCEPT ![w] = [added[w] EXCEPT ![j] = {seen}]],
                 NewFigures(mem[w][j], row, {seen} \ {None})
          PROVE  SessionBacked(w, j)'
      <3>1. added'[w][j] = {seen}
        BY <2>4 DEF TypeOK
      <3>2. row.check_count = loaded[w][j].check_count + 1
        BY <2>1, <2>4 DEF NewFigures, SameFigures
      <3>3. /\ row.lowest_seen_price \in Maybe(checks[j].prices \cup ({seen} \ {None}))
            /\ row.current_best_price \in Maybe(checks[j].prices \cup ({seen} \ {None}))
        BY <2>2, <2>4 DEF NewFigures, Covers, Maybe
      <3>4. QED
        BY <1>2, <1>5, <1>6, <2>1, <3>1, <3>2, <3>3 DEF SessionBacked
    <2>5. QED
      BY <1>1, <2>3, <2>4 DEF Effect, Counts
  <1>8. ASSUME NEW v \in Workers, NEW k \in Jobs, mem'[v][k] # NoRow, v # w \/ k # j
        PROVE  SessionBacked(v, k)'
    <2>1. SessionBacked(v, k)
      BY <1>4, <1>8 DEF FiguresAreBacked
    <2>2. QED
      BY <1>2, <1>4, <1>5, <1>8, <2>1 DEF SessionBacked
  <1>9. QED
    BY <1>2, <1>7, <1>8 DEF FiguresAreBacked

\* A commit writes figures and their history at once.
LEMMA CommitBacked ==
    ASSUME TypeOK, FiguresAreBacked, NEW w \in Workers, CommitPass(w)
    PROVE  FiguresAreBacked'
  <1>1. ASSUME NEW j \in Jobs
        PROVE  /\ checks'[j].n = IF added[w][j] = {} THEN checks[j].n ELSE checks[j].n + 1
               /\ checks'[j].prices = checks[j].prices \cup (added[w][j] \ {None})
               /\ checks[j].n \in Nat
               /\ checks[j].n <= checks'[j].n /\ checks'[j].n \in Nat
               /\ checks[j].prices \subseteq checks'[j].prices
    BY DEF CommitPass, TypeOK, StoreTypeOK, History
  <1>2. ASSUME NEW j \in Jobs, rows'[j] # NoRow
        PROVE  Covers(checks[j].n, checks[j].prices, rows[j]) /\ rows[j] \in Row
               => Covers(checks[j].n, checks[j].prices, rows[j])'
    <2>1. SUFFICES ASSUME Covers(checks[j].n, checks[j].prices, rows[j]), rows[j] \in Row
                   PROVE  Covers(checks[j].n, checks[j].prices, rows[j])'
      OBVIOUS
    <2>2. Covers(checks'[j].n, checks'[j].prices, rows[j])
      BY <1>1, <2>1, CoversGrows DEF Row
    <2>3. CASE mem[w][j] = NoRow
      BY <2>2, <2>3 DEF CommitPass
    <2>4. CASE mem[w][j] # NoRow
      <3>1. rows'[j] = Flush(rows[j], loaded[w][j], mem[w][j])
        BY <2>4 DEF CommitPass
      <3>2. SessionBacked(w, j)
        BY <2>4 DEF FiguresAreBacked
      <3>3. CASE added[w][j] = {}
        BY <2>2, <3>1, <3>2, <3>3, FlushFigures DEF SessionBacked, SameFigures, Covers
      <3>4. CASE added[w][j] # {}
        <4>1. loaded[w][j].check_count \in Nat
          BY <2>4 DEF TypeOK, RowOrNone, Row
        <4>2. mem[w][j].check_count = loaded[w][j].check_count + 1
          BY <3>2, <3>4 DEF SessionBacked
        <4>3. rows'[j].check_count = mem[w][j].check_count
          BY <3>1, <4>1, <4>2, FlushFigures
        <4>4. rows'[j].check_count <= checks'[j].n
          BY <1>1, <3>2, <3>4, <4>1, <4>2, <4>3 DEF SessionBacked, Covers
        <4>5. /\ mem[w][j].lowest_seen_price \in Maybe(checks'[j].prices)
              /\ mem[w][j].current_best_price \in Maybe(checks'[j].prices)
          BY <1>1, <3>2, <3>4 DEF SessionBacked
        <4>6. /\ rows'[j].lowest_seen_price \in Maybe(checks'[j].prices)
              /\ rows'[j].current_best_price \in Maybe(checks'[j].prices)
          BY <2>2, <3>1, <4>5, FlushFigures DEF Covers
        <4>7. QED
          BY <4>4, <4>6 DEF Covers
      <3>5. QED
        BY <3>3, <3>4
    <2>5. QED
      BY <2>3, <2>4
  <1>3. ASSUME NEW j \in Jobs, rows'[j] # NoRow
        PROVE  Covers(checks[j].n, checks[j].prices, rows[j])'
    <2>1. rows[j] # NoRow
      BY <1>3 DEF CommitPass, TypeOK
    <2>2. rows[j] \in Row /\ Covers(checks[j].n, checks[j].prices, rows[j])
      BY <2>1 DEF FiguresAreBacked, TypeOK, StoreTypeOK
    <2>3. QED
      BY <1>2, <1>3, <2>2
  <1>4. ASSUME NEW v \in Workers, NEW k \in Jobs, mem'[v][k] # NoRow
        PROVE  SessionBacked(v, k)'
    <2>1. v # w
      BY <1>4 DEF CommitPass, CloseSession, NoSession, TypeOK
    <2>2. /\ mem'[v] = mem[v] /\ loaded'[v] = loaded[v] /\ added'[v] = added[v]
          /\ todo'[v] = todo[v]
      BY <2>1 DEF CommitPass, CloseSession, TypeOK
    <2>3. SessionBacked(v, k)
      BY <1>4, <2>2 DEF FiguresAreBacked
    <2>4. loaded[v][k] \in Row
      BY <1>4, <2>2 DEF TypeOK, RowOrNone
    <2>5. Covers(checks'[k].n, checks'[k].prices, loaded[v][k])
      BY <1>1, <2>3, <2>4, CoversGrows DEF SessionBacked, Row
    <2>6. Maybe(checks[k].prices \cup (added[v][k] \ {None}))
             \subseteq Maybe(checks'[k].prices \cup (added[v][k] \ {None}))
      BY <1>1 DEF Maybe
    <2>7. QED
      BY <2>2, <2>3, <2>5, <2>6 DEF SessionBacked
  <1>5. QED
    BY <1>3, <1>4 DEF FiguresAreBacked

\* A pass starts with the figures of the table.
LEMMA StartPassBacked ==
    ASSUME TypeOK, FiguresAreBacked, NEW w \in Workers, StartPass(w),
           AddedIsLoaded
    PROVE  FiguresAreBacked'
  <1>1. UNCHANGED <<rows, checks, added>> /\ \A k \in Jobs : added[w][k] = {}
    BY DEF StartPass, storeVars, TypeOK, AddedIsLoaded
  <1>2. ASSUME NEW k \in Jobs, NEW v \in Workers, mem'[v][k] # NoRow
        PROVE  SessionBacked(v, k)'
    <2>1. CASE v = w
      <3>1. mem'[v][k] = rows[k] /\ loaded'[v][k] = rows[k] /\ rows[k] # NoRow
        BY <1>2, <2>1 DEF StartPass, TypeOK, Due
      <3>2. added'[v][k] = {}
        BY <1>1, <2>1
      <3>3. QED
        BY <1>1, <3>1, <3>2 DEF FiguresAreBacked, SessionBacked, SameFigures
    <2>2. CASE v # w
      <3>1. mem'[v] = mem[v] /\ loaded'[v] = loaded[v] /\ todo'[v] = todo[v]
        BY <2>2 DEF StartPass, TypeOK
      <3>2. QED
        BY <1>1, <1>2, <3>1 DEF FiguresAreBacked, SessionBacked
    <2>3. QED
      BY <2>1, <2>2
  <1>3. QED
    BY <1>1, <1>2 DEF FiguresAreBacked

\* A fresh job has no figures, and there is no session.
LEMMA InitBacked == Init => FiguresAreBacked /\ AddedIsLoaded
  <1> SUFFICES ASSUME Init PROVE FiguresAreBacked /\ AddedIsLoaded
    OBVIOUS
  <1>1. PICK hotel \in [Jobs -> Maybe(Hotels)], deadline \in [Jobs -> Maybe(Deadlines)] :
           rows = [k \in Jobs |-> NewRow("active", hotel[k], TRUE, deadline[k], 0)]
    BY DEF Init, FreshRows
  <1>2. ASSUME NEW j \in Jobs
        PROVE  Covers(checks[j].n, checks[j].prices, rows[j])
    BY <1>1 DEF Init, NoHistory, NewRow, Covers, Maybe
  <1>3. \A w \in Workers, j \in Jobs : mem[w][j] = NoRow
    BY DEF Init, SessionInit, NoSession
  <1>4. AddedIsLoaded
    BY DEF Init, SessionInit, NothingAdded, AddedIsLoaded
  <1>5. QED
    BY <1>2, <1>3, <1>4 DEF FiguresAreBacked

\* Every step of the worker, and time passing, leaves the figures backed.
LEMMA NextKeepsBacked ==
    TypeOK /\ AddedIsLoaded /\ FiguresAreBacked /\ [Next]_schedVars => FiguresAreBacked'
  <1> SUFFICES ASSUME TypeOK, AddedIsLoaded, FiguresAreBacked, [Next]_schedVars
               PROVE  FiguresAreBacked'
    OBVIOUS
  <1>1. CASE UNCHANGED <<rows, checks, sessionVars>>
    BY <1>1 DEF sessionVars, FiguresAreBacked, SessionBacked
  <1>2. ASSUME NEW w \in Workers, StartPass(w) PROVE FiguresAreBacked'
    BY <1>2, StartPassBacked
  <1>3. ASSUME NEW w \in Workers, NEW j \in Jobs, SkipPaused(w, j) PROVE FiguresAreBacked'
    <2>1. UNCHANGED <<rows, checks, loaded, mem, added>>
      BY <1>3 DEF SkipPaused, Reach
    <2>2. \A v \in Workers : todo'[v] \subseteq todo[v]
      BY <1>3 DEF SkipPaused, Reach, TypeOK
    <2>3. QED
      BY <2>1, <2>2 DEF FiguresAreBacked, SessionBacked
  <1>4. ASSUME NEW w \in Workers, NEW j \in Jobs, ProcessJob(w, j) PROVE FiguresAreBacked'
    BY <1>4, ProcessBacked
  <1>5. ASSUME NEW w \in Workers, CommitPass(w) PROVE FiguresAreBacked'
    BY <1>5, CommitBacked
  <1>6. ASSUME NEW w \in Workers, Crash(w) PROVE FiguresAreBacked'
    <2>1. UNCHANGED <<rows, checks>> /\ CloseSession(w)
      BY <1>6 DEF Crash, storeVars
    <2>2. ASSUME NEW v \in Workers, NEW k \in Jobs, mem'[v][k] # NoRow
          PROVE  /\ mem'[v] = mem[v] /\ loaded'[v] = loaded[v]
                 /\ added'[v] = added[v] /\ todo'[v] = todo[v]
      BY <2>1, <2>2 DEF CloseSession, NoSession, TypeOK
    <2>3. ASSUME NEW v \in Workers, NEW k \in Jobs, mem'[v][k] # NoRow
          PROVE  SessionBacked(v, k)'
      <3>1. /\ mem'[v] = mem[v] /\ loaded'[v] = loaded[v]
            /\ added'[v] = added[v] /\ todo'[v] = todo[v]
        BY <2>2, <2>3
      <3>2. SessionBacked(v, k)
        BY <2>3, <3>1 DEF FiguresAreBacked
      <3>3. QED
        BY <2>1, <3>1, <3>2 DEF SessionBacked
    <2>4. QED
      BY <2>1, <2>3 DEF FiguresAreBacked
  <1>7. CASE Tick /\ UNCHANGED <<sessionVars, crashes>>
    BY <1>1, <1>7 DEF Tick
  <1>8. QED
    BY <1>1, <1>2, <1>3, <1>4, <1>5, <1>6, <1>7 DEF Next, PassStep, schedVars, storeVars

\* However passes of several workers overlap and die, a job never claims more
\* checks than were recorded, nor a price that no recorded check found:
\* the commit of run_once writes the figures with the PriceCheck rows.
THEOREM ChecksNotOverstatedAlways == Spec => []ChecksNotOverstated
  <1>1. FiguresAreBacked => ChecksNotOverstated
    BY DEF FiguresAreBacked, Covers, ChecksNotOverstated
  <1>2. QED
    BY <1>1, InitTypes, InitBacked, NextKeepsTypes, NextKeepsAdded, NextKeepsBacked, PTL
    DEF Spec

=============================================================================

--------------------------- MODULE SchedulerProofs ---------------------------
(***************************************************************************)
(* Proofs about the worker, for any number of workers, jobs and crashes.   *)
(***************************************************************************)
EXTENDS Scheduler, TLAPS

(* What the operators return. *)

\* A commit that writes the changed columns of a row leaves a row.
LEMMA FlushType ==
    ASSUME NEW row \in Row, NEW old \in Row, NEW new \in Row
    PROVE  Flush(row, old, new) \in Row
  BY DEF Flush, Row

\* The cadence is one of the three intervals.
LEMMA CadenceType ==
    ASSUME NEW h PROVE CadenceHours(h) \in Nat
  BY SchedulerAssumption DEF CadenceHours

\* A check leaves a row, whatever it found.
LEMMA CheckedType ==
    ASSUME NEW row \in Row, NEW best \in Maybe(Offers)
    PROVE  Checked(row, best) \in Row
  <1>1. CASE best = None
    BY <1>1 DEF Checked, Row
  <1>2. CASE best # None
    <2>1. best.price \in Prices
      BY <1>2, SchedulerAssumption DEF Maybe
    <2> DEFINE seen == [row EXCEPT !.check_count = @ + 1]
               low == IF seen.lowest_seen_price = None THEN best.price
                      ELSE IF best.price < seen.lowest_seen_price THEN best.price
                      ELSE seen.lowest_seen_price
    <2>2. seen \in Row
      BY DEF Row
    <2>3. low \in Maybe(Prices)
      BY <2>1, <2>2 DEF Row, Maybe
    <2>4. Checked(row, best) = [seen EXCEPT !.current_best_price = best.price,
                                            !.lowest_seen_price = low]
      BY <1>2 DEF Checked
    <2>5. best.price \in Maybe(Prices)
      BY <2>1 DEF Maybe
    <2> HIDE DEF seen, low
    <2>6. QED
      BY <2>2, <2>3, <2>4, <2>5 DEF Row
  <1>3. QED
    BY <1>1, <1>2

\* ... and, rescheduled, still a row.
LEMMA CheckedRowType ==
    ASSUME TypeOK, NEW w \in Workers, NEW j \in Jobs, mem[w][j] \in Row,
           passNow[w] # None, NEW hotel \in Hotels, NEW best \in Maybe(Offers),
           NEW jitter \in Jitters
    PROVE  CheckedRow(w, j, hotel, best, jitter) \in Row
  <1> DEFINE checked == Checked(mem[w][j], best)
             hrs == HoursUntil(mem[w][j].cancellation_deadline, passNow[w])
             next == passNow[w] + CadenceHours(hrs) + jitter
  <1>1. checked \in Row
    BY CheckedType
  <1>2. next \in Nat
    <2>1. passNow[w] \in Nat
      BY DEF TypeOK, Maybe, Time
    <2>2. jitter \in Nat
      BY SchedulerAssumption
    <2>3. QED
      BY <2>1, <2>2, CadenceType
  <1>3. CheckedRow(w, j, hotel, best, jitter)
           = [checked EXCEPT !.hotel_id = hotel, !.next_check_at = next]
    BY DEF CheckedRow
  <1> HIDE DEF checked, hrs, next
  <1>4. QED
    BY <1>1, <1>2, <1>3 DEF Row, Maybe, Time

\* Mail only grows: an accepted event is appended, nothing is taken back.
LEMMA EmitType ==
    ASSUME mail \in [Jobs -> Seq(Event)], NEW j \in Jobs, NEW event \in Event,
           NEW outcome \in Outcomes, Emit(j, event, outcome)
    PROVE  mail' \in [Jobs -> Seq(Event)]
  BY DEF Emit

\* The row of a job the loop has not reached is in the session.
LEMMA TodoRow ==
    ASSUME TypeOK, NEW w \in Workers, NEW j \in Jobs, j \in todo[w]
    PROVE  mem[w][j] \in Row /\ passNow[w] \in Nat /\ passNow[w] # None
  BY DEF TypeOK, RowOrNone, Maybe, Time

-----------------------------------------------------------------------------
(* Type correctness. *)

\* Every way of processing a job keeps the types if the parts it fills in do.
LEMMA ProcessKeepsTypes ==
    ASSUME TypeOK, NEW w \in Workers, NEW j \in Jobs, NEW row \in Row,
           Process(w, j, row),
           mail' \in [Jobs -> Seq(Event)],
           added' \in [Workers -> [Jobs -> SUBSET Maybe(Prices)]]
    PROVE  TypeOK'
  <1> USE DEF Process, Reach
  <1>1. StoreTypeOK'
    BY DEF TypeOK, StoreTypeOK
  <1>2. todo' \in [Workers -> SUBSET Jobs]
    BY DEF TypeOK
  <1>3. mem' \in [Workers -> [Jobs -> RowOrNone]]
    BY DEF TypeOK, RowOrNone
  <1>4. planSeen' \in [Workers -> [Users -> Maybe(PlanStatus)]]
    <2>1. SeenPlan(w, Owner[j]) \in Maybe(PlanStatus)
      BY StoreAssumption DEF TypeOK, StoreTypeOK, SeenPlan, Maybe
    <2>2. QED
      BY <2>1 DEF TypeOK
  <1>5. ASSUME NEW v \in Workers, NEW k \in Jobs
        PROVE  /\ loaded'[v][k] = NoRow <=> mem'[v][k] = NoRow
               /\ k \in todo'[v] => mem'[v][k] # NoRow
               /\ mem'[v][k] # NoRow => passNow'[v] # None /\ rows'[k] # NoRow
    <2>1. mem[w][j] # NoRow /\ row # NoRow
      BY StoreAssumption DEF TypeOK
    <2>2. mem'[v][k] = IF v = w /\ k = j THEN row ELSE mem[v][k]
      BY DEF TypeOK
    <2>3. k \in todo'[v] => k \in todo[v]
      BY DEF TypeOK
    <2>4. QED
      BY <2>1, <2>2, <2>3 DEF TypeOK
  <1>6. QED
    BY <1>1, <1>2, <1>3, <1>4, <1>5 DEF TypeOK


\* The initial states are typed: no session, and the rows POST /jobs inserts.
LEMMA InitTypes == Init => TypeOK
  <1> SUFFICES ASSUME Init PROVE TypeOK
    OBVIOUS
  <1>1. rows \in [Jobs -> RowOrNone] /\ \A j \in Jobs : rows[j] \in Row
    <2>1. ASSUME NEW hotel \in Maybe(Hotels), NEW deadline \in Maybe(Deadlines)
          PROVE  NewRow("active", hotel, TRUE, deadline, 0) \in Row
      <3>1. deadline \in Maybe(Time) /\ 0 \in Maybe(Time) /\ None \in Maybe(Prices)
        BY SchedulerAssumption DEF Maybe, Time
      <3>2. "active" \in JobStatus
        BY DEF JobStatus, Monitored
      <3>3. QED
        BY <3>1, <3>2 DEF NewRow, Row
    <2>2. PICK hotel \in [Jobs -> Maybe(Hotels)], deadline \in [Jobs -> Maybe(Deadlines)] :
             rows = [j \in Jobs |-> NewRow("active", hotel[j], TRUE, deadline[j], 0)]
      BY DEF Init, FreshRows
    <2>3. \A j \in Jobs : rows[j] \in Row
      BY <2>1, <2>2
    <2>4. QED
      BY <2>2, <2>3 DEF RowOrNone
  <1>2. checks \in [Jobs -> History] /\ plan \in [Users -> PlanStatus]
    BY DEF Init, NoHistory, History, PlanStatus
  <1>3. clock \in Time /\ mail \in [Jobs -> Seq(Event)]
    BY DEF Init, Time
  <1>4. QED
    BY <1>1, <1>2, <1>3, StoreAssumption
    DEF Init, SessionInit, TypeOK, StoreTypeOK, RowOrNone, Maybe, NoSession,
        NothingAdded, NothingSeen

\* Opening a pass keeps the types: what it loads are rows of the table.
LEMMA StartPassKeepsTypes ==
    ASSUME TypeOK, NEW w \in Workers, StartPass(w)
    PROVE  TypeOK'
  <1>1. StoreTypeOK' /\ added' = added /\ planSeen' = planSeen /\ crashes' = crashes
    BY DEF StartPass, TypeOK, StoreTypeOK, storeVars
  <1>2. passNow' \in [Workers -> Maybe(Time)] /\ passNow'[w] # None
    BY StoreAssumption, FloorAssumption DEF StartPass, TypeOK, StoreTypeOK, Maybe, Time
  <1>3. \A v \in Workers : v # w => /\ passNow'[v] = passNow[v]
                                    /\ todo'[v] = todo[v]
                                    /\ loaded'[v] = loaded[v]
                                    /\ mem'[v] = mem[v]
    BY DEF StartPass, TypeOK
  <1>4. todo'[w] = {j \in Jobs : Due(rows[j], clock)}
    BY DEF StartPass, TypeOK
  <1>5. /\ loaded'[w] = [j \in Jobs |-> IF Due(rows[j], clock) THEN rows[j] ELSE NoRow]
        /\ mem'[w] = loaded'[w]
    BY DEF StartPass, TypeOK
  <1>6. loaded'[w] \in [Jobs -> RowOrNone]
    BY <1>5 DEF TypeOK, StoreTypeOK, RowOrNone
  <1>7. /\ todo' \in [Workers -> SUBSET Jobs]
        /\ loaded' \in [Workers -> [Jobs -> RowOrNone]]
        /\ mem' \in [Workers -> [Jobs -> RowOrNone]]
    BY <1>4, <1>5, <1>6 DEF StartPass, TypeOK
  <1>8. ASSUME NEW v \in Workers, NEW k \in Jobs
        PROVE  /\ loaded'[v][k] = NoRow <=> mem'[v][k] = NoRow
               /\ k \in todo'[v] => mem'[v][k] # NoRow
               /\ mem'[v][k] # NoRow => passNow'[v] # None /\ rows'[k] # NoRow
    <2>1. rows' = rows
      BY DEF StartPass, storeVars
    <2>2. CASE v = w
      BY <2>1, <2>2, <1>2, <1>4, <1>5 DEF Due
    <2>3. CASE v # w
      BY <2>1, <2>3, <1>3 DEF TypeOK
    <2>4. QED
      BY <2>2, <2>3
  <1>9. QED
    BY <1>1, <1>2, <1>7, <1>8 DEF TypeOK

\* Closing a session empties its variables.
LEMMA CloseSessionKeepsTypes ==
    ASSUME TypeOK, NEW w \in Workers, CloseSession(w), StoreTypeOK', crashes' \in Nat,
           \A j \in Jobs : rows[j] # NoRow => rows'[j] # NoRow
    PROVE  TypeOK'
  <1>1. /\ passNow' \in [Workers -> Maybe(Time)]
        /\ todo' \in [Workers -> SUBSET Jobs]
        /\ added' \in [Workers -> [Jobs -> SUBSET Maybe(Prices)]]
        /\ planSeen' \in [Workers -> [Users -> Maybe(PlanStatus)]]
    BY DEF CloseSession, TypeOK, NothingAdded, NothingSeen, Maybe
  <1>2. /\ loaded' \in [Workers -> [Jobs -> RowOrNone]]
        /\ mem' \in [Workers -> [Jobs -> RowOrNone]]
    BY DEF CloseSession, TypeOK, NoSession, RowOrNone
  <1>3. ASSUME NEW v \in Workers, NEW k \in Jobs
        PROVE  /\ loaded'[v][k] = NoRow <=> mem'[v][k] = NoRow
               /\ k \in todo'[v] => mem'[v][k] # NoRow
               /\ mem'[v][k] # NoRow => passNow'[v] # None /\ rows'[k] # NoRow
    BY DEF CloseSession, TypeOK, NoSession
  <1>4. QED
    BY <1>1, <1>2, <1>3 DEF TypeOK

\* The commit of a pass keeps the types, column by column.
LEMMA CommitPassKeepsTypes ==
    ASSUME TypeOK, NEW w \in Workers, CommitPass(w)
    PROVE  TypeOK'
  <1>1. ASSUME NEW j \in Jobs
        PROVE  rows'[j] \in RowOrNone /\ (rows[j] # NoRow => rows'[j] # NoRow)
    <2>1. CASE mem[w][j] = NoRow
      BY <2>1 DEF CommitPass, TypeOK, StoreTypeOK, RowOrNone
    <2>2. CASE mem[w][j] # NoRow
      <3>1. rows[j] \in Row /\ loaded[w][j] \in Row /\ mem[w][j] \in Row
        BY <2>2 DEF TypeOK, StoreTypeOK, RowOrNone
      <3>2. rows'[j] = Flush(rows[j], loaded[w][j], mem[w][j])
        BY <2>2 DEF CommitPass
      <3>3. QED
        BY <3>1, <3>2, FlushType, StoreAssumption DEF RowOrNone
    <2>3. QED
      BY <2>1, <2>2
  <1>2. rows' \in [Jobs -> RowOrNone]
    BY <1>1 DEF CommitPass
  <1>3. checks' \in [Jobs -> History]
    <2>1. ASSUME NEW j \in Jobs
          PROVE  /\ (IF added[w][j] = {} THEN checks[j].n ELSE checks[j].n + 1) \in Nat
                 /\ checks[j].prices \cup (added[w][j] \ {None}) \in SUBSET Prices
      BY DEF TypeOK, StoreTypeOK, History, Maybe
    <2>2. QED
      BY <2>1 DEF CommitPass, History
  <1>4. StoreTypeOK'
    BY <1>2, <1>3 DEF CommitPass, TypeOK, StoreTypeOK, RowOrNone
  <1>5. QED
    BY <1>1, <1>4, CloseSessionKeepsTypes DEF CommitPass, TypeOK


\* The wrap-up keeps the types.
LEMMA EndMonitoringKeepsTypes ==
    ASSUME TypeOK, NEW w \in Workers, NEW j \in Jobs, EndMonitoring(w, j)
    PROVE  TypeOK'
  <1> DEFINE row == mem[w][j]
             wrapUp == [kind |-> "MonitoringEnded", price |-> row.lowest_seen_price,
                        note |-> row.drop_alert_sent]
             Row2(outcome) == IF Delivered(outcome)
                              THEN [row EXCEPT !.status = "expired", !.next_check_at = None]
                              ELSE [row EXCEPT !.next_check_at = passNow[w] + RetryHours]
  <1>1. row \in Row /\ passNow[w] \in Nat
    BY TodoRow DEF EndMonitoring
  <1>2. PICK outcome \in Outcomes : Emit(j, wrapUp, outcome) /\ Process(w, j, Row2(outcome))
    BY DEF EndMonitoring
  <1>3. mail' \in [Jobs -> Seq(Event)]
    <2>1. wrapUp \in Event
      BY <1>1 DEF Event, EventKinds, Row
    <2>2. QED
      BY <1>2, <2>1, EmitType DEF TypeOK, StoreTypeOK
  <1>4. Row2(outcome) \in Row
    <2>1. passNow[w] + RetryHours \in Maybe(Time) /\ None \in Maybe(Time)
      BY <1>1, SchedulerAssumption DEF Maybe, Time
    <2>2. "expired" \in JobStatus
      BY DEF JobStatus
    <2> HIDE DEF row
    <2>3. QED
      BY <1>1, <2>1, <2>2 DEF Row
  <1>5. added' \in [Workers -> [Jobs -> SUBSET Maybe(Prices)]]
    BY DEF EndMonitoring, TypeOK
  <1> HIDE DEF row, wrapUp, Row2
  <1>6. QED
    BY <1>2, <1>3, <1>4, <1>5, ProcessKeepsTypes

\* Rescheduling a job without a hotel keeps the types.
LEMMA StayUnresolvedKeepsTypes ==
    ASSUME TypeOK, NEW w \in Workers, NEW j \in Jobs, StayUnresolved(w, j)
    PROVE  TypeOK'
  <1> DEFINE hrs == HoursUntil(mem[w][j].cancellation_deadline, passNow[w])
             row == [mem[w][j] EXCEPT !.next_check_at = passNow[w] + CadenceHours(hrs)]
  <1>1. mem[w][j] \in Row /\ passNow[w] + CadenceHours(hrs) \in Maybe(Time)
    BY TodoRow, CadenceType DEF StayUnresolved, Maybe, Time
  <1>2. row \in Row
    BY <1>1 DEF Row
  <1>3. Process(w, j, row) /\ mail' = mail /\ added' = added
    BY DEF StayUnresolved
  <1> HIDE DEF row, hrs
  <1>4. QED
    BY <1>2, <1>3, ProcessKeepsTypes DEF TypeOK, StoreTypeOK

\* A price source that raises keeps the types.
LEMMA CheckRaisesKeepsTypes ==
    ASSUME TypeOK, NEW w \in Workers, NEW j \in Jobs, CheckRaises(w, j)
    PROVE  TypeOK'
  <1>1. mem[w][j] \in Row
    BY TodoRow DEF CheckRaises
  <1>2. PICK hotel \in Resolved(mem[w][j]) \ {None} :
            Process(w, j, [mem[w][j] EXCEPT !.hotel_id = hotel])
    BY DEF CheckRaises
  <1>3. hotel \in Maybe(Hotels)
    BY <1>1 DEF Resolved, Row, Maybe
  <1>4. [mem[w][j] EXCEPT !.hotel_id = hotel] \in Row
    BY <1>1, <1>3 DEF Row
  <1>5. QED
    BY <1>2, <1>4, ProcessKeepsTypes DEF CheckRaises, TypeOK, StoreTypeOK

\* The parts every completed check shares.
LEMMA CheckType ==
    ASSUME TypeOK, NEW w \in Workers, NEW j \in Jobs, NEW hotel \in Hotels,
           NEW best \in Maybe(Offers), NEW jitter \in Jitters, Check(w, j, hotel, best)
    PROVE  /\ CheckedRow(w, j, hotel, best, jitter) \in Row
           /\ added' \in [Workers -> [Jobs -> SUBSET Maybe(Prices)]]
  <1>1. CheckedRow(w, j, hotel, best, jitter) \in Row
    BY TodoRow, CheckedRowType DEF Check
  <1>2. {IF best = None THEN None ELSE best.price} \in SUBSET Maybe(Prices)
    BY SchedulerAssumption DEF Maybe
  <1>3. added' \in [Workers -> [Jobs -> SUBSET Maybe(Prices)]]
    BY <1>2 DEF Check, TypeOK
  <1>4. QED
    BY <1>1, <1>3

\* The drop alert keeps the types.
LEMMA RaiseDropAlertKeepsTypes ==
    ASSUME TypeOK, NEW w \in Workers, NEW j \in Jobs, RaiseDropAlert(w, j)
    PROVE  TypeOK'
  <1> DEFINE Row1(hotel, best, jitter) == CheckedRow(w, j, hotel, best, jitter)
             Alert(best) == [kind |-> "PriceDropFound", price |-> best.price,
                             note |-> best.link]
             Row2(row, best, outcome) ==
                IF Delivered(outcome)
                THEN [row EXCEPT !.status = "drop_found", !.drop_alert_sent = TRUE,
                                 !.lowest_alerted_price = best.price]
                ELSE row
  <1>1. PICK hotel \in Hotels, best \in Offers, jitter \in Jitters, outcome \in Outcomes :
            /\ Check(w, j, hotel, best)
            /\ Emit(j, Alert(best), outcome)
            /\ Process(w, j, Row2(Row1(hotel, best, jitter), best, outcome))
    BY DEF RaiseDropAlert
  <1>2. best \in Maybe(Offers) /\ best.price \in Prices /\ best.link \in BOOLEAN
    BY SchedulerAssumption DEF Maybe
  <1>3. /\ Row1(hotel, best, jitter) \in Row
        /\ added' \in [Workers -> [Jobs -> SUBSET Maybe(Prices)]]
    BY <1>1, <1>2, CheckType
  <1>4. mail' \in [Jobs -> Seq(Event)]
    <2>1. Alert(best) \in Event
      BY <1>2 DEF Event, EventKinds, Maybe
    <2>2. QED
      BY <1>1, <2>1, EmitType DEF TypeOK, StoreTypeOK
  <1> HIDE DEF Row1
  <1>5. Row2(Row1(hotel, best, jitter), best, outcome) \in Row
    BY <1>2, <1>3 DEF Row, JobStatus, Monitored, Maybe
  <1> HIDE DEF Row2
  <1>6. QED
    BY <1>1, <1>3, <1>4, <1>5, ProcessKeepsTypes

\* The deadline guard keeps the types.
LEMMA RaiseDeadlineAlertKeepsTypes ==
    ASSUME TypeOK, NEW w \in Workers, NEW j \in Jobs, RaiseDeadlineAlert(w, j)
    PROVE  TypeOK'
  <1> DEFINE Row1(hotel, best, jitter) == CheckedRow(w, j, hotel, best, jitter)
             Alert(row) == [kind |-> "DeadlineApproaching",
                            price |-> row.lowest_seen_price, note |-> SawMovement(j, row)]
             Row2(row, outcome) ==
                IF Delivered(outcome)
                THEN [row EXCEPT !.status = "deadline_soon", !.deadline_alert_sent = TRUE]
                ELSE row
  <1>1. PICK hotel \in Hotels, best \in Maybe(Offers), jitter \in Jitters,
             outcome \in Outcomes :
            /\ Check(w, j, hotel, best)
            /\ Emit(j, Alert(Row1(hotel, best, jitter)), outcome)
            /\ Process(w, j, Row2(Row1(hotel, best, jitter), outcome))
    BY DEF RaiseDeadlineAlert
  <1>2. /\ Row1(hotel, best, jitter) \in Row
        /\ added' \in [Workers -> [Jobs -> SUBSET Maybe(Prices)]]
    BY <1>1, CheckType
  <1> HIDE DEF Row1
  <1>3. mail' \in [Jobs -> Seq(Event)]
    <2>1. Alert(Row1(hotel, best, jitter)) \in Event
      <3>1. SawMovement(j, Row1(hotel, best, jitter)) \in BOOLEAN
        BY DEF SawMovement
      <3>2. QED
        BY <1>2, <3>1 DEF Event, EventKinds, Row
    <2>2. QED
      BY <1>1, <2>1, EmitType DEF TypeOK, StoreTypeOK
  <1>4. Row2(Row1(hotel, best, jitter), outcome) \in Row
    BY <1>2 DEF Row, JobStatus, Monitored
  <1> HIDE DEF Row2
  <1>5. QED
    BY <1>1, <1>2, <1>3, <1>4, ProcessKeepsTypes

\* A check with nothing to tell keeps the types.
LEMMA StayQuietKeepsTypes ==
    ASSUME TypeOK, NEW w \in Workers, NEW j \in Jobs, StayQuiet(w, j)
    PROVE  TypeOK'
  <1>1. PICK hotel \in Hotels, best \in Maybe(Offers), jitter \in Jitters :
            /\ Check(w, j, hotel, best)
            /\ Process(w, j, CheckedRow(w, j, hotel, best, jitter))
    BY DEF StayQuiet
  <1>2. mail' \in [Jobs -> Seq(Event)]
    BY DEF StayQuiet, TypeOK, StoreTypeOK
  <1>3. QED
    BY <1>1, <1>2, CheckType, ProcessKeepsTypes

\* Passing over a paused user keeps the types.
LEMMA SkipPausedKeepsTypes ==
    ASSUME TypeOK, NEW w \in Workers, NEW j \in Jobs, SkipPaused(w, j)
    PROVE  TypeOK'
  <1>1. SeenPlan(w, Owner[j]) \in Maybe(PlanStatus)
    BY StoreAssumption DEF TypeOK, StoreTypeOK, SeenPlan, Maybe
  <1>2. planSeen' \in [Workers -> [Users -> Maybe(PlanStatus)]]
    BY <1>1 DEF SkipPaused, Reach, TypeOK
  <1>3. todo' \in [Workers -> SUBSET Jobs] /\ \A v \in Workers : todo'[v] \subseteq todo[v]
    BY DEF SkipPaused, Reach, TypeOK
  <1>4. QED
    BY <1>2, <1>3 DEF SkipPaused, Reach, TypeOK, StoreTypeOK

\* Every step of the worker, and time passing, keeps the types.
LEMMA NextKeepsTypes == TypeOK /\ [Next]_schedVars => TypeOK'
  <1> SUFFICES ASSUME TypeOK, [Next]_schedVars PROVE TypeOK'
    OBVIOUS
  <1>1. CASE UNCHANGED schedVars
    BY <1>1 DEF schedVars, sessionVars, storeVars, TypeOK, StoreTypeOK
  <1>2. ASSUME NEW w \in Workers, StartPass(w) PROVE TypeOK'
    BY <1>2, StartPassKeepsTypes
  <1>3. ASSUME NEW w \in Workers, NEW j \in Jobs, SkipPaused(w, j) PROVE TypeOK'
    BY <1>3, SkipPausedKeepsTypes
  <1>4. ASSUME NEW w \in Workers, NEW j \in Jobs, ProcessJob(w, j) PROVE TypeOK'
    BY <1>4, EndMonitoringKeepsTypes, StayUnresolvedKeepsTypes, CheckRaisesKeepsTypes,
       RaiseDropAlertKeepsTypes, RaiseDeadlineAlertKeepsTypes, StayQuietKeepsTypes
    DEF ProcessJob
  <1>5. ASSUME NEW w \in Workers, CommitPass(w) PROVE TypeOK'
    BY <1>5, CommitPassKeepsTypes
  <1>6. ASSUME NEW w \in Workers, Crash(w) PROVE TypeOK'
    <2>1. StoreTypeOK' /\ crashes' \in Nat /\ rows' = rows
      BY <1>6 DEF Crash, storeVars, TypeOK, StoreTypeOK
    <2>2. QED
      BY <1>6, <2>1, CloseSessionKeepsTypes DEF Crash
  <1>7. CASE Tick /\ UNCHANGED <<sessionVars, crashes>>
    BY <1>7 DEF Tick, sessionVars, TypeOK, StoreTypeOK, Time
  <1>8. QED
    BY <1>1, <1>2, <1>3, <1>4, <1>5, <1>6, <1>7 DEF Next, PassStep

\* The worker is type correct, for every number of workers, jobs and crashes.
THEOREM TypeCorrect == Spec => []TypeOK
  <1>1. QED
    BY InitTypes, NextKeepsTypes, PTL DEF Spec


-----------------------------------------------------------------------------
(* What is recorded as told was told. *)

\* Nothing in `old` is missing from `new`.
Extends(old, new) == \A i \in DOMAIN old : i \in DOMAIN new /\ new[i] = old[i]

\* Mail only grows, and an event whose acceptance came back is in it.
LEMMA EmitGrows ==
    ASSUME mail \in [Jobs -> Seq(Event)], NEW j \in Jobs, NEW event \in Event,
           NEW outcome \in Outcomes, Emit(j, event, outcome)
    PROVE  /\ \A k \in Jobs : Extends(mail[k], mail'[k])
           /\ Delivered(outcome) =>
                 \E i \in DOMAIN mail'[j] : mail'[j][i] = event
  <1>1. CASE outcome = "failed"
    BY <1>1 DEF Emit, Extends, Delivered
  <1>2. CASE outcome # "failed"
    <2>1. /\ mail'[j] = Append(mail[j], event)
          /\ \A k \in Jobs : k # j => mail'[k] = mail[k]
      BY <1>2 DEF Emit
    <2>2. mail[j] \in Seq(Event)
      OBVIOUS
    <2>3. Extends(mail[j], Append(mail[j], event))
      BY <2>2 DEF Extends
    <2>4. /\ Len(mail[j]) + 1 \in DOMAIN Append(mail[j], event)
          /\ Append(mail[j], event)[Len(mail[j]) + 1] = event
      BY <2>2
    <2>5. QED
      BY <2>1, <2>3, <2>4 DEF Extends
  <1>3. QED
    BY <1>1, <1>2

\* An honest row stays honest when more mail arrives.
LEMMA HonestGrows ==
    ASSUME NEW row, NEW old, NEW new, Extends(old, new), Honest(row, old)
    PROVE  Honest(row, new)
  BY DEF Honest, Has, HasDropAt, Extends

\* Column-wise commits keep honesty: the two drop columns are written together
\* or not at all, and nobody un-alerts a row.
LEMMA FlushHonest ==
    ASSUME NEW box, NEW row \in Row, NEW old \in Row, NEW new \in Row,
           Honest(row, box), Honest(old, box), Honest(new, box),
           old.drop_alert_sent => new.drop_alert_sent /\ row.drop_alert_sent
    PROVE  /\ Honest(Flush(row, old, new), box)
           /\ row.drop_alert_sent => Flush(row, old, new).drop_alert_sent
  <1> DEFINE out == Flush(row, old, new)
  <1>1. /\ out.status \in {row.status, new.status}
        /\ out.deadline_alert_sent \in {row.deadline_alert_sent, new.deadline_alert_sent}
    BY DEF Flush
  <1>2. out.drop_alert_sent = IF new.drop_alert_sent = old.drop_alert_sent
                              THEN row.drop_alert_sent ELSE new.drop_alert_sent
    BY DEF Flush
  <1>3. out.lowest_alerted_price = IF new.lowest_alerted_price = old.lowest_alerted_price
                                   THEN row.lowest_alerted_price
                                   ELSE new.lowest_alerted_price
    BY DEF Flush
  <1>4. /\ out.drop_alert_sent \in BOOLEAN /\ row.drop_alert_sent \in BOOLEAN
        /\ old.drop_alert_sent \in BOOLEAN /\ new.drop_alert_sent \in BOOLEAN
    BY FlushType DEF Row
  <1> HIDE DEF out
  <1>5. row.drop_alert_sent => out.drop_alert_sent
    BY <1>2, <1>4
  <1>6. out.drop_alert_sent <=> out.lowest_alerted_price # None
    BY <1>2, <1>3, <1>4 DEF Honest
  <1>7. out.drop_alert_sent => HasDropAt(box, out.lowest_alerted_price)
    BY <1>3, <1>6 DEF Honest
  <1>8. /\ out.deadline_alert_sent => Has(box, "DeadlineApproaching")
        /\ out.status = "expired" => Has(box, "MonitoringEnded")
    BY <1>1 DEF Honest
  <1>9. QED
    BY <1>5, <1>6, <1>7, <1>8 DEF Honest, out


\* Processing a job keeps the records honest if the mail grew and the row the
\* session is left with is honest about it.
LEMMA ProcessHonest ==
    ASSUME TypeOK, RecordsAreHonest, NEW w \in Workers, NEW j \in Jobs, NEW row \in Row,
           Process(w, j, row),
           \A k \in Jobs : Extends(mail[k], mail'[k]),
           Honest(row, mail'[j]),
           mem[w][j].drop_alert_sent => row.drop_alert_sent
    PROVE  RecordsAreHonest'
  <1>1. rows' = rows /\ loaded' = loaded /\ mem[w][j] # NoRow
    BY DEF Process, Reach, TypeOK
  <1>2. ASSUME NEW k \in Jobs, rows'[k] # NoRow
        PROVE  Honest(rows'[k], mail'[k])
    <2>1. Honest(rows[k], mail[k]) /\ Extends(mail[k], mail'[k])
      BY <1>1, <1>2 DEF RecordsAreHonest
    <2>2. QED
      BY <1>1, <2>1, HonestGrows
  <1>3. ASSUME NEW k \in Jobs, NEW v \in Workers, mem'[v][k] # NoRow
        PROVE  SessionHonest(v, k)'
    <2>1. mem'[v][k] = IF v = w /\ k = j THEN row ELSE mem[v][k]
      BY DEF Process, TypeOK
    <2>2. mem[v][k] # NoRow /\ SessionHonest(v, k)
      BY <1>1, <1>3, <2>1 DEF RecordsAreHonest
    <2>3. Honest(loaded[v][k], mail'[k])
      BY <2>2, HonestGrows DEF SessionHonest
    <2>4. Honest(mem'[v][k], mail'[k])
      <3>1. CASE v = w /\ k = j
        BY <3>1, <2>1
      <3>2. CASE ~(v = w /\ k = j)
        BY <3>2, <2>1, <2>2, HonestGrows DEF SessionHonest
      <3>3. QED
        BY <3>1, <3>2
    <2>5. loaded[v][k].drop_alert_sent => mem'[v][k].drop_alert_sent /\ rows[k].drop_alert_sent
      BY <2>1, <2>2 DEF SessionHonest
    <2>6. QED
      BY <1>1, <2>3, <2>4, <2>5 DEF SessionHonest
  <1>4. QED
    BY <1>2, <1>3 DEF RecordsAreHonest

\* ... in particular if it says nothing about alerts that it did not say before.
LEMMA QuietProcessHonest ==
    ASSUME TypeOK, RecordsAreHonest, NEW w \in Workers, NEW j \in Jobs, NEW row \in Row,
           Process(w, j, row),
           \A k \in Jobs : Extends(mail[k], mail'[k]),
           row.status = mem[w][j].status,
           row.drop_alert_sent = mem[w][j].drop_alert_sent,
           row.lowest_alerted_price = mem[w][j].lowest_alerted_price,
           row.deadline_alert_sent = mem[w][j].deadline_alert_sent
    PROVE  RecordsAreHonest'
  <1>1. Honest(mem[w][j], mail[j])
    BY DEF Process, Reach, TypeOK, RecordsAreHonest, SessionHonest
  <1>2. Honest(mem[w][j], mail'[j])
    BY <1>1, HonestGrows
  <1>3. Honest(row, mail'[j])
    BY <1>2 DEF Honest
  <1>4. QED
    BY <1>3, ProcessHonest

\* A check does not touch what was told.
LEMMA CheckedRowAlerts ==
    ASSUME NEW w, NEW j, mem[w][j] \in Row, NEW hotel, NEW best, NEW jitter
    PROVE  LET row == CheckedRow(w, j, hotel, best, jitter)
           IN  /\ row.status = mem[w][j].status
               /\ row.drop_alert_sent = mem[w][j].drop_alert_sent
               /\ row.lowest_alerted_price = mem[w][j].lowest_alerted_price
               /\ row.deadline_alert_sent = mem[w][j].deadline_alert_sent
  BY DEF CheckedRow, Checked, Row

\* Fresh rows claim nothing, and no session is open.
LEMMA InitHonest == Init => RecordsAreHonest
  <1> SUFFICES ASSUME Init, NEW j \in Jobs
               PROVE  /\ Honest(rows[j], mail[j])
                      /\ \A w \in Workers : mem[w][j] = NoRow
    BY DEF RecordsAreHonest
  <1>1. PICK hotel \in [Jobs -> Maybe(Hotels)], deadline \in [Jobs -> Maybe(Deadlines)] :
           rows = [k \in Jobs |-> NewRow("active", hotel[k], TRUE, deadline[k], 0)]
    BY DEF Init, FreshRows
  <1>2. Honest(rows[j], mail[j])
    BY <1>1 DEF NewRow, Honest
  <1>3. QED
    BY <1>2 DEF Init, SessionInit, NoSession

\* The copies a pass loads are as honest as the rows they copy.
LEMMA StartPassHonest ==
    ASSUME TypeOK, RecordsAreHonest, NEW w \in Workers, StartPass(w)
    PROVE  RecordsAreHonest'
  <1>1. rows' = rows /\ mail' = mail
    BY DEF StartPass, storeVars
  <1>2. ASSUME NEW k \in Jobs, NEW v \in Workers, mem'[v][k] # NoRow
        PROVE  SessionHonest(v, k)'
    <2>1. CASE v = w
      <3>1. mem'[v][k] = rows[k] /\ loaded'[v][k] = rows[k] /\ rows[k] # NoRow
        BY <1>2, <2>1 DEF StartPass, TypeOK, Due
      <3>2. QED
        BY <1>1, <3>1 DEF RecordsAreHonest, SessionHonest
    <2>2. CASE v # w
      <3>1. mem'[v] = mem[v] /\ loaded'[v] = loaded[v]
        BY <2>2 DEF StartPass, TypeOK
      <3>2. QED
        BY <1>1, <1>2, <3>1 DEF RecordsAreHonest, SessionHonest
    <2>3. QED
      BY <2>1, <2>2
  <1>3. QED
    BY <1>1, <1>2 DEF RecordsAreHonest

\* A column-wise commit of an honest copy over an honest row is honest, even
\* if another session committed in between.
LEMMA CommitPassHonest ==
    ASSUME TypeOK, RecordsAreHonest, NEW w \in Workers, CommitPass(w)
    PROVE  RecordsAreHonest'
  <1>1. mail' = mail
    BY DEF CommitPass
  <1>2. ASSUME NEW j \in Jobs, rows'[j] # NoRow
        PROVE  /\ Honest(rows'[j], mail[j])
               /\ rows[j] # NoRow /\ rows[j].drop_alert_sent => rows'[j].drop_alert_sent
    <2>1. CASE mem[w][j] = NoRow
      BY <1>2, <2>1 DEF CommitPass, RecordsAreHonest
    <2>2. CASE mem[w][j] # NoRow
      <3>1. rows[j] \in Row /\ loaded[w][j] \in Row /\ mem[w][j] \in Row /\ rows[j] # NoRow
        BY <2>2 DEF TypeOK, StoreTypeOK, RowOrNone
      <3>2. rows'[j] = Flush(rows[j], loaded[w][j], mem[w][j])
        BY <2>2 DEF CommitPass
      <3>3. Honest(rows[j], mail[j]) /\ SessionHonest(w, j)
        BY <2>2, <3>1 DEF RecordsAreHonest
      <3>4. QED
        BY <3>1, <3>2, <3>3, FlushHonest DEF SessionHonest
    <2>3. QED
      BY <2>1, <2>2
  <1>3. ASSUME NEW k \in Jobs, NEW v \in Workers, mem'[v][k] # NoRow
        PROVE  SessionHonest(v, k)'
    <2>1. v # w
      BY <1>3 DEF CommitPass, CloseSession, NoSession, TypeOK
    <2>2. mem'[v] = mem[v] /\ loaded'[v] = loaded[v]
      BY <2>1 DEF CommitPass, CloseSession, TypeOK
    <2>3. SessionHonest(v, k) /\ rows[k] # NoRow
      BY <1>3, <2>2 DEF RecordsAreHonest, TypeOK
    <2>4. rows'[k] # NoRow
      BY <2>3, CommitPassKeepsTypes, <1>3 DEF TypeOK
    <2>5. QED
      BY <1>1, <1>2, <2>2, <2>3, <2>4 DEF SessionHonest
  <1>4. QED
    BY <1>1, <1>2, <1>3 DEF RecordsAreHonest


\* A process that dies, or a pass whose commit fails, leaves honest records.
LEMMA CrashHonest ==
    ASSUME TypeOK, RecordsAreHonest, NEW w \in Workers, Crash(w)
    PROVE  RecordsAreHonest'
  <1>1. rows' = rows /\ mail' = mail
    BY DEF Crash, storeVars
  <1>2. ASSUME NEW k \in Jobs, NEW v \in Workers, mem'[v][k] # NoRow
        PROVE  mem'[v] = mem[v] /\ loaded'[v] = loaded[v]
    BY <1>2 DEF Crash, CloseSession, NoSession, TypeOK
  <1>3. QED
    BY <1>1, <1>2 DEF RecordsAreHonest, SessionHonest

\* A job is expired in the session only with its wrap-up accepted.
LEMMA EndMonitoringHonest ==
    ASSUME TypeOK, RecordsAreHonest, NEW w \in Workers, NEW j \in Jobs, EndMonitoring(w, j)
    PROVE  RecordsAreHonest'
  <1> DEFINE row == mem[w][j]
             wrapUp == [kind |-> "MonitoringEnded", price |-> row.lowest_seen_price,
                        note |-> row.drop_alert_sent]
             Done == [row EXCEPT !.status = "expired", !.next_check_at = None]
             Retry == [row EXCEPT !.next_check_at = passNow[w] + RetryHours]
  <1>1. row \in Row /\ passNow[w] \in Nat /\ row # NoRow
    BY TodoRow, StoreAssumption DEF EndMonitoring
  <1>2. PICK outcome \in Outcomes :
            /\ Emit(j, wrapUp, outcome)
            /\ Process(w, j, IF Delivered(outcome) THEN Done ELSE Retry)
    BY DEF EndMonitoring
  <1>3. wrapUp \in Event /\ wrapUp.kind = "MonitoringEnded"
    BY <1>1 DEF Event, EventKinds, Row
  <1>4. Done \in Row /\ Retry \in Row
    <2>1. passNow[w] + RetryHours \in Maybe(Time) /\ None \in Maybe(Time)
      BY <1>1, SchedulerAssumption DEF Maybe, Time
    <2>2. "expired" \in JobStatus
      BY DEF JobStatus
    <2> HIDE DEF row
    <2>3. QED
      BY <1>1, <2>1, <2>2 DEF Row
  <1>5. Honest(row, mail[j])
    BY <1>1 DEF RecordsAreHonest, SessionHonest
  <1>6. /\ Done.status = "expired" /\ Retry.status = row.status
        /\ Done.drop_alert_sent = row.drop_alert_sent
        /\ Done.lowest_alerted_price = row.lowest_alerted_price
        /\ Done.deadline_alert_sent = row.deadline_alert_sent
        /\ Retry.drop_alert_sent = row.drop_alert_sent
        /\ Retry.lowest_alerted_price = row.lowest_alerted_price
        /\ Retry.deadline_alert_sent = row.deadline_alert_sent
    BY <1>1 DEF Row
  <1> HIDE DEF row, wrapUp, Done, Retry
  <1>7. /\ \A k \in Jobs : Extends(mail[k], mail'[k])
        /\ Delivered(outcome) => \E i \in DOMAIN mail'[j] : mail'[j][i] = wrapUp
    BY <1>2, <1>3, EmitGrows DEF TypeOK, StoreTypeOK
  <1>8. Honest(row, mail'[j])
    BY <1>5, <1>7, HonestGrows
  <1>9. CASE Delivered(outcome)
    <2>1. Has(mail'[j], "MonitoringEnded")
      BY <1>3, <1>7, <1>9 DEF Has
    <2>2. Honest(Done, mail'[j])
      BY <1>6, <1>8, <2>1 DEF Honest
    <2>3. QED
      BY <1>2, <1>4, <1>6, <1>7, <1>9, <2>2, ProcessHonest DEF row
  <1>10. CASE ~Delivered(outcome)
    BY <1>2, <1>4, <1>6, <1>7, <1>10, QuietProcessHonest DEF row
  <1>11. QED
    BY <1>9, <1>10

\* A job without a hotel says nothing new about alerts.
LEMMA StayUnresolvedHonest ==
    ASSUME TypeOK, RecordsAreHonest, NEW w \in Workers, NEW j \in Jobs, StayUnresolved(w, j)
    PROVE  RecordsAreHonest'
  <1> DEFINE hrs == HoursUntil(mem[w][j].cancellation_deadline, passNow[w])
             row == [mem[w][j] EXCEPT !.next_check_at = passNow[w] + CadenceHours(hrs)]
  <1>1. mem[w][j] \in Row /\ passNow[w] + CadenceHours(hrs) \in Maybe(Time)
    BY TodoRow, CadenceType DEF StayUnresolved, Maybe, Time
  <1>2. /\ row \in Row
        /\ row.status = mem[w][j].status
        /\ row.drop_alert_sent = mem[w][j].drop_alert_sent
        /\ row.lowest_alerted_price = mem[w][j].lowest_alerted_price
        /\ row.deadline_alert_sent = mem[w][j].deadline_alert_sent
    BY <1>1 DEF Row
  <1>3. Process(w, j, row) /\ mail' = mail
    BY DEF StayUnresolved
  <1>4. \A k \in Jobs : Extends(mail[k], mail'[k])
    BY <1>3 DEF Extends
  <1> HIDE DEF row
  <1>5. QED
    BY <1>2, <1>3, <1>4, QuietProcessHonest

\* Nor does one whose price source raised.
LEMMA CheckRaisesHonest ==
    ASSUME TypeOK, RecordsAreHonest, NEW w \in Workers, NEW j \in Jobs, CheckRaises(w, j)
    PROVE  RecordsAreHonest'
  <1>1. mem[w][j] \in Row
    BY TodoRow DEF CheckRaises
  <1>2. PICK hotel \in Resolved(mem[w][j]) \ {None} :
            Process(w, j, [mem[w][j] EXCEPT !.hotel_id = hotel])
    BY DEF CheckRaises
  <1> DEFINE row == [mem[w][j] EXCEPT !.hotel_id = hotel]
  <1>3. hotel \in Maybe(Hotels)
    BY <1>1 DEF Resolved, Row, Maybe
  <1>4. /\ row \in Row
        /\ row.status = mem[w][j].status
        /\ row.drop_alert_sent = mem[w][j].drop_alert_sent
        /\ row.lowest_alerted_price = mem[w][j].lowest_alerted_price
        /\ row.deadline_alert_sent = mem[w][j].deadline_alert_sent
    BY <1>1, <1>3 DEF Row
  <1>5. \A k \in Jobs : Extends(mail[k], mail'[k])
    BY DEF CheckRaises, Extends
  <1>6. Process(w, j, row)
    BY <1>2
  <1> HIDE DEF row
  <1>7. QED
    BY <1>4, <1>5, <1>6, QuietProcessHonest

\* Nor does a check with nothing to tell.
LEMMA StayQuietHonest ==
    ASSUME TypeOK, RecordsAreHonest, NEW w \in Workers, NEW j \in Jobs, StayQuiet(w, j)
    PROVE  RecordsAreHonest'
  <1>1. PICK hotel \in Hotels, best \in Maybe(Offers), jitter \in Jitters :
            /\ Check(w, j, hotel, best)
            /\ Process(w, j, CheckedRow(w, j, hotel, best, jitter))
    BY DEF StayQuiet
  <1>2. \A k \in Jobs : Extends(mail[k], mail'[k])
    BY DEF StayQuiet, Extends
  <1>3. mem[w][j] \in Row
    BY <1>1, TodoRow DEF Check
  <1>4. CheckedRow(w, j, hotel, best, jitter) \in Row
    BY <1>1, CheckType
  <1>5. QED
    BY <1>1, <1>2, <1>3, <1>4, CheckedRowAlerts, QuietProcessHonest

\* A drop is recorded as told only with the alert accepted at that price.
LEMMA RaiseDropAlertHonest ==
    ASSUME TypeOK, RecordsAreHonest, NEW w \in Workers, NEW j \in Jobs, RaiseDropAlert(w, j)
    PROVE  RecordsAreHonest'
  <1> DEFINE Row1(hotel, best, jitter) == CheckedRow(w, j, hotel, best, jitter)
             Alert(best) == [kind |-> "PriceDropFound", price |-> best.price,
                             note |-> best.link]
             Told(row, best) == [row EXCEPT !.status = "drop_found", !.drop_alert_sent = TRUE,
                                            !.lowest_alerted_price = best.price]
  <1>1. PICK hotel \in Hotels, best \in Offers, jitter \in Jitters, outcome \in Outcomes :
            /\ Check(w, j, hotel, best)
            /\ Emit(j, Alert(best), outcome)
            /\ Process(w, j, IF Delivered(outcome) THEN Told(Row1(hotel, best, jitter), best)
                             ELSE Row1(hotel, best, jitter))
    BY DEF RaiseDropAlert
  <1>2. best \in Maybe(Offers) /\ best.price \in Prices /\ best.link \in BOOLEAN
    BY SchedulerAssumption DEF Maybe
  <1>3. mem[w][j] \in Row /\ mem[w][j] # NoRow
    BY <1>1, TodoRow, StoreAssumption DEF Check
  <1> DEFINE row == Row1(hotel, best, jitter)
  <1>4. /\ row \in Row
        /\ row.status = mem[w][j].status
        /\ row.drop_alert_sent = mem[w][j].drop_alert_sent
        /\ row.lowest_alerted_price = mem[w][j].lowest_alerted_price
        /\ row.deadline_alert_sent = mem[w][j].deadline_alert_sent
    <2>1. row \in Row
      <3>1. Check(w, j, hotel, best)
        BY <1>1
      <3>2. QED
        BY <1>2, <3>1, CheckType
    <2>2. QED
      <3>1. mem[w][j] \in Row
        BY <1>3
      <3>2. QED
        BY <2>1, <3>1, CheckedRowAlerts
  <1>5. /\ Alert(best) \in Event
        /\ Alert(best).kind = "PriceDropFound"
        /\ Alert(best).price = best.price
    BY <1>2 DEF Event, EventKinds, Maybe
  <1>6. /\ \A k \in Jobs : Extends(mail[k], mail'[k])
        /\ Delivered(outcome) => \E i \in DOMAIN mail'[j] : mail'[j][i] = Alert(best)
    BY <1>1, <1>5, EmitGrows DEF TypeOK, StoreTypeOK
  <1> HIDE DEF Row1, Alert, row
  <1>7. CASE Delivered(outcome)
    <2>1. Honest(row, mail'[j])
      <3>1. Honest(mem[w][j], mail[j])
        BY <1>3 DEF RecordsAreHonest, SessionHonest
      <3>2. Honest(mem[w][j], mail'[j])
        BY <3>1, <1>6, HonestGrows
      <3>3. QED
        BY <3>2, <1>4 DEF Honest
    <2>2. HasDropAt(mail'[j], best.price)
      BY <1>5, <1>6, <1>7 DEF HasDropAt
    <2>3. /\ Told(row, best) \in Row
          /\ Told(row, best).status = "drop_found"
          /\ Told(row, best).drop_alert_sent = TRUE
          /\ Told(row, best).lowest_alerted_price = best.price
          /\ Told(row, best).deadline_alert_sent = row.deadline_alert_sent
      BY <1>2, <1>4 DEF Row, JobStatus, Monitored, Maybe
    <2>4. Process(w, j, Told(row, best))
      BY <1>1, <1>7 DEF row
    <2> HIDE DEF Told
    <2>5. best.price # None
      <3>1. \A price \in Prices : price # None
        BY StoreAssumption, FloorAssumption
      <3>2. QED
        BY <1>2, <3>1
    <2>6. Honest(Told(row, best), mail'[j])
      BY <2>1, <2>2, <2>3, <2>5 DEF Honest
    <2>7. QED
      BY <1>6, <2>3, <2>4, <2>6, ProcessHonest
  <1>8. CASE ~Delivered(outcome)
    <2>1. Process(w, j, row)
      BY <1>1, <1>8 DEF row
    <2>2. QED
      BY <1>4, <1>6, <2>1, QuietProcessHonest
  <1>9. QED
    BY <1>7, <1>8

\* The deadline warning is recorded only when it was accepted.
LEMMA RaiseDeadlineAlertHonest ==
    ASSUME TypeOK, RecordsAreHonest, NEW w \in Workers, NEW j \in Jobs,
           RaiseDeadlineAlert(w, j)
    PROVE  RecordsAreHonest'
  <1> DEFINE Row1(hotel, best, jitter) == CheckedRow(w, j, hotel, best, jitter)
             Alert(r) == [kind |-> "DeadlineApproaching",
                          price |-> r.lowest_seen_price, note |-> SawMovement(j, r)]
             Told(r) == [r EXCEPT !.status = "deadline_soon", !.deadline_alert_sent = TRUE]
  <1>1. PICK hotel \in Hotels, best \in Maybe(Offers), jitter \in Jitters,
             outcome \in Outcomes :
            /\ Check(w, j, hotel, best)
            /\ Emit(j, Alert(Row1(hotel, best, jitter)), outcome)
            /\ Process(w, j, IF Delivered(outcome) THEN Told(Row1(hotel, best, jitter))
                             ELSE Row1(hotel, best, jitter))
    BY DEF RaiseDeadlineAlert
  <1>2. mem[w][j] \in Row /\ mem[w][j] # NoRow
    BY <1>1, TodoRow, StoreAssumption DEF Check
  <1> DEFINE row == Row1(hotel, best, jitter)
  <1>3. /\ row \in Row
        /\ row.status = mem[w][j].status
        /\ row.drop_alert_sent = mem[w][j].drop_alert_sent
        /\ row.lowest_alerted_price = mem[w][j].lowest_alerted_price
        /\ row.deadline_alert_sent = mem[w][j].deadline_alert_sent
    <2>1. row \in Row
      <3>1. Check(w, j, hotel, best)
        BY <1>1
      <3>2. QED
        BY <3>1, CheckType
    <2>2. QED
      <3>1. mem[w][j] \in Row
        BY <1>2
      <3>2. QED
        BY <2>1, <3>1, CheckedRowAlerts
  <1> HIDE DEF Row1
  <1> HIDE DEF row
  <1>4. Alert(row) \in Event /\ Alert(row).kind = "DeadlineApproaching"
    <2>1. SawMovement(j, row) \in BOOLEAN
      BY DEF SawMovement
    <2>2. QED
      BY <1>3, <2>1 DEF Event, EventKinds, Row
  <1>5. /\ Emit(j, Alert(row), outcome)
        /\ Process(w, j, IF Delivered(outcome) THEN Told(row) ELSE row)
    BY <1>1 DEF row
  <1> HIDE DEF Alert
  <1>6. /\ \A k \in Jobs : Extends(mail[k], mail'[k])
        /\ Delivered(outcome) => \E i \in DOMAIN mail'[j] : mail'[j][i] = Alert(row)
    BY <1>4, <1>5, EmitGrows DEF TypeOK, StoreTypeOK
  <1>7. CASE Delivered(outcome)
    <2>1. Honest(row, mail'[j])
      <3>1. Honest(mem[w][j], mail[j])
        BY <1>2 DEF RecordsAreHonest, SessionHonest
      <3>2. Honest(mem[w][j], mail'[j])
        BY <3>1, <1>6, HonestGrows
      <3>3. QED
        BY <3>2, <1>3 DEF Honest
    <2>2. Has(mail'[j], "DeadlineApproaching")
      BY <1>4, <1>6, <1>7 DEF Has
    <2>3. /\ Told(row) \in Row
          /\ Told(row).status = "deadline_soon"
          /\ Told(row).drop_alert_sent = row.drop_alert_sent
          /\ Told(row).lowest_alerted_price = row.lowest_alerted_price
      BY <1>3 DEF Row, JobStatus, Monitored
    <2>4. Process(w, j, Told(row))
      BY <1>5, <1>7
    <2> HIDE DEF Told
    <2>5. Honest(Told(row), mail'[j])
      BY <2>1, <2>2, <2>3 DEF Honest
    <2>6. QED
      BY <1>3, <1>6, <2>3, <2>4, <2>5, ProcessHonest
  <1>8. CASE ~Delivered(outcome)
    BY <1>3, <1>5, <1>6, <1>8, QuietProcessHonest
  <1>9. QED
    BY <1>7, <1>8

\* The strengthened invariant is inductive.
LEMMA NextHonest == TypeOK /\ RecordsAreHonest /\ [Next]_schedVars => RecordsAreHonest'
  <1> SUFFICES ASSUME TypeOK, RecordsAreHonest, [Next]_schedVars
               PROVE  RecordsAreHonest'
    OBVIOUS
  <1>1. CASE UNCHANGED schedVars
    BY <1>1 DEF schedVars, sessionVars, storeVars, RecordsAreHonest, SessionHonest
  <1>2. ASSUME NEW w \in Workers, StartPass(w) PROVE RecordsAreHonest'
    BY <1>2, StartPassHonest
  <1>3. ASSUME NEW w \in Workers, NEW j \in Jobs, SkipPaused(w, j) PROVE RecordsAreHonest'
    BY <1>3 DEF SkipPaused, Reach, RecordsAreHonest, SessionHonest
  <1>4. ASSUME NEW w \in Workers, NEW j \in Jobs, ProcessJob(w, j) PROVE RecordsAreHonest'
    BY <1>4, EndMonitoringHonest, StayUnresolvedHonest, CheckRaisesHonest,
       RaiseDropAlertHonest, RaiseDeadlineAlertHonest, StayQuietHonest
    DEF ProcessJob
  <1>5. ASSUME NEW w \in Workers, CommitPass(w) PROVE RecordsAreHonest'
    BY <1>5, CommitPassHonest
  <1>6. ASSUME NEW w \in Workers, Crash(w) PROVE RecordsAreHonest'
    BY <1>6, CrashHonest
  <1>7. CASE Tick /\ UNCHANGED <<sessionVars, crashes>>
    BY <1>7 DEF Tick, sessionVars, RecordsAreHonest, SessionHonest
  <1>8. QED
    BY <1>1, <1>2, <1>3, <1>4, <1>5, <1>6, <1>7 DEF Next, PassStep

\* Every copy of a row, committed or in a session, is honest about the mail.
THEOREM HonestRecords == Spec => []RecordsAreHonest
  <1>1. QED
    BY InitHonest, NextHonest, TypeCorrect, PTL DEF Spec

\* A job is marked as alerted or expired only if that email reached the user,
\* however many workers overlap, crash, or lose acknowledgements.
THEOREM ToldIsTrueAlways == Spec => []ToldIsTrue
  <1>1. RecordsAreHonest => ToldIsTrue
    BY DEF RecordsAreHonest, ToldIsTrue, Honest
  <1>2. QED
    BY <1>1, HonestRecords, PTL

=============================================================================

---------------------------- MODULE DeadlineProofs ----------------------------
(***************************************************************************)
(* Proofs about the deadline clock: for any number of workers and jobs,    *)
(* any hours of the cadence and the guard, and any PATCHes of deadlines.   *)
(***************************************************************************)
EXTENDS DeadlineClock, SchedulerProofs

(* Types. *)

\* The clock takes the worker's steps, or moves a deadline.
LEMMA ClockStep ==
    ASSUME ClockNext
    PROVE  Next \/ \E j \in Jobs : MoveDeadline(j)
  <1>1. ASSUME NEW w \in Workers, WorkerRuns(w) \/ Lose(w) PROVE Next
    <2>1. CASE Begin(w)
      BY <2>1 DEF Begin, PassStep, Next
    <2>2. ASSUME NEW j \in Jobs, Work(w, j) PROVE Next
      <3>1. ProcessJob(w, j)
        BY <2>2 DEF Work, Handle, Mishandle, ProcessJob
      <3>2. QED
        BY <3>1 DEF PassStep, Next
    <2>3. CASE Finish(w)
      BY <2>3 DEF Finish, PassStep, Next
    <2>4. CASE Lose(w)
      BY <2>4 DEF Lose, Next
    <2>5. QED
      BY <1>1, <2>1, <2>2, <2>3, <2>4 DEF WorkerRuns
  <1>2. CASE TimePasses
    BY <1>2 DEF TimePasses, Next
  <1>3. QED
    BY <1>1, <1>2 DEF ClockNext

\* A PATCH of a deadline leaves a row.
LEMMA MoveDeadlineKeepsTypes ==
    ASSUME TypeOK, NEW j \in Jobs, rows[j] # NoRow, MoveDeadline(j)
    PROVE  TypeOK'
  <1>1. PICK deadline \in MovedTo :
           rows' = [rows EXCEPT ![j] = [rows[j] EXCEPT !.cancellation_deadline = deadline]]
    BY DEF MoveDeadline
  <1>2. deadline \in Maybe(Time)
    BY DeadlineClockAssumption DEF Maybe
  <1>3. rows[j] \in Row
    BY DEF TypeOK, StoreTypeOK
  <1>4. [rows[j] EXCEPT !.cancellation_deadline = deadline] \in Row
    BY <1>2, <1>3 DEF Row
  <1>5. StoreTypeOK'
    BY <1>1, <1>4 DEF MoveDeadline, TypeOK, StoreTypeOK
  <1>6. \A k \in Jobs : rows[k] # NoRow => rows'[k] # NoRow
    BY <1>1, <1>4, StoreAssumption DEF TypeOK, StoreTypeOK
  <1>7. UNCHANGED <<sessionVars, crashes>>
    BY DEF MoveDeadline
  <1>8. QED
    BY <1>5, <1>6, <1>7 DEF TypeOK, sessionVars

\* Every step keeps the worker's types.
LEMMA ClockKeepsTypes ==
    ASSUME TypeOK, SessionsAreFresh, [ClockNext]_deadlineVars
    PROVE  TypeOK'
  <1>1. CASE ClockNext
    BY <1>1, ClockStep, NextKeepsTypes, MoveDeadlineKeepsTypes DEF SessionsAreFresh
  <1>2. CASE UNCHANGED deadlineVars
    BY <1>2, NextKeepsTypes DEF deadlineVars
  <1>3. QED
    BY <1>1, <1>2

-----------------------------------------------------------------------------
(* What a session knows. *)

\* A job is processed: its deadline stays, and it expires only if it has ended.
LEMMA ProcessFresh ==
    ASSUME TypeOK, SessionsAreFresh, NEW w \in Workers, NEW j \in Jobs, NEW row,
           Process(w, j, row), UNCHANGED since,
           row.cancellation_deadline = mem[w][j].cancellation_deadline,
           row.status = "expired" =>
               mem[w][j].status = "expired" \/ HasEnded(j, mem[w][j], passNow[w])
    PROVE  SessionsAreFresh'
  <1>1. UNCHANGED <<rows, clock, passNow, loaded, since>>
    BY DEF Process, Reach
  <1>2. mem[w][j] # NoRow
    BY DEF Process, Reach, TypeOK
  <1>3. mem' = [mem EXCEPT ![w] = [mem[w] EXCEPT ![j] = row]]
    BY DEF Process
  <1>4. ASSUME NEW v \in Workers, NEW k \in Jobs, mem'[v][k] # NoRow
        PROVE  SessionIsFresh(v, k)'
    <2>1. CASE v = w /\ k = j
      <3>1. mem'[v][k] = row
        BY <1>3, <2>1 DEF TypeOK
      <3>2. SessionIsFresh(w, j)
        BY <1>2 DEF SessionsAreFresh
      <3>3. row.status = "expired" => HasEnded(j, row, clock)
        BY <3>2 DEF SessionIsFresh, HasEnded
      <3>4. QED
        BY <1>1, <2>1, <3>1, <3>2, <3>3 DEF SessionIsFresh, HasEnded
    <2>2. CASE ~(v = w /\ k = j)
      <3>1. mem'[v][k] = mem[v][k]
        BY <1>3, <2>2 DEF TypeOK
      <3>2. SessionIsFresh(v, k)
        BY <1>4, <3>1 DEF SessionsAreFresh
      <3>3. QED
        BY <1>1, <3>1, <3>2 DEF SessionIsFresh, HasEnded
    <2>3. QED
      BY <2>1, <2>2
  <1>5. QED
    BY <1>1, <1>4 DEF SessionsAreFresh

\* ... whether or not an alert was sent on the way.
LEMMA EitherFresh ==
    ASSUME TypeOK, SessionsAreFresh, NEW w \in Workers, NEW j \in Jobs, UNCHANGED since,
           NEW row, row.cancellation_deadline = mem[w][j].cancellation_deadline,
           row.status = mem[w][j].status,
           NEW alerted, alerted.cancellation_deadline = mem[w][j].cancellation_deadline,
           alerted.status # "expired",
           NEW outcome, Process(w, j, IF Delivered(outcome) THEN alerted ELSE row)
    PROVE  SessionsAreFresh'
  <1>1. CASE Delivered(outcome)
    <2>1. Process(w, j, alerted)
      BY <1>1
    <2>2. QED
      BY <2>1, ProcessFresh
  <1>2. CASE ~Delivered(outcome)
    <2>1. Process(w, j, row)
      BY <1>2
    <2>2. QED
      BY <2>1, ProcessFresh
  <1>3. QED
    BY <1>1, <1>2

\* A check changes neither the deadline nor the status.
LEMMA CheckedRowKeeps ==
    ASSUME NEW w, NEW j, mem[w][j] \in Row, NEW hotel, NEW best, NEW jitter
    PROVE  LET row == CheckedRow(w, j, hotel, best, jitter)
           IN  /\ row.cancellation_deadline = mem[w][j].cancellation_deadline
               /\ row.status = mem[w][j].status
               /\ \A status, price :
                     /\ [row EXCEPT !.status = status, !.drop_alert_sent = TRUE,
                                    !.lowest_alerted_price = price].status = status
                     /\ [row EXCEPT !.status = status, !.drop_alert_sent = TRUE,
                                    !.lowest_alerted_price = price].cancellation_deadline
                           = mem[w][j].cancellation_deadline
                     /\ [row EXCEPT !.status = status, !.deadline_alert_sent = TRUE].status
                           = status
                     /\ [row EXCEPT !.status = status, !.deadline_alert_sent = TRUE]
                           .cancellation_deadline = mem[w][j].cancellation_deadline
  BY DEF CheckedRow, Checked, Row

\* The ways a job can go.
LEMMA WorkFresh ==
    ASSUME TypeOK, SessionsAreFresh, NEW w \in Workers, NEW j \in Jobs, ProcessJob(w, j),
           UNCHANGED since
    PROVE  SessionsAreFresh'
  <1>1. mem[w][j] \in Row
    BY TodoRow DEF ProcessJob, EndMonitoring, StayUnresolved, CheckRaises, RaiseDropAlert,
       RaiseDeadlineAlert, StayQuiet, Check
  <1>2. CASE EndMonitoring(w, j)
    <2>1. HasEnded(j, mem[w][j], passNow[w])
      BY <1>2 DEF EndMonitoring
    <2>2. PICK outcome \in Outcomes :
             Process(w, j,
                IF Delivered(outcome)
                THEN [mem[w][j] EXCEPT !.status = "expired", !.next_check_at = None]
                ELSE [mem[w][j] EXCEPT !.next_check_at = passNow[w] + RetryHours])
      BY <1>2 DEF EndMonitoring
    <2>3. QED
      BY <1>1, <2>1, <2>2, ProcessFresh DEF Row
  <1>3. CASE StayUnresolved(w, j)
    <2>1. PICK next :
             Process(w, j, [mem[w][j] EXCEPT !.next_check_at = next])
      BY <1>3 DEF StayUnresolved
    <2>2. QED
      BY <1>1, <2>1, ProcessFresh DEF Row
  <1>4. CASE CheckRaises(w, j)
    <2>1. PICK hotel : Process(w, j, [mem[w][j] EXCEPT !.hotel_id = hotel])
      BY <1>4 DEF CheckRaises
    <2>2. QED
      BY <1>1, <2>1, ProcessFresh DEF Row
  <1>5. CASE RaiseDropAlert(w, j)
    <2>1. PICK hotel \in Hotels, best \in Offers, jitter \in Jitters, outcome \in Outcomes :
             Process(w, j,
                IF Delivered(outcome)
                THEN [CheckedRow(w, j, hotel, best, jitter) EXCEPT
                         !.status = "drop_found", !.drop_alert_sent = TRUE,
                         !.lowest_alerted_price = best.price]
                ELSE CheckedRow(w, j, hotel, best, jitter))
      BY <1>5 DEF RaiseDropAlert
    <2>2. PICK row : row = CheckedRow(w, j, hotel, best, jitter)
      OBVIOUS
    <2>3. PICK alerted : alerted = [row EXCEPT !.status = "drop_found", !.drop_alert_sent = TRUE,
                                               !.lowest_alerted_price = best.price]
      OBVIOUS
    <2>4. /\ row.cancellation_deadline = mem[w][j].cancellation_deadline
          /\ row.status = mem[w][j].status
          /\ alerted.cancellation_deadline = mem[w][j].cancellation_deadline
          /\ alerted.status = "drop_found"
      BY <1>1, <2>2, <2>3, CheckedRowKeeps
    <2>5. Process(w, j, IF Delivered(outcome) THEN alerted ELSE row)
      BY <2>1, <2>2, <2>3
    <2>6. QED
      BY <2>4, <2>5, EitherFresh
  <1>6. CASE RaiseDeadlineAlert(w, j)
    <2>1. PICK hotel \in Hotels, best \in Maybe(Offers), jitter \in Jitters,
               outcome \in Outcomes :
             Process(w, j,
                IF Delivered(outcome)
                THEN [CheckedRow(w, j, hotel, best, jitter) EXCEPT
                         !.status = "deadline_soon", !.deadline_alert_sent = TRUE]
                ELSE CheckedRow(w, j, hotel, best, jitter))
      BY <1>6 DEF RaiseDeadlineAlert
    <2>2. PICK row : row = CheckedRow(w, j, hotel, best, jitter)
      OBVIOUS
    <2>3. PICK alerted : alerted = [row EXCEPT !.status = "deadline_soon",
                                               !.deadline_alert_sent = TRUE]
      OBVIOUS
    <2>4. /\ row.cancellation_deadline = mem[w][j].cancellation_deadline
          /\ row.status = mem[w][j].status
          /\ alerted.cancellation_deadline = mem[w][j].cancellation_deadline
          /\ alerted.status = "deadline_soon"
      BY <1>1, <2>2, <2>3, CheckedRowKeeps
    <2>5. Process(w, j, IF Delivered(outcome) THEN alerted ELSE row)
      BY <2>1, <2>2, <2>3
    <2>6. QED
      BY <2>4, <2>5, EitherFresh
  <1>7. CASE StayQuiet(w, j)
    <2>1. PICK hotel \in Hotels, best \in Maybe(Offers), jitter \in Jitters :
             Process(w, j, CheckedRow(w, j, hotel, best, jitter))
      BY <1>7 DEF StayQuiet
    <2>2. QED
      BY <1>1, <2>1, CheckedRowKeeps, ProcessFresh
  <1>8. QED
    BY <1>2, <1>3, <1>4, <1>5, <1>6, <1>7 DEF ProcessJob

\* A session that begins has what the table has.
LEMMA BeginFresh ==
    ASSUME TypeOK, SessionsAreFresh, NEW w \in Workers, Begin(w)
    PROVE  SessionsAreFresh'
  <1>1. UNCHANGED <<rows, clock, since>>
    BY DEF Begin, StartPass, storeVars, clockVars
  <1>2. ASSUME NEW v \in Workers, NEW k \in Jobs, mem'[v][k] # NoRow
        PROVE  SessionIsFresh(v, k)'
    <2>1. CASE v # w
      <3>1. mem'[v] = mem[v] /\ loaded'[v] = loaded[v] /\ passNow'[v] = passNow[v]
        BY <2>1 DEF Begin, StartPass, TypeOK
      <3>2. SessionIsFresh(v, k)
        BY <1>2, <3>1 DEF SessionsAreFresh
      <3>3. QED
        BY <1>1, <3>1, <3>2 DEF SessionIsFresh, HasEnded
    <2>2. CASE v = w
      <3>1. passNow'[w] = clock
        BY DEF Begin, StartPass, TypeOK
      <3>2. mem'[w][k] = loaded'[w][k] /\ loaded'[w][k] = rows[k] /\ Due(rows[k], clock)
        BY <1>2, <2>2 DEF Begin, StartPass, TypeOK
      <3>3. rows[k].status # "expired"
        BY <3>2 DEF Due, Monitored
      <3>4. QED
        BY <1>1, <2>2, <3>1, <3>2, <3>3 DEF SessionIsFresh
    <2>3. QED
      BY <2>1, <2>2
  <1>3. QED
    BY <1>1, <1>2 DEF SessionsAreFresh

\* A session that ends leaves nothing of it.
LEMMA OthersStay ==
    ASSUME TypeOK, NEW w \in Workers, CloseSession(w), NEW v \in Workers, NEW k \in Jobs,
           mem'[v][k] # NoRow
    PROVE  /\ v # w
           /\ mem'[v] = mem[v] /\ loaded'[v] = loaded[v] /\ passNow'[v] = passNow[v]
  BY DEF CloseSession, TypeOK, NoSession

\* A commit leaves every deadline as it is in the table.
LEMMA FinishFresh ==
    ASSUME TypeOK, TypeOK', SessionsAreFresh, NEW w \in Workers, Finish(w)
    PROVE  SessionsAreFresh'
  <1>1. UNCHANGED clock /\ CloseSession(w)
    BY DEF Finish, CommitPass
  <1>2. ASSUME NEW k \in Jobs
        PROVE  /\ rows'[k] # NoRow
               /\ rows'[k].cancellation_deadline = rows[k].cancellation_deadline
    <2>1. CASE mem[w][k] = NoRow
      BY <2>1 DEF Finish, CommitPass, SessionsAreFresh
    <2>2. CASE mem[w][k] # NoRow
      <3>1. rows'[k] = Flush(rows[k], loaded[w][k], mem[w][k])
        BY <2>2 DEF Finish, CommitPass
      <3>2. rows[k] \in Row /\ loaded[w][k] \in Row /\ mem[w][k] \in Row
        BY <2>2 DEF TypeOK, StoreTypeOK, RowOrNone
      <3>3. rows'[k] \in Row
        BY <3>1, <3>2, FlushType
      <3>4. mem[w][k].cancellation_deadline = loaded[w][k].cancellation_deadline
        BY <2>2 DEF SessionsAreFresh, SessionIsFresh
      <3>5. QED
        BY <3>1, <3>3, <3>4, StoreAssumption DEF Flush
    <2>3. QED
      BY <2>1, <2>2
  <1>3. clock \in Time
    BY DEF TypeOK, StoreTypeOK
  <1>4. since' \in [Jobs -> Maybe(Time)] /\ \A k \in Jobs : since'[k] \in {since[k], clock}
    BY <1>3 DEF Finish, SessionsAreFresh, Maybe
  <1>5. ASSUME NEW v \in Workers, NEW k \in Jobs, mem'[v][k] # NoRow
        PROVE  SessionIsFresh(v, k)'
    <2>1. mem'[v] = mem[v] /\ loaded'[v] = loaded[v] /\ passNow'[v] = passNow[v]
      BY <1>1, <1>5, OthersStay
    <2>2. SessionIsFresh(v, k)
      BY <1>5, <2>1 DEF SessionsAreFresh
    <2>3. QED
      BY <1>1, <1>2, <1>4, <2>1, <2>2 DEF SessionIsFresh, HasEnded
  <1>6. QED
    BY <1>2, <1>4, <1>5 DEF SessionsAreFresh

\* A pass is lost.
LEMMA LoseFresh ==
    ASSUME TypeOK, SessionsAreFresh, NEW w \in Workers, Lose(w)
    PROVE  SessionsAreFresh'
  <1>1. UNCHANGED <<rows, clock, since>> /\ CloseSession(w)
    BY DEF Lose, Crash, storeVars
  <1>2. ASSUME NEW v \in Workers, NEW k \in Jobs, mem'[v][k] # NoRow
        PROVE  SessionIsFresh(v, k)'
    <2>1. mem'[v] = mem[v] /\ loaded'[v] = loaded[v] /\ passNow'[v] = passNow[v]
      BY <1>1, <1>2, OthersStay
    <2>2. SessionIsFresh(v, k)
      BY <1>2, <2>1 DEF SessionsAreFresh
    <2>3. QED
      BY <1>1, <2>1, <2>2 DEF SessionIsFresh, HasEnded
  <1>3. QED
    BY <1>1, <1>2 DEF SessionsAreFresh

\* A deadline moves, and the hour is noted.
LEMMA MoveDeadlineFresh ==
    ASSUME TypeOK, TypeOK', SessionsAreFresh, NEW j \in Jobs, MoveDeadline(j)
    PROVE  SessionsAreFresh'
  <1>1. UNCHANGED <<clock, mem, loaded, passNow>>
    BY DEF MoveDeadline, sessionVars
  <1>2. since' = [since EXCEPT ![j] = clock]
    BY DEF MoveDeadline
  <1>3. since' \in [Jobs -> Maybe(Time)]
    BY <1>2 DEF SessionsAreFresh, TypeOK, StoreTypeOK, Maybe
  <1>4. PICK deadline \in MovedTo :
           rows' = [rows EXCEPT ![j] = [rows[j] EXCEPT !.cancellation_deadline = deadline]]
    BY DEF MoveDeadline
  <1>5. deadline \in Maybe(Time) /\ rows[j] \in Row
    BY DeadlineClockAssumption DEF Maybe, SessionsAreFresh, TypeOK, StoreTypeOK
  <1>6. [rows[j] EXCEPT !.cancellation_deadline = deadline] \in Row
    BY <1>5 DEF Row
  <1>7. \A k \in Jobs : rows'[k] # NoRow
    BY <1>4, <1>6, StoreAssumption DEF SessionsAreFresh, TypeOK, StoreTypeOK
  <1>8. \A k \in Jobs : k # j => rows'[k] = rows[k] /\ since'[k] = since[k]
    BY <1>2, <1>4 DEF SessionsAreFresh, TypeOK, StoreTypeOK
  <1>9. since'[j] = clock
    BY <1>2 DEF SessionsAreFresh
  <1>10. ASSUME NEW v \in Workers, NEW k \in Jobs, mem'[v][k] # NoRow
         PROVE  SessionIsFresh(v, k)'
    <2>1. SessionIsFresh(v, k)
      BY <1>1, <1>10 DEF SessionsAreFresh
    <2>2. QED
      BY <1>1, <1>8, <1>9, <2>1 DEF SessionIsFresh, HasEnded
  <1>11. QED
    BY <1>3, <1>7, <1>10 DEF SessionsAreFresh

\* No session is open when the hour ends.
LEMMA TimePassesFresh ==
    ASSUME TypeOK, SessionsAreFresh, TimePasses
    PROVE  SessionsAreFresh'
  <1>1. \A w \in Workers, j \in Jobs : mem[w][j] = NoRow
    BY DEF TimePasses, TypeOK
  <1>2. UNCHANGED <<rows, mem, since>>
    BY DEF TimePasses, Tick, sessionVars, clockVars
  <1>3. QED
    BY <1>1, <1>2 DEF SessionsAreFresh

\* Every step.
LEMMA FreshStep ==
    ASSUME TypeOK, TypeOK', SessionsAreFresh, [ClockNext]_deadlineVars
    PROVE  SessionsAreFresh'
  <1>1. ASSUME NEW w \in Workers, NEW j \in Jobs, Work(w, j) PROVE SessionsAreFresh'
    <2>1. ProcessJob(w, j)
      BY <1>1 DEF Work, Handle, Mishandle, ProcessJob
    <2>2. UNCHANGED since
      BY <1>1 DEF Work
    <2>3. QED
      BY <2>1, <2>2, WorkFresh
  <1>2. ASSUME NEW w \in Workers, WorkerRuns(w) \/ Lose(w) PROVE SessionsAreFresh'
    BY <1>1, <1>2, BeginFresh, FinishFresh, LoseFresh DEF WorkerRuns
  <1>3. CASE UNCHANGED deadlineVars
    BY <1>3 DEF deadlineVars, schedVars, storeVars, sessionVars, clockVars, SessionsAreFresh,
                SessionIsFresh, HasEnded
  <1>4. QED
    BY <1>2, <1>3, MoveDeadlineFresh, TimePassesFresh DEF ClockNext

-----------------------------------------------------------------------------
(* No job ends early. *)

\* Only a commit ends a job, one whose end its session saw.
LEMMA EndsWhenOver ==
    ASSUME TypeOK, SessionsAreFresh, [ClockNext]_deadlineVars, NEW j \in Jobs,
           rows[j].status # "expired", rows'[j].status = "expired"
    PROVE  \/ CheckOut[j] <= clock
           \/ rows[j].cancellation_deadline # None /\ rows[j].cancellation_deadline <= clock
           \/ since[j] = clock /\ \E w \in Workers : LoadedAsOver(w, j)
  <1>1. rows[j] \in Row
    BY DEF SessionsAreFresh, TypeOK, StoreTypeOK
  <1>2. PICK w \in Workers : CommitPass(w)
    <2>1. rows'[j] # rows[j]
      OBVIOUS
    <2>2. ASSUME NEW k \in Jobs, MoveDeadline(k) PROVE FALSE
      <3>1. PICK deadline :
               rows' = [rows EXCEPT ![k] = [rows[k] EXCEPT !.cancellation_deadline = deadline]]
        BY <2>2 DEF MoveDeadline
      <3>2. rows'[j].status = rows[j].status
        BY <1>1, <3>1 DEF TypeOK, StoreTypeOK, Row
      <3>3. QED
        BY <3>2
    <2>3. ASSUME NEW w \in Workers, NEW k \in Jobs, ProcessJob(w, k) PROVE rows' = rows
      BY <2>3 DEF ProcessJob, EndMonitoring, StayUnresolved, CheckRaises, RaiseDropAlert,
         RaiseDeadlineAlert, StayQuiet, Process, Reach
    <2>4. CASE Next
      BY <2>1, <2>3, <2>4 DEF Next, PassStep, StartPass, SkipPaused, Reach, Crash, Tick, storeVars
    <2>5. CASE UNCHANGED deadlineVars
      BY <2>1, <2>5 DEF deadlineVars, schedVars, storeVars
    <2>6. QED
      BY <2>2, <2>4, <2>5, ClockStep DEF Next, PassStep
  <1>3. mem[w][j] # NoRow
    BY <1>2 DEF CommitPass
  <1>4. rows'[j] = Flush(rows[j], loaded[w][j], mem[w][j])
    BY <1>2, <1>3 DEF CommitPass
  <1>5. mem[w][j].status = "expired"
    BY <1>4 DEF Flush
  <1>6. SessionIsFresh(w, j)
    BY <1>3 DEF SessionsAreFresh
  <1>7. loaded[w][j] # NoRow
    BY <1>3 DEF TypeOK
  <1>8. HasEnded(j, mem[w][j], clock)
    BY <1>5, <1>6 DEF SessionIsFresh
  <1>9. CheckOut[j] <= clock \/ LoadedAsOver(w, j)
    BY <1>6, <1>7, <1>8 DEF SessionIsFresh, HasEnded, LoadedAsOver
  <1>10. QED
    BY <1>6, <1>8, <1>9 DEF SessionIsFresh, HasEnded

\* Whatever the cadence, and however many workers overlap or die: a job expires
\* only when its stay or its deadline is over, unless the deadline was moved within
\* the hour while a pass held the job with a deadline that was over.
THEOREM EndsOnlyWhenOverAlways == ClockSpec => EndsOnlyWhenOver
  <1> DEFINE Ends ==
        \A j \in Jobs :
          rows[j].status # "expired" /\ rows'[j].status = "expired" =>
            \/ CheckOut[j] <= clock
            \/ rows[j].cancellation_deadline # None /\ rows[j].cancellation_deadline <= clock
            \/ /\ since[j] = clock
               /\ \E w \in Workers : LoadedAsOver(w, j)
  <1>1. ASSUME ClockInit PROVE TypeOK /\ SessionsAreFresh
    <2>1. Init
      BY <1>1 DEF ClockInit, Init
    <2>2. TypeOK
      BY <2>1, InitTypes
    <2>3. \A j \in Jobs : rows[j] # NoRow
      <3>1. PICK hotel \in [Jobs -> Maybe(Hotels)], deadline \in [Jobs -> Maybe(Deadlines)] :
               rows = [j \in Jobs |-> NewRow("active", hotel[j], TRUE, deadline[j], 0)]
        BY <1>1 DEF ClockInit, FreshRows
      <3>2. ASSUME NEW j \in Jobs PROVE rows[j] # NoRow
        <4>1. hotel[j] \in Maybe(Hotels) /\ deadline[j] \in Maybe(Time)
          BY SchedulerAssumption DEF Maybe
        <4>2. NewRow("active", hotel[j], TRUE, deadline[j], 0) \in Row
          BY <4>1 DEF NewRow, Row, JobStatus, Monitored, Maybe, Time
        <4>3. QED
          BY <3>1, <4>2, StoreAssumption
      <3>3. QED
        BY <3>2
    <2>4. \A w \in Workers, j \in Jobs : mem[w][j] = NoRow
      BY <1>1 DEF ClockInit, SessionInit, NoSession
    <2>5. since \in [Jobs -> Maybe(Time)]
      BY <1>1 DEF ClockInit, Maybe
    <2>6. QED
      BY <2>2, <2>3, <2>4, <2>5 DEF SessionsAreFresh
  <1>2. TypeOK /\ SessionsAreFresh /\ [ClockNext]_deadlineVars => TypeOK' /\ SessionsAreFresh'
    BY ClockKeepsTypes, FreshStep
  <1>3. TypeOK /\ SessionsAreFresh /\ [ClockNext]_deadlineVars => [Ends]_deadlineVars
    BY EndsWhenOver
  <1>4. QED
    BY <1>1, <1>2, <1>3, PTL DEF ClockSpec, EndsOnlyWhenOver

-----------------------------------------------------------------------------
(* No deadline passes in silence. *)

\* By when the owner must have heard, for a deadline d, a change at s, and t
\* mishaps.
Bound(d, s, t) ==
    LET final == FourTimesDaily + MaxJitter
    IN  Later(Later(0, d - GuardHours) + final, IF s = None THEN 0 ELSE s + Daily + MaxJitter)
            + final * t

\* What InTime asks of a job: it is priced, its deadline is ahead, and its owner
\* has not heard.
Waiting(j) ==
    /\ rows[j].status \in Monitored
    /\ rows[j].cancellation_deadline # None
    /\ clock < rows[j].cancellation_deadline
    /\ rows[j].hotel_id # None
    /\ ~Heard(j)

\* Such a job is checked in time, and if this hour's pass is over and left it
\* due, a mishap has made room for the next.
OnTime(j) ==
    Waiting(j) =>
        /\ rows[j].next_check_at <= HeardBy(j)
        /\ clock <= HeardBy(j)
        /\ lastPass = clock /\ rows[j].next_check_at <= clock => clock + 1 <= HeardBy(j)

\* A monitored job is scheduled, and no job further ahead than the longest
\* interval.
WithinADay(j) ==
    /\ rows[j].status \in Monitored => rows[j].next_check_at # None
    /\ rows[j].next_check_at # None => rows[j].next_check_at <= clock + Daily + MaxJitter
    /\ rows[j].cancellation_deadline # None => rows[j].cancellation_deadline <= CheckOut[j]

\* A session took the job because it was due, and leaves it with a check that
\* comes in time, unless something went wrong in it or the job changed within
\* the hour.
SessionInTime(w, j) ==
    LET before == loaded[w][j]
        row == mem[w][j]
        moved == row.next_check_at # before.next_check_at
    IN  /\ before.status \in Monitored
        /\ before.next_check_at # None /\ before.next_check_at <= clock
        /\ j \in todo[w] => row = before
        /\ row.next_check_at = None => row.status = "expired"
        /\ moved /\ row.next_check_at # None =>
              clock < row.next_check_at /\ row.next_check_at <= clock + Daily + MaxJitter
        /\ row.status # before.status => row.status = "expired" \/ (Heard(j) /\ moved)
        /\ before.hotel_id # None => row.hotel_id = before.hotel_id
        /\ before.hotel_id = None /\ rows[j].hotel_id # None => since[j] = clock
        /\ j \notin todo[w] /\ Waiting(j) /\ since[j] # clock =>
              IF moved THEN row.next_check_at # None /\ row.next_check_at <= HeardBy(j)
              ELSE clock + 1 <= HeardBy(j)

\* A pass that is running has every job that is due.
SeesDue(w, j) == passNow[w] # None /\ Due(rows[j], clock) => mem[w][j] # NoRow

ClockInv ==
    /\ lastPass # None => lastPass <= clock
    /\ \A j \in Jobs : WithinADay(j) /\ OnTime(j)
    /\ \A w \in Workers, j \in Jobs :
          /\ mem[w][j] # NoRow => SessionInTime(w, j)
          /\ SeesDue(w, j)

\* The types the clock adds.
ClockTypes ==
    /\ TypeOK
    /\ trouble \in Nat
    /\ since \in [Jobs -> Maybe(Time)]
    /\ lastPass \in Maybe(Time)
    /\ \A j \in Jobs : rows[j] \in Row

\* The bound, for numbers.
LEMMA BoundFacts ==
    ASSUME HoursFit, NEW d \in Nat, NEW s \in Maybe(Nat), NEW t \in Nat
    PROVE  /\ Bound(d, s, t) \in Nat
           /\ (d - GuardHours) + FourTimesDaily + MaxJitter <= Bound(d, s, t)
           /\ FourTimesDaily + MaxJitter <= Bound(d, s, t)
           /\ s # None => s + Daily + MaxJitter <= Bound(d, s, t)
           /\ Bound(d, s, t + 1) = Bound(d, s, t) + FourTimesDaily + MaxJitter
<1> DEFINE final == FourTimesDaily + MaxJitter
           most == Later(Later(0, d - GuardHours) + final,
                         IF s = None THEN 0 ELSE s + Daily + MaxJitter)
<1>1. /\ FourTimesDaily \in Nat /\ Daily \in Nat /\ GuardHours \in Nat /\ MaxJitter \in Nat
      /\ s = None \/ s \in Nat
  BY SchedulerAssumption DEF HoursFit, Maybe
<1>2. final \in Nat /\ final = FourTimesDaily + MaxJitter
  BY <1>1
<1>3. /\ most \in Nat /\ (d - GuardHours) + final <= most /\ final <= most
      /\ s # None => s + Daily + MaxJitter <= most
  BY <1>1 DEF Later
<1>4. Bound(d, s, t) = most + final * t /\ Bound(d, s, t + 1) = most + final * (t + 1)
  BY DEF Bound
<1> HIDE DEF most, final
<1>5. final * t \in Nat /\ final * (t + 1) = final * t + final
  BY <1>2
<1> QED
  BY <1>1, <1>2, <1>3, <1>4, <1>5

LEMMA HeardByIsBound ==
    ASSUME NEW j \in Jobs
    PROVE  HeardBy(j) = Bound(rows[j].cancellation_deadline, since[j], trouble)
BY DEF HeardBy, Bound, Opens

\* A cadence counted from now ends in time: before the guard is open, within the
\* final interval after it opens; afterwards, within the final interval from now.
LEMMA CadenceInTime ==
    ASSUME HoursFit, NEW d \in Nat, NEW now \in Nat, NEW jitter \in Jitters
    PROVE  LET next == now + CadenceHours(HoursUntil(d, now)) + jitter
           IN  /\ next \in Nat /\ now < next /\ next <= now + Daily + MaxJitter
               /\ d - now > GuardHours => next <= (d - GuardHours) + FourTimesDaily + MaxJitter
               /\ d - now <= GuardHours => next <= now + FourTimesDaily + MaxJitter
<1>1. d - now \in Int /\ d # None /\ d - now # None
  BY FloorAssumption
<1>2. HoursUntil(d, now) = d - now
  BY <1>1 DEF HoursUntil
<1>3. /\ {Daily, TwiceDaily, FourTimesDaily, FarHours, NearHours, GuardHours} \subseteq Nat
      /\ Daily > 0 /\ TwiceDaily > 0 /\ FourTimesDaily > 0
      /\ jitter \in Nat /\ MaxJitter \in Nat /\ jitter <= MaxJitter
  BY SchedulerAssumption DEF HoursFit
<1> QED
  BY <1>1, <1>2, <1>3 DEF CadenceHours, HoursFit

\* Without a deadline it is the daily one.
LEMMA CadenceWithinADay ==
    ASSUME HoursFit, NEW d \in Maybe(Nat), NEW now \in Nat, NEW jitter \in Jitters \cup {0}
    PROVE  LET next == now + CadenceHours(HoursUntil(d, now)) + jitter
           IN  next \in Nat /\ now < next /\ next <= now + Daily + MaxJitter
<1>1. /\ {Daily, TwiceDaily, FourTimesDaily, FarHours, NearHours} \subseteq Nat
      /\ Daily > 0 /\ TwiceDaily > 0 /\ FourTimesDaily > 0
      /\ FourTimesDaily <= TwiceDaily /\ TwiceDaily <= Daily
      /\ jitter \in Nat /\ MaxJitter \in Nat /\ jitter <= MaxJitter
  BY SchedulerAssumption DEF HoursFit
<1>2. CadenceHours(HoursUntil(d, now)) \in {Daily, TwiceDaily, FourTimesDaily}
  BY DEF CadenceHours
<1> QED
  BY <1>1, <1>2

\* The hours as numbers.
LEMMA HoursAreNumbers ==
    ASSUME HoursFit
    PROVE  /\ {Daily, TwiceDaily, FourTimesDaily, RetryHours, GuardHours, MaxJitter} \subseteq Nat
           /\ Daily >= 1 /\ FourTimesDaily >= 1 /\ RetryHours >= 1 /\ RetryHours <= Daily
           /\ \A jitter \in Jitters : jitter \in Nat /\ jitter <= MaxJitter
BY SchedulerAssumption DEF HoursFit

\* The bound of a job with a deadline.
LEMMA HeardByFacts ==
    ASSUME HoursFit, ClockTypes, NEW j \in Jobs, rows[j].cancellation_deadline # None
    PROVE  /\ rows[j].cancellation_deadline \in Nat /\ HeardBy(j) \in Nat
           /\ (rows[j].cancellation_deadline - GuardHours) + FourTimesDaily + MaxJitter <= HeardBy(j)
           /\ FourTimesDaily + MaxJitter <= HeardBy(j)
           /\ since[j] # None => since[j] + Daily + MaxJitter <= HeardBy(j)
<1>1. rows[j].cancellation_deadline \in Nat
  BY DEF ClockTypes, Row, Maybe, Time
<1>2. since[j] \in Maybe(Nat) /\ trouble \in Nat
  BY DEF ClockTypes, Time
<1> QED
  BY <1>1, <1>2, BoundFacts, HeardByIsBound

\* It moves only with the mishaps while the job stays as it is.
LEMMA HeardByGrows ==
    ASSUME HoursFit, ClockTypes, NEW j \in Jobs, rows[j].cancellation_deadline # None,
           rows'[j].cancellation_deadline = rows[j].cancellation_deadline, since'[j] = since[j],
           trouble' \in {trouble, trouble + 1}
    PROVE  /\ HeardBy(j)' \in Nat /\ HeardBy(j) <= HeardBy(j)'
           /\ trouble' = trouble => HeardBy(j)' = HeardBy(j)
           /\ trouble' = trouble + 1 => HeardBy(j)' = HeardBy(j) + FourTimesDaily + MaxJitter
<1>1. rows[j].cancellation_deadline \in Nat
  BY DEF ClockTypes, Row, Maybe, Time
<1>2. since[j] \in Maybe(Nat) /\ trouble \in Nat
  BY DEF ClockTypes, Time
<1>3. HeardBy(j)' = Bound(rows[j].cancellation_deadline, since[j], trouble')
  BY DEF HeardBy, Bound, Opens
<1>4. HeardBy(j) = Bound(rows[j].cancellation_deadline, since[j], trouble)
  BY HeardByIsBound
<1>5. /\ HeardBy(j) \in Nat
      /\ Bound(rows[j].cancellation_deadline, since[j], trouble + 1)
            = HeardBy(j) + FourTimesDaily + MaxJitter
  <2>1. \A d \in Nat, s \in Maybe(Nat), t \in Nat :
           Bound(d, s, t) \in Nat /\ Bound(d, s, t + 1) = Bound(d, s, t) + FourTimesDaily + MaxJitter
    BY BoundFacts
  <2> QED
    BY <1>1, <1>2, <1>4, <2>1
<1>6. CASE trouble' = trouble
  <2>1. HeardBy(j)' = HeardBy(j) /\ trouble' # trouble + 1
    BY <1>2, <1>3, <1>4, <1>6
  <2> QED
    BY <1>5, <1>6, <2>1
<1>7. CASE trouble' = trouble + 1
  <2>1. HeardBy(j)' = HeardBy(j) + FourTimesDaily + MaxJitter /\ trouble' # trouble
    BY <1>2, <1>3, <1>5, <1>7
  <2> QED
    BY <1>5, <1>7, <2>1, HoursAreNumbers
<1> QED
  BY <1>6, <1>7

\* What was heard stays heard, and an alert that went out was heard.
LEMMA EmitHeard ==
    ASSUME mail \in [Jobs -> Seq(Event)], NEW j \in Jobs, NEW event, NEW outcome,
           Emit(j, event, outcome)
    PROVE  /\ \A k \in Jobs : Heard(k) => Heard(k)'
           /\ outcome # "failed" /\ event.kind \in {"PriceDropFound", "DeadlineApproaching"}
                 => Heard(j)'
<1>1. CASE outcome = "failed"
  BY <1>1 DEF Emit, Heard
<1>2. CASE outcome # "failed"
  <2>1. /\ mail'[j] = Append(mail[j], event)
        /\ \A k \in Jobs : k # j => mail'[k] = mail[k]
    BY <1>2 DEF Emit
  <2>2. mail[j] \in Seq(Event \cup {event}) /\ event \in Event \cup {event}
    OBVIOUS
  <2>3. /\ \A i \in DOMAIN mail[j] : i \in DOMAIN mail'[j] /\ mail'[j][i] = mail[j][i]
        /\ Len(mail[j]) + 1 \in DOMAIN mail'[j] /\ mail'[j][Len(mail[j]) + 1] = event
    BY <2>1, <2>2
  <2>4. \A k \in Jobs : Heard(k) => Heard(k)'
    BY <2>1, <2>3 DEF Heard, Has
  <2>5. event.kind \in {"PriceDropFound", "DeadlineApproaching"} => Heard(j)'
    BY <2>3 DEF Heard, Has
  <2> QED
    BY <2>4, <2>5
<1> QED
  BY <1>1, <1>2

\* A waiting job's hour has not run out.
LEMMA WaitingIsInTime ==
    ASSUME ClockInv, NEW j \in Jobs, Waiting(j)
    PROVE  /\ clock <= HeardBy(j) /\ rows[j].next_check_at <= HeardBy(j)
           /\ rows[j].next_check_at # None
           /\ lastPass = clock /\ rows[j].next_check_at <= clock => clock + 1 <= HeardBy(j)
BY DEF ClockInv, OnTime, WithinADay, Waiting

\* A job is processed: what its new row must be for everything to stay in time.
LEMMA ProcessInTime ==
    ASSUME HoursFit, ClockTypes, ClockInv, NEW w \in Workers, NEW j \in Jobs,
           NEW row \in Row, Process(w, j, row), UNCHANGED <<since, lastPass>>,
           trouble' \in {trouble, trouble + 1},
           \A k \in Jobs : Heard(k) => Heard(k)',
           row.next_check_at = None => row.status = "expired",
           row.next_check_at # loaded[w][j].next_check_at /\ row.next_check_at # None =>
              clock < row.next_check_at /\ row.next_check_at <= clock + Daily + MaxJitter,
           row.status # loaded[w][j].status =>
              row.status = "expired"
              \/ (Heard(j)' /\ row.next_check_at # loaded[w][j].next_check_at),
           loaded[w][j].hotel_id # None => row.hotel_id = loaded[w][j].hotel_id,
           Waiting(j)' /\ since[j] # clock =>
              IF row.next_check_at # loaded[w][j].next_check_at
              THEN row.next_check_at # None /\ row.next_check_at <= HeardBy(j)'
              ELSE clock + 1 <= HeardBy(j)'
    PROVE  ClockInv'
<1>1. UNCHANGED <<rows, clock, passNow, loaded, since, lastPass>>
  BY DEF Process, Reach
<1>2. mem[w][j] # NoRow
  BY DEF Process, Reach, ClockTypes, TypeOK
<1>3. /\ mem' = [mem EXCEPT ![w] = [mem[w] EXCEPT ![j] = row]]
      /\ todo' = [todo EXCEPT ![w] = todo[w] \ {j}]
  BY DEF Process, Reach
<1>4. \A k \in Jobs : Waiting(k)' => Waiting(k)
  BY <1>1 DEF Waiting
<1>5. ASSUME NEW k \in Jobs, Waiting(k) PROVE HeardBy(k) \in Nat /\ HeardBy(k)' \in Nat
                                              /\ HeardBy(k) <= HeardBy(k)'
  BY <1>1, <1>5, HeardByFacts, HeardByGrows DEF Waiting
<1>6. ASSUME NEW k \in Jobs PROVE OnTime(k)' /\ WithinADay(k)'
  <2>1. WithinADay(k)'
    BY <1>1 DEF ClockInv, WithinADay
  <2>2. SUFFICES ASSUME Waiting(k)' PROVE /\ rows[k].next_check_at <= HeardBy(k)'
                                          /\ clock <= HeardBy(k)'
                                          /\ lastPass = clock /\ rows[k].next_check_at <= clock
                                                => clock + 1 <= HeardBy(k)'
    BY <1>1, <2>1 DEF OnTime
  <2>3. /\ clock <= HeardBy(k) /\ rows[k].next_check_at <= HeardBy(k)
        /\ lastPass = clock /\ rows[k].next_check_at <= clock => clock + 1 <= HeardBy(k)
        /\ rows[k].next_check_at # None
    BY <1>4, <2>2, WaitingIsInTime
  <2>4. HeardBy(k) \in Nat /\ HeardBy(k)' \in Nat /\ HeardBy(k) <= HeardBy(k)'
    BY <1>4, <1>5, <2>2
  <2>5. clock \in Nat /\ rows[k].next_check_at \in Nat
    BY <2>3 DEF ClockTypes, TypeOK, StoreTypeOK, Row, Maybe, Time
  <2> QED
    BY <2>3, <2>4, <2>5
<1>7. ASSUME NEW v \in Workers, NEW k \in Jobs, mem'[v][k] # NoRow
      PROVE  SessionInTime(v, k)'
  <2>1. CASE v = w /\ k = j
    <3>1. mem'[w][j] = row /\ j \notin todo'[w]
      BY <1>3 DEF ClockTypes, TypeOK
    <3>2. SessionInTime(w, j)
      BY <1>2 DEF ClockInv
    <3> QED
      BY <1>1, <2>1, <3>1, <3>2 DEF SessionInTime
  <2>2. CASE ~(v = w /\ k = j)
    <3>1. mem'[v][k] = mem[v][k] /\ (k \in todo'[v] <=> k \in todo[v])
      BY <1>3, <2>2 DEF ClockTypes, TypeOK
    <3>2. SessionInTime(v, k)
      BY <1>7, <3>1 DEF ClockInv
    <3>3. /\ Waiting(k)' /\ since[k] # clock /\ k \notin todo'[v] =>
             IF mem[v][k].next_check_at # loaded[v][k].next_check_at
             THEN mem[v][k].next_check_at # None /\ mem[v][k].next_check_at <= HeardBy(k)'
             ELSE clock + 1 <= HeardBy(k)'
      <4>1. SUFFICES ASSUME Waiting(k)', since[k] # clock, k \notin todo'[v]
                     PROVE  IF mem[v][k].next_check_at # loaded[v][k].next_check_at
                            THEN mem[v][k].next_check_at # None
                                 /\ mem[v][k].next_check_at <= HeardBy(k)'
                            ELSE clock + 1 <= HeardBy(k)'
        OBVIOUS
      <4>2. IF mem[v][k].next_check_at # loaded[v][k].next_check_at
            THEN mem[v][k].next_check_at # None /\ mem[v][k].next_check_at <= HeardBy(k)
            ELSE clock + 1 <= HeardBy(k)
        BY <1>4, <3>1, <3>2, <4>1 DEF SessionInTime
      <4>3. HeardBy(k) \in Nat /\ HeardBy(k)' \in Nat /\ HeardBy(k) <= HeardBy(k)'
        BY <1>4, <1>5, <4>1
      <4>4. clock \in Nat /\ mem[v][k] \in Row
        BY <1>7, <3>1 DEF ClockTypes, TypeOK, StoreTypeOK, RowOrNone, Time
      <4>5. mem[v][k].next_check_at # None => mem[v][k].next_check_at \in Nat
        BY <4>4 DEF Row, Maybe, Time
      <4> QED
        BY <4>2, <4>3, <4>4, <4>5
    <3>4. Heard(k) => Heard(k)'
      OBVIOUS
    <3> QED
      BY <1>1, <3>1, <3>2, <3>3, <3>4 DEF SessionInTime
  <2> QED
    BY <2>1, <2>2
<1>8. ASSUME NEW v \in Workers, NEW k \in Jobs PROVE SeesDue(v, k)'
  <2>1. mem[v][k] # NoRow => mem'[v][k] # NoRow
    <3>1. row # NoRow
      BY StoreAssumption
    <3> QED
      BY <1>3, <3>1 DEF ClockTypes, TypeOK
  <2> QED
    BY <1>1, <2>1 DEF ClockInv, SeesDue
<1> QED
  BY <1>1, <1>6, <1>7, <1>8 DEF ClockInv


\* What the loop has at hand when it reaches a job.
LEMMA WhatItSees ==
    ASSUME ClockTypes, SessionsAreFresh, ClockInv, NEW w \in Workers, NEW j \in Jobs,
           j \in todo[w]
    PROVE  /\ mem[w][j] \in Row /\ mem[w][j] = loaded[w][j]
           /\ passNow[w] = clock /\ clock \in Nat
           /\ mem[w][j].status \in Monitored
           /\ mem[w][j].next_check_at \in Nat /\ mem[w][j].next_check_at <= clock
           /\ since[j] # clock =>
                 /\ mem[w][j].cancellation_deadline = rows[j].cancellation_deadline
                 /\ mem[w][j].hotel_id = None => rows[j].hotel_id = None
<1>1. mem[w][j] # NoRow
  BY DEF ClockTypes, TypeOK
<1>2. mem[w][j] \in Row /\ clock \in Nat
  BY <1>1 DEF ClockTypes, TypeOK, StoreTypeOK, RowOrNone, Time
<1>3. SessionInTime(w, j) /\ SessionIsFresh(w, j)
  BY <1>1 DEF ClockInv, SessionsAreFresh
<1>4. mem[w][j] = loaded[w][j] /\ passNow[w] = clock
  BY <1>3 DEF SessionInTime, SessionIsFresh
<1>5. /\ mem[w][j].status \in Monitored
      /\ mem[w][j].next_check_at # None /\ mem[w][j].next_check_at <= clock
  BY <1>3, <1>4 DEF SessionInTime
<1>6. mem[w][j].next_check_at \in Nat
  BY <1>2, <1>5 DEF Row, Maybe, Time
<1>7. since[j] # clock =>
         /\ mem[w][j].cancellation_deadline = rows[j].cancellation_deadline
         /\ mem[w][j].hotel_id = None => rows[j].hotel_id = None
  BY <1>3, <1>4 DEF SessionInTime, SessionIsFresh
<1> QED
  BY <1>2, <1>4, <1>5, <1>6, <1>7

\* A job that still waits after the step waited before it, on the deadline the
\* session sees, and its bound has moved only with the mishaps.
LEMMA StillWaiting ==
    ASSUME HoursFit, ClockTypes, SessionsAreFresh, ClockInv, NEW w \in Workers, NEW j \in Jobs,
           j \in todo[w], UNCHANGED <<rows, clock, since>>, trouble' \in {trouble, trouble + 1},
           \A k \in Jobs : Heard(k) => Heard(k)',
           Waiting(j)', since[j] # clock
    PROVE  LET deadline == mem[w][j].cancellation_deadline
           IN  /\ ~Heard(j) /\ mem[w][j].hotel_id # None
               /\ deadline \in Nat /\ clock < deadline /\ deadline <= CheckOut[j]
               /\ HeardBy(j)' \in Nat /\ clock <= HeardBy(j)'
               /\ (deadline - GuardHours) + FourTimesDaily + MaxJitter <= HeardBy(j)'
               /\ trouble' = trouble + 1 =>
                     clock + FourTimesDaily + MaxJitter <= HeardBy(j)'
<1>1. Waiting(j)
  BY DEF Waiting
<1>2. /\ mem[w][j].cancellation_deadline = rows[j].cancellation_deadline
      /\ mem[w][j].hotel_id = None => rows[j].hotel_id = None
  BY WhatItSees
<1>3. /\ rows[j].cancellation_deadline # None /\ clock < rows[j].cancellation_deadline
      /\ rows[j].hotel_id # None /\ ~Heard(j)
  BY <1>1 DEF Waiting
<1>4. rows[j].cancellation_deadline <= CheckOut[j]
  BY <1>3 DEF ClockInv, WithinADay
<1>5. /\ rows[j].cancellation_deadline \in Nat /\ HeardBy(j) \in Nat
      /\ (rows[j].cancellation_deadline - GuardHours) + FourTimesDaily + MaxJitter <= HeardBy(j)
  BY <1>3, HeardByFacts
<1>6. clock <= HeardBy(j)
  BY <1>1, WaitingIsInTime
<1>7. /\ HeardBy(j)' \in Nat /\ HeardBy(j) <= HeardBy(j)'
      /\ trouble' = trouble + 1 => HeardBy(j)' = HeardBy(j) + FourTimesDaily + MaxJitter
  BY <1>3, HeardByGrows
<1>8. clock \in Nat
  BY WhatItSees
<1>9. /\ clock <= HeardBy(j)'
      /\ (rows[j].cancellation_deadline - GuardHours) + FourTimesDaily + MaxJitter <= HeardBy(j)'
      /\ trouble' = trouble + 1 => clock + FourTimesDaily + MaxJitter <= HeardBy(j)'
  <2> DEFINE by == HeardBy(j)
             byThen == HeardBy(j)'
             opens == rows[j].cancellation_deadline - GuardHours
  <2>1. opens \in Int /\ FourTimesDaily \in Nat /\ MaxJitter \in Nat
    BY <1>5, HoursAreNumbers
  <2>2. /\ by \in Nat /\ byThen \in Nat /\ by <= byThen /\ clock <= by
        /\ opens + FourTimesDaily + MaxJitter <= by
        /\ trouble' = trouble + 1 => byThen = by + FourTimesDaily + MaxJitter
    BY <1>5, <1>6, <1>7
  <2> HIDE DEF by, byThen, opens
  <2>3. /\ clock <= byThen /\ opens + FourTimesDaily + MaxJitter <= byThen
        /\ trouble' = trouble + 1 => clock + FourTimesDaily + MaxJitter <= byThen
    BY <1>8, <2>1, <2>2
  <2> QED
    BY <2>3 DEF byThen, opens
<1> QED
  BY <1>2, <1>3, <1>4, <1>5, <1>7, <1>9

\* The wrap-up is due: nobody waits any more, or it is tried again in an hour.
LEMMA EndMonitoringInTime ==
    ASSUME HoursFit, ClockTypes, SessionsAreFresh, ClockInv, NEW w \in Workers, NEW j \in Jobs,
           EndMonitoring(w, j), UNCHANGED <<since, lastPass>>,
           trouble' \in {trouble, trouble + 1}
    PROVE  ClockInv'
<1> DEFINE old == mem[w][j]
           done == [old EXCEPT !.status = "expired", !.next_check_at = None]
           again == [old EXCEPT !.next_check_at = passNow[w] + RetryHours]
           wrapUp == [kind |-> "MonitoringEnded", price |-> old.lowest_seen_price,
                      note |-> old.drop_alert_sent]
<1>1. j \in todo[w] /\ HasEnded(j, old, passNow[w])
  BY DEF EndMonitoring
<1>2. PICK outcome \in Outcomes :
         /\ Emit(j, wrapUp, outcome)
         /\ Process(w, j, IF Delivered(outcome) THEN done ELSE again)
  BY DEF EndMonitoring
<1>3. /\ old \in Row /\ old = loaded[w][j] /\ passNow[w] = clock /\ clock \in Nat
      /\ old.next_check_at \in Nat /\ old.next_check_at <= clock
  BY <1>1, WhatItSees
<1>4. \A k \in Jobs : Heard(k) => Heard(k)'
  <2>1. mail \in [Jobs -> Seq(Event)]
    BY DEF ClockTypes, TypeOK, StoreTypeOK
  <2> QED
    BY <1>2, <2>1, EmitHeard
<1>5. UNCHANGED <<rows, clock>>
  BY <1>2 DEF Process, Reach
<1>6. ~(Waiting(j)' /\ since[j] # clock)
  <2>1. SUFFICES ASSUME Waiting(j)', since[j] # clock PROVE FALSE
    OBVIOUS
  <2>2. /\ old.cancellation_deadline \in Nat /\ clock < old.cancellation_deadline
        /\ old.cancellation_deadline <= CheckOut[j]
    BY <1>1, <1>4, <1>5, <2>1, StillWaiting
  <2>3. CheckOut[j] \in Nat
    BY StoreAssumption DEF Time
  <2> QED
    BY <1>1, <1>3, <2>2, <2>3 DEF HasEnded
<1>7. clock + RetryHours \in Nat /\ clock < clock + RetryHours
      /\ clock + RetryHours <= clock + Daily + MaxJitter /\ clock + RetryHours # None
  BY <1>3, HoursAreNumbers, FloorAssumption
<1>8. /\ done \in Row /\ done.status = "expired" /\ done.next_check_at = None
      /\ done.hotel_id = old.hotel_id
      /\ again \in Row /\ again.status = old.status /\ again.hotel_id = old.hotel_id
      /\ again.next_check_at = clock + RetryHours
  BY <1>3, <1>7 DEF Row, JobStatus, Maybe, Time
<1> HIDE DEF old, done, again, wrapUp
<1>9. CASE Delivered(outcome)
  <2>1. Process(w, j, done)
    BY <1>2, <1>9
  <2> QED
    BY <1>3, <1>4, <1>6, <1>8, <2>1, ProcessInTime
<1>10. CASE ~Delivered(outcome)
  <2>1. Process(w, j, again)
    BY <1>2, <1>10
  <2> QED
    BY <1>3, <1>4, <1>6, <1>7, <1>8, <2>1, ProcessInTime
<1> QED
  BY <1>9, <1>10

\* No hotel yet: nobody waits on the deadline of a job that cannot be priced.
LEMMA StayUnresolvedInTime ==
    ASSUME HoursFit, ClockTypes, SessionsAreFresh, ClockInv, NEW w \in Workers, NEW j \in Jobs,
           StayUnresolved(w, j), UNCHANGED <<since, lastPass, trouble>>
    PROVE  ClockInv'
<1> DEFINE old == mem[w][j]
           next == passNow[w] + CadenceHours(HoursUntil(old.cancellation_deadline, passNow[w]))
           row == [old EXCEPT !.next_check_at = next]
<1>1. j \in todo[w] /\ old.hotel_id = None /\ Process(w, j, row) /\ UNCHANGED mail
  BY DEF StayUnresolved
<1>2. /\ old \in Row /\ old = loaded[w][j] /\ passNow[w] = clock /\ clock \in Nat
      /\ old.next_check_at \in Nat /\ old.next_check_at <= clock
  BY <1>1, WhatItSees
<1>3. \A k \in Jobs : Heard(k) => Heard(k)'
  BY <1>1 DEF Heard
<1>4. UNCHANGED <<rows, clock>>
  BY <1>1 DEF Process, Reach
<1>5. ~(Waiting(j)' /\ since[j] # clock)
  BY <1>1, <1>3, <1>4, StillWaiting
<1>6. next \in Nat /\ clock < next /\ next <= clock + Daily + MaxJitter
  <2>1. old.cancellation_deadline \in Maybe(Nat)
    BY <1>2 DEF Row, Maybe, Time
  <2> DEFINE c == CadenceHours(HoursUntil(old.cancellation_deadline, clock))
  <2>2. c \in Nat
    BY CadenceType
  <2>3. c + clock + 0 \in Nat /\ clock < clock + c + 0 /\ clock + c + 0 <= clock + Daily + MaxJitter
    BY <1>2, <2>1, <2>2, CadenceWithinADay
  <2>4. next = clock + c
    BY <1>2
  <2> HIDE DEF c, next
  <2> QED
    BY <1>2, <2>2, <2>3, <2>4
<1>7. next # None
  BY <1>6, FloorAssumption
<1> HIDE DEF next
<1>8. /\ row \in Row /\ row.status = old.status /\ row.hotel_id = old.hotel_id
      /\ row.next_check_at = next
  BY <1>2, <1>6 DEF Row, Maybe, Time
<1> HIDE DEF old, row
<1> QED
  BY <1>1, <1>2, <1>3, <1>5, <1>6, <1>7, <1>8, ProcessInTime

\* The check raises: the job stays due, and the mishap makes room for the retry.
LEMMA CheckRaisesInTime ==
    ASSUME HoursFit, ClockTypes, SessionsAreFresh, ClockInv, NEW w \in Workers, NEW j \in Jobs,
           CheckRaises(w, j), UNCHANGED <<since, lastPass>>, trouble' = trouble + 1
    PROVE  ClockInv'
<1> DEFINE old == mem[w][j]
<1>1. j \in todo[w] /\ UNCHANGED mail
  BY DEF CheckRaises
<1>2. PICK hotel \in Resolved(old) \ {None} : Process(w, j, [old EXCEPT !.hotel_id = hotel])
  BY DEF CheckRaises
<1> DEFINE row == [old EXCEPT !.hotel_id = hotel]
<1>3. /\ old \in Row /\ old = loaded[w][j] /\ passNow[w] = clock /\ clock \in Nat
      /\ old.next_check_at \in Nat /\ old.next_check_at <= clock
  BY <1>1, WhatItSees
<1>4. \A k \in Jobs : Heard(k) => Heard(k)'
  BY <1>1 DEF Heard
<1>5. UNCHANGED <<rows, clock>>
  BY <1>2 DEF Process, Reach
<1>6. Waiting(j)' /\ since[j] # clock => clock + 1 <= HeardBy(j)'
  <2>1. SUFFICES ASSUME Waiting(j)', since[j] # clock PROVE clock + 1 <= HeardBy(j)'
    OBVIOUS
  <2>2. HeardBy(j)' \in Nat /\ clock + FourTimesDaily + MaxJitter <= HeardBy(j)'
    BY <1>1, <1>4, <1>5, <2>1, StillWaiting
  <2> QED
    BY <1>3, <2>2, HoursAreNumbers
<1>7. hotel \in Maybe(Hotels) /\ (old.hotel_id # None => hotel = old.hotel_id)
  BY <1>3 DEF Resolved, Row, Maybe
<1>8. /\ row \in Row /\ row.status = old.status /\ row.next_check_at = old.next_check_at
      /\ row.hotel_id = hotel
  BY <1>3, <1>7 DEF Row
<1>9. Process(w, j, row) /\ old.next_check_at # None
  BY <1>2, <1>3, FloorAssumption
<1> HIDE DEF old, row
<1> QED
  BY <1>3, <1>4, <1>6, <1>7, <1>8, <1>9, ProcessInTime

\* A completed check leaves a row that is scheduled anew: in time if the guard is
\* not open yet or if a mishap makes room.
LEMMA CheckInTime ==
    ASSUME HoursFit, ClockTypes, SessionsAreFresh, ClockInv, NEW w \in Workers, NEW j \in Jobs,
           NEW hotel \in Hotels, NEW best \in Maybe(Offers), NEW jitter \in Jitters,
           Check(w, j, hotel, best),
           UNCHANGED <<rows, clock, since>>, trouble' \in {trouble, trouble + 1},
           \A k \in Jobs : Heard(k) => Heard(k)'
    PROVE  LET row == CheckedRow(w, j, hotel, best, jitter)
           IN  /\ row \in Row /\ row.status = loaded[w][j].status
               /\ row.next_check_at # None /\ row.next_check_at # loaded[w][j].next_check_at
               /\ clock < row.next_check_at /\ row.next_check_at <= clock + Daily + MaxJitter
               /\ loaded[w][j].hotel_id # None => row.hotel_id = loaded[w][j].hotel_id
               /\ /\ Waiting(j)' /\ since[j] # clock
                  /\ mem[w][j].cancellation_deadline - clock > GuardHours
                        \/ trouble' = trouble + 1
                  => row.next_check_at <= HeardBy(j)'
<1> DEFINE old == mem[w][j]
           c == CadenceHours(HoursUntil(old.cancellation_deadline, clock))
           row == CheckedRow(w, j, hotel, best, jitter)
<1>1. j \in todo[w] /\ hotel \in Resolved(old) \ {None}
  BY DEF Check
<1>2. /\ old \in Row /\ old = loaded[w][j] /\ passNow[w] = clock /\ clock \in Nat
      /\ old.next_check_at \in Nat /\ old.next_check_at <= clock
  BY <1>1, WhatItSees
<1>3. c \in Nat /\ jitter \in Nat /\ {FourTimesDaily, MaxJitter, Daily, GuardHours} \subseteq Nat
  BY CadenceType, HoursAreNumbers
<1>4. clock + c + jitter \in Nat /\ clock < clock + c + jitter
      /\ clock + c + jitter <= clock + Daily + MaxJitter
  <2>1. old.cancellation_deadline \in Maybe(Nat)
    BY <1>2 DEF Row, Maybe, Time
  <2> QED
    BY <1>2, <2>1, CadenceWithinADay
<1>5. /\ Waiting(j)' /\ since[j] # clock
      /\ old.cancellation_deadline - clock > GuardHours \/ trouble' = trouble + 1
      => clock + c + jitter <= HeardBy(j)'
  <2>1. SUFFICES ASSUME Waiting(j)', since[j] # clock,
                        old.cancellation_deadline - clock > GuardHours \/ trouble' = trouble + 1
                 PROVE  clock + c + jitter <= HeardBy(j)'
    OBVIOUS
  <2> DEFINE d == old.cancellation_deadline
             by == HeardBy(j)'
  <2>2. /\ d \in Nat /\ by \in Nat
        /\ (d - GuardHours) + FourTimesDaily + MaxJitter <= by
        /\ trouble' = trouble + 1 => clock + FourTimesDaily + MaxJitter <= by
    BY <1>1, <2>1, StillWaiting
  <2>3. /\ d - clock > GuardHours =>
              clock + c + jitter <= (d - GuardHours) + FourTimesDaily + MaxJitter
        /\ d - clock <= GuardHours => clock + c + jitter <= clock + FourTimesDaily + MaxJitter
    BY <1>2, <2>2, CadenceInTime
  <2>4. d - clock > GuardHours \/ trouble' = trouble + 1
    BY <2>1
  <2> HIDE DEF d, by, c
  <2>5. clock + c + jitter <= by
    BY <1>2, <1>3, <2>2, <2>3, <2>4
  <2> QED
    BY <2>5 DEF by
<1>6. /\ row.next_check_at = clock + c + jitter /\ row.hotel_id = hotel
      /\ row.status = old.status
  BY <1>2 DEF CheckedRow, Checked, Row
<1>7. row \in Row
  BY <1>2, CheckType DEF ClockTypes
<1>8. old.hotel_id # None => hotel = old.hotel_id
  BY <1>1 DEF Resolved
<1>9. clock + c + jitter # None
  BY <1>4, FloorAssumption
<1> HIDE DEF c, row
<1>10. clock + c + jitter # old.next_check_at
  BY <1>2, <1>3, <1>4
<1>11. /\ row \in Row /\ row.status = loaded[w][j].status
       /\ row.next_check_at # None /\ row.next_check_at # loaded[w][j].next_check_at
       /\ clock < row.next_check_at /\ row.next_check_at <= clock + Daily + MaxJitter
       /\ loaded[w][j].hotel_id # None => row.hotel_id = loaded[w][j].hotel_id
  BY <1>2, <1>4, <1>6, <1>7, <1>8, <1>9, <1>10
<1> QED
  BY <1>5, <1>6, <1>11 DEF row

\* Nothing to tell: the owner was told before, or the guard is not open yet.
LEMMA StayQuietInTime ==
    ASSUME HoursFit, ClockTypes, RecordsAreHonest, SessionsAreFresh, ClockInv,
           NEW w \in Workers, NEW j \in Jobs,
           StayQuiet(w, j), UNCHANGED <<since, lastPass, trouble>>
    PROVE  ClockInv'
<1>1. PICK hotel \in Hotels, best \in Maybe(Offers), jitter \in Jitters :
         /\ Check(w, j, hotel, best)
         /\ IF Stands(j, best)
            THEN ~WorthTelling(j, CheckedRow(w, j, hotel, best, jitter), best.price)
            ELSE ~GuardDue(CheckedRow(w, j, hotel, best, jitter), passNow[w])
         /\ Process(w, j, CheckedRow(w, j, hotel, best, jitter))
         /\ UNCHANGED mail
  BY DEF StayQuiet
<1> DEFINE old == mem[w][j]
           row == CheckedRow(w, j, hotel, best, jitter)
<1>2. j \in todo[w]
  BY <1>1 DEF Check
<1>3. old \in Row /\ passNow[w] = clock /\ clock \in Nat
  BY <1>2, WhatItSees
<1>4. \A k \in Jobs : Heard(k) => Heard(k)'
  BY <1>1 DEF Heard
<1>5. UNCHANGED <<rows, clock>>
  BY <1>1 DEF Process, Reach
<1>6. /\ row.drop_alert_sent = old.drop_alert_sent
      /\ row.deadline_alert_sent = old.deadline_alert_sent
      /\ row.cancellation_deadline = old.cancellation_deadline
  BY <1>3, CheckedRowAlerts, CheckedRowKeeps
<1>7. Honest(old, mail[j])
  BY <1>3, StoreAssumption DEF RecordsAreHonest, SessionHonest
<1>8. old.drop_alert_sent \/ old.deadline_alert_sent => Heard(j)
  BY <1>7 DEF Honest, HasDropAt, Has, Heard
<1>9. Waiting(j)' /\ since[j] # clock => old.cancellation_deadline - clock > GuardHours
  <2>1. SUFFICES ASSUME Waiting(j)', since[j] # clock
                 PROVE  old.cancellation_deadline - clock > GuardHours
    OBVIOUS
  <2>2. ~Heard(j) /\ old.cancellation_deadline \in Nat
    BY <1>2, <1>4, <1>5, <2>1, StillWaiting
  <2>3. ~old.drop_alert_sent /\ ~old.deadline_alert_sent
    BY <1>8, <2>2
  <2>4. ~GuardDue(row, clock)
    BY <1>1, <1>3, <1>6, <2>3 DEF WorthTelling
  <2>5. old.cancellation_deadline # None /\ GuardHours \in Nat
    BY <2>2, FloorAssumption, HoursAreNumbers
  <2> QED
    BY <1>3, <1>6, <2>2, <2>3, <2>4, <2>5 DEF GuardDue
<1>10. trouble' \in {trouble, trouble + 1}
  OBVIOUS
<1>11. /\ row \in Row /\ row.status = loaded[w][j].status
       /\ row.next_check_at # None /\ row.next_check_at # loaded[w][j].next_check_at
       /\ clock < row.next_check_at /\ row.next_check_at <= clock + Daily + MaxJitter
       /\ loaded[w][j].hotel_id # None => row.hotel_id = loaded[w][j].hotel_id
       /\ /\ Waiting(j)' /\ since[j] # clock
          /\ mem[w][j].cancellation_deadline - clock > GuardHours \/ trouble' = trouble + 1
          => row.next_check_at <= HeardBy(j)'
  BY <1>1, <1>4, <1>5, <1>10, CheckInTime
<1> HIDE DEF row
<1>12. Process(w, j, row)
  BY <1>1 DEF row
<1> QED
  BY <1>4, <1>9, <1>10, <1>11, <1>12, ProcessInTime

\* An alert is due: it is heard, or a mishap makes room for the next check.
LEMMA AlertInTime ==
    ASSUME HoursFit, ClockTypes, SessionsAreFresh, ClockInv, NEW w \in Workers, NEW j \in Jobs,
           UNCHANGED <<since, lastPass>>, trouble' \in {trouble, trouble + 1},
           mail' # mail \/ trouble' = trouble + 1,
           NEW hotel \in Hotels, NEW best \in Maybe(Offers), NEW jitter \in Jitters,
           Check(w, j, hotel, best),
           NEW event, event.kind \in {"PriceDropFound", "DeadlineApproaching"},
           NEW outcome \in Outcomes, Emit(j, event, outcome),
           NEW row, row = CheckedRow(w, j, hotel, best, jitter),
           NEW alerted \in Row, alerted.next_check_at = row.next_check_at,
           alerted.hotel_id = row.hotel_id,
           Process(w, j, IF Delivered(outcome) THEN alerted ELSE row)
    PROVE  ClockInv'
<1>1. UNCHANGED <<rows, clock>>
  BY DEF Process, Reach
<1>2. /\ \A k \in Jobs : Heard(k) => Heard(k)'
      /\ outcome # "failed" => Heard(j)'
  <2>1. mail \in [Jobs -> Seq(Event)]
    BY DEF ClockTypes, TypeOK, StoreTypeOK
  <2> QED
    BY <2>1, EmitHeard
<1>3. outcome = "failed" => trouble' = trouble + 1
  BY DEF Emit
<1>4. ~Heard(j)' => trouble' = trouble + 1
  BY <1>2, <1>3
<1>5. Waiting(j)' => ~Heard(j)'
  BY DEF Waiting
<1>6. /\ row \in Row /\ row.status = loaded[w][j].status
      /\ row.next_check_at # None /\ row.next_check_at # loaded[w][j].next_check_at
      /\ clock < row.next_check_at /\ row.next_check_at <= clock + Daily + MaxJitter
      /\ loaded[w][j].hotel_id # None => row.hotel_id = loaded[w][j].hotel_id
      /\ /\ Waiting(j)' /\ since[j] # clock
         /\ mem[w][j].cancellation_deadline - clock > GuardHours \/ trouble' = trouble + 1
         => row.next_check_at <= HeardBy(j)'
  BY <1>1, <1>2, CheckInTime
<1>7. Waiting(j)' /\ since[j] # clock => row.next_check_at <= HeardBy(j)'
  BY <1>4, <1>5, <1>6
<1>8. CASE Delivered(outcome)
  <2>1. Process(w, j, alerted)
    BY <1>8
  <2>2. Heard(j)'
    BY <1>2, <1>8 DEF Delivered
  <2> QED
    BY <1>2, <1>6, <1>7, <2>1, <2>2, ProcessInTime
<1>9. CASE ~Delivered(outcome)
  <2>1. Process(w, j, row)
    BY <1>9
  <2> QED
    BY <1>2, <1>6, <1>7, <2>1, ProcessInTime
<1> QED
  BY <1>8, <1>9

LEMMA RaiseDropAlertInTime ==
    ASSUME HoursFit, ClockTypes, SessionsAreFresh, ClockInv, NEW w \in Workers, NEW j \in Jobs,
           RaiseDropAlert(w, j), UNCHANGED <<since, lastPass>>,
           trouble' \in {trouble, trouble + 1}, mail' # mail \/ trouble' = trouble + 1
    PROVE  ClockInv'
<1>1. PICK hotel \in Hotels, best \in Offers, jitter \in Jitters, outcome \in Outcomes :
         /\ Check(w, j, hotel, best)
         /\ Emit(j, [kind |-> "PriceDropFound", price |-> best.price, note |-> best.link], outcome)
         /\ Process(w, j,
               IF Delivered(outcome)
               THEN [CheckedRow(w, j, hotel, best, jitter) EXCEPT
                        !.status = "drop_found", !.drop_alert_sent = TRUE,
                        !.lowest_alerted_price = best.price]
               ELSE CheckedRow(w, j, hotel, best, jitter))
  BY DEF RaiseDropAlert
<1>2. PICK row : row = CheckedRow(w, j, hotel, best, jitter)
  OBVIOUS
<1>3. PICK alerted : alerted = [row EXCEPT !.status = "drop_found", !.drop_alert_sent = TRUE,
                                           !.lowest_alerted_price = best.price]
  OBVIOUS
<1>4. PICK event : event = [kind |-> "PriceDropFound", price |-> best.price, note |-> best.link]
  OBVIOUS
<1>5. best \in Maybe(Offers) /\ best.price \in Maybe(Prices)
  BY SchedulerAssumption DEF Maybe
<1>6. row \in Row
  BY <1>1, <1>2, <1>5, CheckType DEF ClockTypes
<1>7. /\ alerted \in Row /\ alerted.next_check_at = row.next_check_at
      /\ alerted.hotel_id = row.hotel_id
  BY <1>3, <1>5, <1>6 DEF Row, JobStatus, Monitored
<1>8. /\ event.kind = "PriceDropFound" /\ Emit(j, event, outcome)
      /\ Process(w, j, IF Delivered(outcome) THEN alerted ELSE row)
  BY <1>1, <1>2, <1>3, <1>4
<1> QED
  BY <1>1, <1>2, <1>5, <1>7, <1>8, AlertInTime

LEMMA RaiseDeadlineAlertInTime ==
    ASSUME HoursFit, ClockTypes, SessionsAreFresh, ClockInv, NEW w \in Workers, NEW j \in Jobs,
           RaiseDeadlineAlert(w, j), UNCHANGED <<since, lastPass>>,
           trouble' \in {trouble, trouble + 1}, mail' # mail \/ trouble' = trouble + 1
    PROVE  ClockInv'
<1>1. PICK hotel \in Hotels, best \in Maybe(Offers), jitter \in Jitters, outcome \in Outcomes :
         LET row == CheckedRow(w, j, hotel, best, jitter)
         IN  /\ Check(w, j, hotel, best)
             /\ Emit(j, [kind |-> "DeadlineApproaching", price |-> row.lowest_seen_price,
                         note |-> SawMovement(j, row)], outcome)
             /\ Process(w, j,
                   IF Delivered(outcome)
                   THEN [row EXCEPT !.status = "deadline_soon", !.deadline_alert_sent = TRUE]
                   ELSE row)
  BY DEF RaiseDeadlineAlert
<1>2. PICK row : row = CheckedRow(w, j, hotel, best, jitter)
  OBVIOUS
<1>3. PICK alerted : alerted = [row EXCEPT !.status = "deadline_soon",
                                           !.deadline_alert_sent = TRUE]
  OBVIOUS
<1>4. PICK event : event = [kind |-> "DeadlineApproaching", price |-> row.lowest_seen_price,
                            note |-> SawMovement(j, row)]
  OBVIOUS
<1>5. row \in Row
  BY <1>1, <1>2, CheckType DEF ClockTypes
<1>6. /\ alerted \in Row /\ alerted.next_check_at = row.next_check_at
      /\ alerted.hotel_id = row.hotel_id
  BY <1>3, <1>5 DEF Row, JobStatus, Monitored
<1>7. /\ event.kind = "DeadlineApproaching" /\ Emit(j, event, outcome)
      /\ Process(w, j, IF Delivered(outcome) THEN alerted ELSE row)
  BY <1>1, <1>2, <1>3, <1>4
<1> QED
  BY <1>1, <1>2, <1>6, <1>7, AlertInTime

\* The loop works on a job.
LEMMA WorkInTime ==
    ASSUME HoursFit, ClockTypes, RecordsAreHonest, SessionsAreFresh, ClockInv,
           NEW w \in Workers, NEW j \in Jobs, Work(w, j)
    PROVE  ClockInv'
<1>1. UNCHANGED <<since, lastPass>>
  BY DEF Work
<1>2. CASE Handle(w, j) /\ UNCHANGED trouble
  BY <1>1, <1>2, EndMonitoringInTime, StayUnresolvedInTime, StayQuietInTime,
     RaiseDropAlertInTime, RaiseDeadlineAlertInTime DEF Handle
<1>3. CASE Mishandle(w, j)
  <2>1. trouble' = trouble + 1
    BY <1>3 DEF Mishandle, Mishap
  <2>2. trouble' \in {trouble, trouble + 1}
    BY <2>1
  <2> QED
    BY <1>1, <1>3, <2>1, <2>2, EndMonitoringInTime, CheckRaisesInTime,
       RaiseDropAlertInTime, RaiseDeadlineAlertInTime DEF Mishandle
<1> QED
  BY <1>2, <1>3 DEF Work

\* A session stays in time while others change the table, unless its job changed.
LEMMA SessionStaysInTime ==
    ASSUME ClockTypes, NEW v \in Workers, NEW k \in Jobs, SessionInTime(v, k),
           mem[v][k] # NoRow,
           mem'[v] = mem[v], loaded'[v] = loaded[v], todo'[v] = todo[v], UNCHANGED <<clock, mail>>,
           since'[k] \in {since[k], clock},
           rows[k].hotel_id = None /\ rows'[k].hotel_id # None => since'[k] = clock,
           Waiting(k)' /\ since'[k] # clock =>
              /\ Waiting(k) /\ HeardBy(k) \in Nat /\ HeardBy(k)' \in Nat
              /\ HeardBy(k) <= HeardBy(k)'
    PROVE  SessionInTime(v, k)'
<1>1. /\ Waiting(k)' /\ since'[k] # clock /\ k \notin todo[v] =>
           IF mem[v][k].next_check_at # loaded[v][k].next_check_at
           THEN mem[v][k].next_check_at # None /\ mem[v][k].next_check_at <= HeardBy(k)'
           ELSE clock + 1 <= HeardBy(k)'
  <2>1. SUFFICES ASSUME Waiting(k)', since'[k] # clock, k \notin todo[v]
                 PROVE  IF mem[v][k].next_check_at # loaded[v][k].next_check_at
                        THEN mem[v][k].next_check_at # None
                             /\ mem[v][k].next_check_at <= HeardBy(k)'
                        ELSE clock + 1 <= HeardBy(k)'
    OBVIOUS
  <2>2. IF mem[v][k].next_check_at # loaded[v][k].next_check_at
        THEN mem[v][k].next_check_at # None /\ mem[v][k].next_check_at <= HeardBy(k)
        ELSE clock + 1 <= HeardBy(k)
    BY <2>1 DEF SessionInTime
  <2>3. HeardBy(k) \in Nat /\ HeardBy(k)' \in Nat /\ HeardBy(k) <= HeardBy(k)'
    BY <2>1
  <2>4. clock \in Nat /\ mem[v][k] \in Row
    BY DEF ClockTypes, TypeOK, StoreTypeOK, RowOrNone, Time
  <2>5. mem[v][k].next_check_at # None => mem[v][k].next_check_at \in Nat
    BY <2>4 DEF Row, Maybe, Time
  <2> QED
    BY <2>2, <2>3, <2>4, <2>5
<1>2. Heard(k)' <=> Heard(k)
  BY DEF Heard
<1>3. loaded[v][k].hotel_id = None /\ rows'[k].hotel_id # None => since'[k] = clock
  BY DEF SessionInTime
<1> QED
  BY <1>1, <1>2, <1>3 DEF SessionInTime

\* A pass begins with the jobs that are due.
LEMMA BeginInTime ==
    ASSUME HoursFit, ClockTypes, ClockInv, NEW w \in Workers, Begin(w)
    PROVE  ClockInv'
<1>1. UNCHANGED <<rows, clock, mail, lastPass, since, trouble>>
  BY DEF Begin, StartPass, storeVars, clockVars
<1>2. \A k \in Jobs : OnTime(k)' /\ WithinADay(k)'
  BY <1>1 DEF ClockInv, OnTime, WithinADay, Waiting, Heard, HeardBy, Opens
<1>3. ASSUME NEW v \in Workers, v # w
      PROVE  mem'[v] = mem[v] /\ loaded'[v] = loaded[v] /\ todo'[v] = todo[v]
             /\ passNow'[v] = passNow[v]
  BY <1>3 DEF Begin, StartPass, ClockTypes, TypeOK
<1>4. /\ todo'[w] = {k \in Jobs : Due(rows[k], clock)}
      /\ \A k \in Jobs : /\ mem'[w][k] = IF Due(rows[k], clock) THEN rows[k] ELSE NoRow
                         /\ loaded'[w][k] = mem'[w][k]
  BY DEF Begin, StartPass, ClockTypes, TypeOK
<1>5. ASSUME NEW v \in Workers, NEW k \in Jobs, mem'[v][k] # NoRow
      PROVE  SessionInTime(v, k)'
  <2>1. CASE v # w
    BY <1>1, <1>3, <1>5, <2>1
       DEF ClockInv, SessionInTime, Waiting, Heard, HeardBy, Opens
  <2>2. CASE v = w
    <3>1. /\ Due(rows[k], clock) /\ mem'[w][k] = rows[k] /\ loaded'[w][k] = rows[k]
          /\ k \in todo'[w]
      BY <1>4, <1>5, <2>2
    <3> QED
      BY <1>1, <2>2, <3>1 DEF SessionInTime, Due
  <2> QED
    BY <2>1, <2>2
<1>6. ASSUME NEW v \in Workers, NEW k \in Jobs PROVE SeesDue(v, k)'
  <2>1. rows[k] # NoRow
    BY StoreAssumption DEF ClockTypes
  <2> QED
    BY <1>1, <1>3, <1>4, <2>1 DEF ClockInv, SeesDue
<1> QED
  BY <1>1, <1>2, <1>5, <1>6 DEF ClockInv

\* A lost pass is a mishap: it makes room for the next one.
LEMMA LoseInTime ==
    ASSUME HoursFit, ClockTypes, ClockInv, NEW w \in Workers, Lose(w)
    PROVE  ClockInv'
<1>1. /\ UNCHANGED <<rows, clock, mail, since>> /\ CloseSession(w)
      /\ lastPass' = clock /\ trouble' = trouble + 1
  BY DEF Lose, Crash, Mishap, storeVars
<1>2. clock \in Nat
  BY DEF ClockTypes, TypeOK, StoreTypeOK, Time
<1>3. ASSUME NEW k \in Jobs, Waiting(k)
      PROVE  /\ HeardBy(k) \in Nat /\ HeardBy(k)' \in Nat
             /\ HeardBy(k)' = HeardBy(k) + FourTimesDaily + MaxJitter
  <2>1. rows[k].cancellation_deadline # None
    BY <1>3 DEF Waiting
  <2> QED
    BY <1>1, <2>1, HeardByFacts, HeardByGrows
<1>4. ASSUME NEW k \in Jobs PROVE OnTime(k)' /\ WithinADay(k)'
  <2>1. WithinADay(k)'
    BY <1>1 DEF ClockInv, WithinADay
  <2>2. SUFFICES ASSUME Waiting(k)'
                 PROVE  rows[k].next_check_at <= HeardBy(k)' /\ clock + 1 <= HeardBy(k)'
                        /\ clock <= HeardBy(k)'
    BY <1>1, <2>1 DEF OnTime
  <2>3. Waiting(k)
    BY <1>1, <2>2 DEF Waiting, Heard
  <2>4. /\ clock <= HeardBy(k) /\ rows[k].next_check_at <= HeardBy(k)
        /\ rows[k].next_check_at # None
    BY <2>3, WaitingIsInTime
  <2>5. rows[k].next_check_at \in Nat
    BY <2>4 DEF ClockTypes, Row, Maybe, Time
  <2> QED
    BY <1>2, <1>3, <2>3, <2>4, <2>5, HoursAreNumbers
<1>5. ASSUME NEW v \in Workers, NEW k \in Jobs, mem'[v][k] # NoRow
      PROVE  SessionInTime(v, k)'
  <2>1. v # w /\ mem'[v] = mem[v] /\ loaded'[v] = loaded[v]
    BY <1>1, <1>5, OthersStay DEF ClockTypes
  <2>2. todo'[v] = todo[v]
    BY <1>1, <2>1 DEF CloseSession, ClockTypes, TypeOK
  <2>3. SessionInTime(v, k)
    BY <1>5, <2>1 DEF ClockInv
  <2>4. Waiting(k)' => /\ Waiting(k) /\ HeardBy(k) \in Nat /\ HeardBy(k)' \in Nat
                       /\ HeardBy(k) <= HeardBy(k)'
    <3>1. Waiting(k)' => Waiting(k)
      BY <1>1 DEF Waiting, Heard
    <3> QED
      BY <1>3, <3>1, HoursAreNumbers
  <2> QED
    BY <1>1, <1>5, <2>1, <2>2, <2>3, <2>4, SessionStaysInTime
<1>6. ASSUME NEW v \in Workers, NEW k \in Jobs PROVE SeesDue(v, k)'
  <2>1. v = w => passNow'[v] = None
    BY <1>1 DEF CloseSession, ClockTypes, TypeOK
  <2>2. v # w => passNow'[v] = passNow[v] /\ mem'[v] = mem[v]
    BY <1>1 DEF CloseSession, ClockTypes, TypeOK
  <2> QED
    BY <1>1, <2>1, <2>2 DEF ClockInv, SeesDue
<1> QED
  BY <1>1, <1>2, <1>4, <1>5, <1>6 DEF ClockInv

\* A job that changed within the hour has a day.
LEMMA ChangedHasADay ==
    ASSUME HoursFit, ClockTypes', NEW j \in Jobs, rows'[j].cancellation_deadline # None,
           since'[j] = clock', clock' = clock
    PROVE  HeardBy(j)' \in Nat /\ clock + Daily + MaxJitter <= HeardBy(j)'
<1>1. clock \in Nat /\ clock # None
  BY FloorAssumption DEF ClockTypes, TypeOK, StoreTypeOK, Time
<1>2. rows'[j].cancellation_deadline \in Nat /\ since'[j] \in Maybe(Nat) /\ trouble' \in Nat
  BY DEF ClockTypes, Row, Maybe, Time
<1>3. HeardBy(j)' = Bound(rows'[j].cancellation_deadline, since'[j], trouble')
  BY DEF HeardBy, Bound, Opens
<1>4. \A d \in Nat, s \in Maybe(Nat), t \in Nat :
         Bound(d, s, t) \in Nat /\ (s # None => s + Daily + MaxJitter <= Bound(d, s, t))
  BY BoundFacts
<1> QED
  BY <1>1, <1>2, <1>3, <1>4

\* A deadline moves: its owner has a day to hear.
LEMMA MoveDeadlineInTime ==
    ASSUME HoursFit, DeadlinesPrecedeCheckOut, ClockTypes, ClockTypes', ClockInv,
           NEW j \in Jobs, MoveDeadline(j)
    PROVE  ClockInv'
<1>1. PICK deadline \in MovedTo :
         rows' = [rows EXCEPT ![j] = [rows[j] EXCEPT !.cancellation_deadline = deadline]]
  BY DEF MoveDeadline
<1>2. /\ UNCHANGED <<clock, mail, lastPass, trouble, passNow, todo, loaded, mem>>
      /\ rows[j].status \in Monitored
  BY DEF MoveDeadline, sessionVars
<1>3. since' = [since EXCEPT ![j] = clock]
  BY DEF MoveDeadline
<1>4. /\ rows'[j].status = rows[j].status /\ rows'[j].hotel_id = rows[j].hotel_id
      /\ rows'[j].next_check_at = rows[j].next_check_at
      /\ rows'[j].cancellation_deadline = deadline
  BY <1>1 DEF ClockTypes, TypeOK, StoreTypeOK, Row
<1>5. \A k \in Jobs : k # j => rows'[k] = rows[k] /\ since'[k] = since[k]
  BY <1>1, <1>3 DEF ClockTypes, TypeOK, StoreTypeOK
<1>6. since'[j] = clock
  BY <1>3 DEF ClockTypes
<1>7. clock \in Nat
  BY DEF ClockTypes, TypeOK, StoreTypeOK, Time
<1>8. ASSUME NEW k \in Jobs PROVE OnTime(k)' /\ WithinADay(k)'
  <2>1. CASE k = j
    <3>1. deadline <= CheckOut[j] /\ deadline \in Nat
      BY DeadlineClockAssumption DEF DeadlinesPrecedeCheckOut, Time
    <3>2. deadline # None
      BY <3>1, FloorAssumption
    <3>3. WithinADay(j)'
      BY <1>2, <1>4, <3>1 DEF ClockInv, WithinADay
    <3>4. HeardBy(j)' \in Nat /\ clock + Daily + MaxJitter <= HeardBy(j)'
      BY <1>2, <1>4, <1>6, <3>2, ChangedHasADay
    <3>5. rows'[j].next_check_at \in Nat /\ rows'[j].next_check_at <= clock + Daily + MaxJitter
      <4>1. rows'[j].next_check_at # None
        BY <1>2, <1>4 DEF ClockInv, WithinADay
      <4> QED
        BY <1>2, <3>3, <4>1 DEF WithinADay, ClockTypes, Row, Maybe, Time
    <3>6. /\ rows'[j].next_check_at <= HeardBy(j)' /\ clock <= HeardBy(j)'
          /\ clock + 1 <= HeardBy(j)'
      BY <1>7, <3>4, <3>5, HoursAreNumbers
    <3> QED
      BY <1>2, <2>1, <3>3, <3>6 DEF OnTime
  <2>2. CASE k # j
    BY <1>2, <1>5, <2>2 DEF ClockInv, OnTime, WithinADay, Waiting, Heard, HeardBy, Opens
  <2> QED
    BY <2>1, <2>2
<1>9. ASSUME NEW v \in Workers, NEW k \in Jobs, mem'[v][k] # NoRow
      PROVE  SessionInTime(v, k)'
  <2>1. SessionInTime(v, k) /\ mem[v][k] # NoRow
    BY <1>2, <1>9 DEF ClockInv
  <2>2. Waiting(k)' /\ since'[k] # clock =>
           /\ Waiting(k) /\ HeardBy(k) \in Nat /\ HeardBy(k)' \in Nat
           /\ HeardBy(k) <= HeardBy(k)'
    <3>1. SUFFICES ASSUME Waiting(k)', since'[k] # clock
                   PROVE  /\ Waiting(k) /\ HeardBy(k) \in Nat /\ HeardBy(k)' = HeardBy(k)
      OBVIOUS
    <3>2. rows'[k] = rows[k] /\ since'[k] = since[k]
      BY <1>5, <1>6, <3>1
    <3>3. Waiting(k) /\ HeardBy(k)' = HeardBy(k)
      BY <1>2, <3>1, <3>2 DEF Waiting, Heard, HeardBy, Opens
    <3> QED
      BY <3>3, HeardByFacts DEF Waiting
  <2>3. since'[k] \in {since[k], clock}
    BY <1>5, <1>6
  <2>4. rows[k].hotel_id = None /\ rows'[k].hotel_id # None => since'[k] = clock
    BY <1>4, <1>5
  <2> QED
    BY <1>2, <2>1, <2>2, <2>3, <2>4, SessionStaysInTime
<1>10. ASSUME NEW v \in Workers, NEW k \in Jobs PROVE SeesDue(v, k)'
  <2>1. Due(rows'[k], clock) => Due(rows[k], clock)
    <3>1. rows[k] # NoRow
      BY StoreAssumption DEF ClockTypes
    <3> QED
      BY <1>4, <1>5, <3>1 DEF Due
  <2> QED
    BY <1>2, <2>1 DEF ClockInv, SeesDue
<1> QED
  BY <1>2, <1>8, <1>9, <1>10 DEF ClockInv

\* The hour ends with no job left due that the hour's pass did not see.
LEMMA TimePassesInTime ==
    ASSUME HoursFit, ClockTypes, ClockInv, TimePasses
    PROVE  ClockInv'
<1>1. /\ UNCHANGED <<rows, mail, passNow, mem, lastPass, since, trouble>>
      /\ clock' = clock + 1
      /\ SomeDue => lastPass = clock
  BY DEF TimePasses, Tick, sessionVars, clockVars
<1>2. clock \in Nat /\ lastPass \in Maybe(Nat)
  BY DEF ClockTypes, TypeOK, StoreTypeOK, Time
<1>3. \A w \in Workers, j \in Jobs : mem[w][j] = NoRow /\ passNow[w] = None
  BY DEF TimePasses, ClockTypes, TypeOK
<1>4. HoursFit => {Daily, MaxJitter} \subseteq Nat
  BY HoursAreNumbers
<1>5. ASSUME NEW j \in Jobs PROVE WithinADay(j)'
  <2>1. rows[j].next_check_at # None =>
           rows[j].next_check_at \in Nat /\ rows[j].next_check_at <= clock + Daily + MaxJitter
    BY DEF ClockInv, WithinADay, ClockTypes, Row, Maybe, Time
  <2>2. rows[j].next_check_at # None => rows[j].next_check_at <= (clock + 1) + Daily + MaxJitter
    BY <1>2, <1>4, <2>1
  <2> QED
    BY <1>1, <2>2 DEF ClockInv, WithinADay
<1>6. ASSUME NEW j \in Jobs PROVE OnTime(j)'
  <2>1. SUFFICES ASSUME Waiting(j)'
                 PROVE  rows[j].next_check_at <= HeardBy(j)' /\ clock + 1 <= HeardBy(j)'
                        /\ lastPass # clock + 1
    BY <1>1 DEF OnTime
  <2>2. rows[j].cancellation_deadline # None
    BY <1>1, <2>1 DEF Waiting
  <2>3. rows[j].cancellation_deadline \in Nat /\ HeardBy(j) \in Nat
    BY <2>2, HeardByFacts
  <2>4. clock + 1 < rows[j].cancellation_deadline
    BY <1>1, <2>1 DEF Waiting
  <2>5. clock < rows[j].cancellation_deadline
    BY <1>2, <2>3, <2>4
  <2>6. Waiting(j)
    BY <1>1, <2>1, <2>5 DEF Waiting, Heard
  <2>7. /\ clock <= HeardBy(j) /\ rows[j].next_check_at <= HeardBy(j)
        /\ rows[j].next_check_at # None
        /\ lastPass = clock /\ rows[j].next_check_at <= clock => clock + 1 <= HeardBy(j)
    BY <2>6, WaitingIsInTime
  <2>8. rows[j].next_check_at \in Nat
    BY <2>7 DEF ClockTypes, Row, Maybe, Time
  <2>9. rows[j].next_check_at <= clock => lastPass = clock
    <3>1. rows[j] # NoRow /\ rows[j].status \in Monitored
      BY <2>6, StoreAssumption DEF ClockTypes, Waiting
    <3>2. rows[j].next_check_at <= clock => SomeDue
      BY <2>7, <3>1 DEF SomeDue, Due
    <3> QED
      BY <1>1, <3>2
  <2>10. HeardBy(j)' = HeardBy(j)
    BY <1>1 DEF HeardBy, Opens
  <2>11. lastPass # clock + 1
    <3>1. lastPass # None => lastPass \in Nat /\ lastPass <= clock
      BY <1>2 DEF ClockInv, Maybe
    <3> QED
      BY <1>2, <3>1, FloorAssumption
  <2>12. clock + 1 <= HeardBy(j)
    BY <1>2, <2>3, <2>7, <2>8, <2>9
  <2> QED
    BY <2>7, <2>10, <2>11, <2>12
<1>7. lastPass' # None => lastPass' <= clock'
  <2>1. lastPass # None => lastPass \in Nat /\ lastPass <= clock
    BY <1>2 DEF ClockInv, Maybe
  <2>2. lastPass # None => lastPass <= clock + 1
    BY <1>2, <2>1
  <2> QED
    BY <1>1, <2>2
<1> QED
  BY <1>1, <1>3, <1>5, <1>6, <1>7 DEF ClockInv, SeesDue

\* What a commit makes of a row the session loaded: the deadline stays; a job
\* that is still monitored keeps its status, or its owner has heard; and it comes
\* due when the session says, or as the table says if the session left that alone.
LEMMA FinishedRow ==
    ASSUME ClockTypes, SessionsAreFresh, ClockInv, NEW w \in Workers, NEW k \in Jobs,
           mem[w][k] # NoRow, rows'[k] = Flush(rows[k], loaded[w][k], mem[w][k])
    PROVE  LET moved == mem[w][k].next_check_at # loaded[w][k].next_check_at
           IN  /\ rows'[k].cancellation_deadline = rows[k].cancellation_deadline
               /\ rows'[k].next_check_at =
                     IF moved THEN mem[w][k].next_check_at ELSE rows[k].next_check_at
               /\ moved /\ mem[w][k].next_check_at # None =>
                     /\ mem[w][k].next_check_at \in Nat /\ clock < mem[w][k].next_check_at
                     /\ mem[w][k].next_check_at <= clock + Daily + MaxJitter
               /\ rows'[k].status \in Monitored =>
                     /\ moved => mem[w][k].next_check_at # None
                     /\ rows[k].status \in Monitored \/ moved
                     /\ rows'[k].status = rows[k].status \/ Heard(k)
<1>1. /\ mem[w][k] \in Row /\ loaded[w][k] \in Row
      /\ SessionInTime(w, k) /\ SessionIsFresh(w, k)
  BY DEF ClockTypes, TypeOK, RowOrNone, ClockInv, SessionsAreFresh
<1>2. mem[w][k].cancellation_deadline = loaded[w][k].cancellation_deadline
  BY <1>1 DEF SessionIsFresh
<1>3. /\ rows'[k].cancellation_deadline = rows[k].cancellation_deadline
      /\ rows'[k].next_check_at =
            IF mem[w][k].next_check_at # loaded[w][k].next_check_at
            THEN mem[w][k].next_check_at ELSE rows[k].next_check_at
      /\ rows'[k].status = IF mem[w][k].status # loaded[w][k].status
                           THEN mem[w][k].status ELSE rows[k].status
  BY <1>2 DEF Flush
<1>4. mem[w][k].next_check_at # None => mem[w][k].next_check_at \in Nat
  BY <1>1 DEF Row, Maybe, Time
<1>5. ASSUME rows'[k].status \in Monitored
      PROVE  /\ mem[w][k].next_check_at # loaded[w][k].next_check_at
                   => mem[w][k].next_check_at # None
             /\ rows[k].status \in Monitored
                   \/ mem[w][k].next_check_at # loaded[w][k].next_check_at
             /\ rows'[k].status = rows[k].status \/ Heard(k)
  <2>1. rows'[k].status # "expired"
    BY <1>5 DEF Monitored
  <2>2. CASE mem[w][k].status # loaded[w][k].status
    BY <1>1, <1>3, <2>1, <2>2 DEF SessionInTime
  <2>3. CASE mem[w][k].status = loaded[w][k].status
    <3>1. mem[w][k].status # "expired"
      BY <1>1, <2>3 DEF SessionInTime, Monitored
    <3> QED
      BY <1>1, <1>3, <1>5, <2>3, <3>1 DEF SessionInTime
  <2> QED
    BY <2>2, <2>3
<1> QED
  BY <1>1, <1>3, <1>4, <1>5 DEF SessionInTime

\* A job that waits after a commit, and did not change within the hour, waited
\* before it.
LEMMA FinishWaiting ==
    ASSUME HoursFit, ClockTypes, SessionsAreFresh, ClockInv, NEW w \in Workers, Finish(w),
           NEW k \in Jobs, Waiting(k)', since'[k] # clock
    PROVE  /\ Waiting(k) /\ since'[k] = since[k] /\ HeardBy(k) \in Nat
           /\ HeardBy(k)' = HeardBy(k)
<1>1. /\ UNCHANGED <<clock, mail, trouble>>
      /\ rows'[k] = IF mem[w][k] = NoRow THEN rows[k]
                    ELSE Flush(rows[k], loaded[w][k], mem[w][k])
      /\ since'[k] = IF Found(k) THEN clock ELSE since[k]
  BY DEF Finish, CommitPass
<1>2. /\ rows'[k].cancellation_deadline = rows[k].cancellation_deadline
      /\ rows'[k].status \in Monitored => rows'[k].status = rows[k].status \/ Heard(k)
  BY <1>1, FinishedRow
<1>3. rows[k].hotel_id # None /\ since'[k] = since[k]
  BY <1>1 DEF Found, Waiting
<1>4. Waiting(k)
  BY <1>1, <1>2, <1>3 DEF Waiting, Heard
<1>5. HeardBy(k)' = HeardBy(k)
  BY <1>1, <1>2, <1>3 DEF HeardBy, Opens
<1> QED
  BY <1>3, <1>4, <1>5, HeardByFacts DEF Waiting

\* The pass is written: every job it took comes due in time, and those it did not
\* take were not due.
LEMMA FinishInTime ==
    ASSUME HoursFit, ClockTypes, ClockTypes', SessionsAreFresh, ClockInv,
           NEW w \in Workers, Finish(w)
    PROVE  ClockInv'
<1>1. /\ UNCHANGED <<clock, mail, trouble>> /\ lastPass' = clock
      /\ CloseSession(w) /\ passNow[w] # None /\ todo[w] = {}
      /\ \A k \in Jobs : /\ rows'[k] = IF mem[w][k] = NoRow THEN rows[k]
                                       ELSE Flush(rows[k], loaded[w][k], mem[w][k])
                         /\ since'[k] = IF Found(k) THEN clock ELSE since[k]
  BY DEF Finish, CommitPass
<1>2. clock \in Nat /\ {Daily, MaxJitter} \subseteq Nat /\ Daily >= 1
  BY HoursAreNumbers DEF ClockTypes, TypeOK, StoreTypeOK, Time
<1>3. ASSUME NEW k \in Jobs PROVE WithinADay(k)'
  <2>1. CASE mem[w][k] = NoRow
    BY <1>1, <2>1 DEF ClockInv, WithinADay
  <2>2. CASE mem[w][k] # NoRow
    <3>1. WithinADay(k)
      BY DEF ClockInv
    <3>2. rows'[k] = Flush(rows[k], loaded[w][k], mem[w][k])
      BY <1>1, <2>2
    <3>3. /\ rows'[k].cancellation_deadline = rows[k].cancellation_deadline
          /\ rows'[k].next_check_at \in {mem[w][k].next_check_at, rows[k].next_check_at}
          /\ rows'[k].next_check_at # None => rows'[k].next_check_at <= clock + Daily + MaxJitter
          /\ rows'[k].status \in Monitored => rows'[k].next_check_at # None
      BY <2>2, <3>1, <3>2, FinishedRow DEF WithinADay
    <3> QED
      BY <1>1, <3>1, <3>3 DEF WithinADay
  <2> QED
    BY <2>1, <2>2
<1>4. ASSUME NEW k \in Jobs PROVE OnTime(k)'
  <2>1. SUFFICES ASSUME Waiting(k)'
                 PROVE  /\ rows'[k].next_check_at <= HeardBy(k)' /\ clock <= HeardBy(k)'
                        /\ rows'[k].next_check_at <= clock => clock + 1 <= HeardBy(k)'
    BY <1>1 DEF OnTime
  <2>2. /\ rows'[k].next_check_at # None /\ rows'[k].cancellation_deadline # None
        /\ rows'[k].next_check_at <= clock + Daily + MaxJitter
    BY <1>1, <1>3, <2>1 DEF WithinADay, Waiting
  <2>3. rows'[k].next_check_at \in Nat
    BY <2>2 DEF ClockTypes, Row, Maybe, Time
  <2>4. CASE since'[k] = clock
    <3>1. HeardBy(k)' \in Nat /\ clock + Daily + MaxJitter <= HeardBy(k)'
      BY <1>1, <2>2, <2>4, ChangedHasADay
    <3> QED
      BY <1>2, <2>2, <2>3, <3>1
  <2>5. CASE since'[k] # clock
    <3>1. /\ Waiting(k) /\ since[k] # clock /\ HeardBy(k) \in Nat /\ HeardBy(k)' = HeardBy(k)
      BY <2>1, <2>5, FinishWaiting
    <3>2. /\ clock <= HeardBy(k) /\ rows[k].next_check_at <= HeardBy(k)
          /\ rows[k].next_check_at # None
      BY <3>1, WaitingIsInTime
    <3>3. CASE mem[w][k] = NoRow
      <4>1. ~Due(rows[k], clock)
        BY <1>1, <3>3 DEF ClockInv, SeesDue
      <4>2. rows[k] # NoRow /\ rows[k].status \in Monitored
        BY <3>1, StoreAssumption DEF Waiting, ClockTypes
      <4>3. ~(rows[k].next_check_at <= clock)
        BY <3>2, <4>1, <4>2 DEF Due
      <4> QED
        BY <1>1, <3>1, <3>2, <3>3, <4>3
    <3>4. CASE mem[w][k] # NoRow
      <4> DEFINE moved == mem[w][k].next_check_at # loaded[w][k].next_check_at
      <4>1. SessionInTime(w, k)
        BY <3>4 DEF ClockInv
      <4>2. k \notin todo[w]
        BY <1>1
      <4>3. IF moved THEN mem[w][k].next_check_at # None
                          /\ mem[w][k].next_check_at <= HeardBy(k)
            ELSE clock + 1 <= HeardBy(k)
        BY <3>1, <4>1, <4>2 DEF SessionInTime
      <4>4. rows'[k] = Flush(rows[k], loaded[w][k], mem[w][k])
        BY <1>1, <3>4
      <4>5. /\ rows'[k].next_check_at =
                  IF moved THEN mem[w][k].next_check_at ELSE rows[k].next_check_at
            /\ moved /\ mem[w][k].next_check_at # None => clock < mem[w][k].next_check_at
        BY <3>4, <4>4, FinishedRow
      <4>6. CASE moved
        <5>1. rows'[k].next_check_at <= HeardBy(k) /\ clock < rows'[k].next_check_at
          BY <4>3, <4>5, <4>6
        <5> QED
          BY <1>2, <2>3, <3>1, <3>2, <5>1
      <4>7. CASE ~moved
        <5>1. rows'[k].next_check_at <= HeardBy(k) /\ clock + 1 <= HeardBy(k)
          BY <3>2, <4>3, <4>5, <4>7
        <5> QED
          BY <1>2, <2>3, <3>1, <3>2, <5>1
      <4> QED
        BY <4>6, <4>7
    <3> QED
      BY <3>3, <3>4
  <2> QED
    BY <2>4, <2>5
<1>5. ASSUME NEW v \in Workers, NEW k \in Jobs, mem'[v][k] # NoRow
      PROVE  SessionInTime(v, k)'
  <2>1. v # w /\ mem'[v] = mem[v] /\ loaded'[v] = loaded[v]
    BY <1>1, <1>5, OthersStay DEF ClockTypes
  <2>2. todo'[v] = todo[v]
    BY <1>1, <2>1 DEF CloseSession, ClockTypes, TypeOK
  <2>3. SessionInTime(v, k)
    BY <1>5, <2>1 DEF ClockInv
  <2>4. Waiting(k)' /\ since'[k] # clock =>
           /\ Waiting(k) /\ HeardBy(k) \in Nat /\ HeardBy(k)' \in Nat
           /\ HeardBy(k) <= HeardBy(k)'
    <3>1. Waiting(k)' /\ since'[k] # clock =>
             Waiting(k) /\ HeardBy(k) \in Nat /\ HeardBy(k)' = HeardBy(k)
      BY FinishWaiting
    <3> QED
      BY <3>1
  <2>5. since'[k] \in {since[k], clock}
    BY <1>1
  <2>6. rows[k].hotel_id = None /\ rows'[k].hotel_id # None => since'[k] = clock
    BY <1>1 DEF Found
  <2> QED
    BY <1>1, <1>5, <2>1, <2>2, <2>3, <2>4, <2>5, <2>6, SessionStaysInTime
<1>6. ASSUME NEW v \in Workers, NEW k \in Jobs PROVE SeesDue(v, k)'
  <2>1. v = w => passNow'[v] = None
    BY <1>1 DEF CloseSession, ClockTypes, TypeOK
  <2>2. v # w => passNow'[v] = passNow[v] /\ mem'[v] = mem[v]
    BY <1>1 DEF CloseSession, ClockTypes, TypeOK
  <2>3. Due(rows'[k], clock) => Due(rows[k], clock)
    <3>1. CASE mem[w][k] = NoRow
      BY <1>1, <3>1
    <3>2. CASE mem[w][k] # NoRow
      <4>1. SUFFICES ASSUME Due(rows'[k], clock) PROVE Due(rows[k], clock)
        OBVIOUS
      <4>2. rows'[k] = Flush(rows[k], loaded[w][k], mem[w][k])
        BY <1>1, <3>2
      <4>3. /\ rows'[k].status \in Monitored /\ rows'[k].next_check_at # None
            /\ rows'[k].next_check_at <= clock
        BY <4>1 DEF Due
      <4>4. mem[w][k].next_check_at = loaded[w][k].next_check_at
        <5>1. SUFFICES ASSUME mem[w][k].next_check_at # loaded[w][k].next_check_at PROVE FALSE
          OBVIOUS
        <5>2. /\ mem[w][k].next_check_at \in Nat /\ clock < mem[w][k].next_check_at
              /\ mem[w][k].next_check_at <= clock
          BY <3>2, <4>2, <4>3, <5>1, FinishedRow
        <5> QED
          BY <1>2, <5>2
      <4>5. rows'[k].next_check_at = rows[k].next_check_at /\ rows[k].status \in Monitored
        BY <3>2, <4>2, <4>3, <4>4, FinishedRow
      <4>6. rows[k] # NoRow
        BY StoreAssumption DEF ClockTypes
      <4> QED
        BY <4>3, <4>5, <4>6 DEF Due
    <3> QED
      BY <3>1, <3>2
  <2> QED
    BY <1>1, <2>1, <2>2, <2>3 DEF ClockInv, SeesDue
<1>7. lastPass' # None => lastPass' <= clock'
  BY <1>1, <1>2
<1> QED
  BY <1>3, <1>4, <1>5, <1>6, <1>7 DEF ClockInv

\* A PATCH of a deadline touches nothing that was told.
LEMMA MoveDeadlineHonest ==
    ASSUME ClockTypes, RecordsAreHonest, NEW j \in Jobs, MoveDeadline(j)
    PROVE  RecordsAreHonest'
<1>1. PICK deadline :
         rows' = [rows EXCEPT ![j] = [rows[j] EXCEPT !.cancellation_deadline = deadline]]
  BY DEF MoveDeadline
<1>2. UNCHANGED <<mail, mem, loaded>>
  BY DEF MoveDeadline, sessionVars
<1>3. \A k \in Jobs : /\ rows'[k].drop_alert_sent = rows[k].drop_alert_sent
                      /\ rows'[k].lowest_alerted_price = rows[k].lowest_alerted_price
                      /\ rows'[k].deadline_alert_sent = rows[k].deadline_alert_sent
                      /\ rows'[k].status = rows[k].status
  BY <1>1 DEF ClockTypes, TypeOK, StoreTypeOK, Row
<1>4. \A k \in Jobs : Honest(rows'[k], mail[k])
  <2>1. \A k \in Jobs : rows[k] # NoRow
    BY StoreAssumption DEF ClockTypes
  <2> QED
    BY <1>3, <2>1 DEF RecordsAreHonest, Honest
<1> QED
  BY <1>2, <1>3, <1>4 DEF RecordsAreHonest, SessionHonest

\* What the clock's steps keep.
ClockSafe == TypeOK /\ SessionsAreFresh /\ RecordsAreHonest /\ ClockTypes /\ ClockInv

\* The numbers of the clock stay numbers.
LEMMA ClockTypesStep ==
    ASSUME TypeOK', SessionsAreFresh', ClockTypes, [ClockNext]_deadlineVars
    PROVE  ClockTypes'
<1>1. trouble' \in {trouble, trouble + 1}
  BY DEF ClockNext, WorkerRuns, Begin, Work, Mishandle, Finish, Lose, MoveDeadline, TimePasses,
         Mishap, clockVars, deadlineVars
<1>2. lastPass' \in {lastPass, clock}
  BY DEF ClockNext, WorkerRuns, Begin, Work, Finish, Lose, MoveDeadline, TimePasses,
         clockVars, deadlineVars
<1>3. trouble' \in Nat /\ lastPass' \in Maybe(Time)
  BY <1>1, <1>2 DEF ClockTypes, TypeOK, StoreTypeOK, Maybe
<1>4. since' \in [Jobs -> Maybe(Time)] /\ \A j \in Jobs : rows'[j] \in Row
  BY DEF SessionsAreFresh, TypeOK, StoreTypeOK
<1> QED
  BY <1>3, <1>4 DEF ClockTypes

\* Every step.
LEMMA ClockInvStep ==
    ASSUME HoursFit, DeadlinesPrecedeCheckOut, ClockTypes', SessionsAreFresh, RecordsAreHonest,
           ClockTypes, ClockInv, [ClockNext]_deadlineVars
    PROVE  ClockInv'
<1>1. ASSUME NEW w \in Workers, WorkerRuns(w) \/ Lose(w) PROVE ClockInv'
  BY <1>1, BeginInTime, WorkInTime, FinishInTime, LoseInTime DEF WorkerRuns
<1>2. CASE UNCHANGED deadlineVars
  BY <1>2 DEF deadlineVars, schedVars, storeVars, sessionVars, clockVars, ClockInv, OnTime,
              WithinADay, SessionInTime, SeesDue, Waiting, Heard, HeardBy, Opens
<1> QED
  BY <1>1, <1>2, MoveDeadlineInTime, TimePassesInTime DEF ClockNext

\* The first hour: every job is due, and no bound is shorter than the last interval.
LEMMA ClockInitSafe ==
    ASSUME HoursFit, DeadlinesPrecedeCheckOut, ClockInit
    PROVE  ClockSafe
<1>1. Init
  BY DEF ClockInit, Init
<1>2. TypeOK /\ RecordsAreHonest
  BY <1>1, InitTypes, InitHonest
<1>3. PICK hotel \in [Jobs -> Maybe(Hotels)], deadline \in [Jobs -> Maybe(Deadlines)] :
         rows = [j \in Jobs |-> NewRow("active", hotel[j], TRUE, deadline[j], 0)]
  BY DEF ClockInit, FreshRows
<1>4. ASSUME NEW j \in Jobs
      PROVE  /\ rows[j] \in Row /\ rows[j].status = "active" /\ rows[j].next_check_at = 0
             /\ rows[j].cancellation_deadline # None => rows[j].cancellation_deadline <= CheckOut[j]
  <2>1. rows[j] = NewRow("active", hotel[j], TRUE, deadline[j], 0)
    BY <1>3
  <2>2. hotel[j] \in Maybe(Hotels) /\ deadline[j] \in Maybe(Time) /\ deadline[j] \in Maybe(Deadlines)
    BY SchedulerAssumption DEF Maybe
  <2>3. NewRow("active", hotel[j], TRUE, deadline[j], 0) \in Row
    BY <2>2 DEF NewRow, Row, JobStatus, Monitored, Maybe, Time
  <2>4. deadline[j] # None => deadline[j] <= CheckOut[j]
    BY <2>2 DEF DeadlinesPrecedeCheckOut, Maybe
  <2> QED
    BY <2>1, <2>3, <2>4 DEF NewRow
<1>5. /\ clock = 0 /\ lastPass = None /\ trouble = 0 /\ since = [j \in Jobs |-> None]
      /\ \A w \in Workers : passNow[w] = None /\ \A j \in Jobs : mem[w][j] = NoRow
  BY DEF ClockInit, SessionInit, NoSession
<1>6. ClockTypes
  BY <1>2, <1>4, <1>5 DEF ClockTypes, Maybe
<1>7. SessionsAreFresh
  BY <1>4, <1>5, <1>6, StoreAssumption DEF SessionsAreFresh, ClockTypes
<1>8. ASSUME NEW j \in Jobs PROVE OnTime(j) /\ WithinADay(j)
  <2>1. 0 # None /\ 0 <= clock + Daily + MaxJitter
    BY <1>5, HoursAreNumbers, FloorAssumption
  <2>2. rows[j].cancellation_deadline # None => HeardBy(j) \in Nat /\ 0 <= HeardBy(j)
    BY <1>6, HeardByFacts
  <2>3. lastPass # clock
    BY <1>5, FloorAssumption
  <2>4. WithinADay(j)
    BY <1>4, <2>1 DEF WithinADay
  <2>5. OnTime(j)
    BY <1>4, <1>5, <2>2, <2>3 DEF OnTime, Waiting
  <2> QED
    BY <2>4, <2>5
<1>9. ClockInv
  BY <1>5, <1>8 DEF ClockInv, SeesDue
<1> QED
  BY <1>2, <1>6, <1>7, <1>9 DEF ClockSafe

\* No deadline passes in silence: however many workers overlap, whatever sends
\* are refused, checks raise, passes are lost and deadlines move, the owner of a
\* priceable job has heard by HeardBy, which each mishap moves by one interval.
THEOREM InTimeAlways ==
    ASSUME HoursFit, DeadlinesPrecedeCheckOut
    PROVE  ClockSpec => []InTime
<1>1. ClockInit => ClockSafe
  BY ClockInitSafe
<1>2. ClockSafe /\ [ClockNext]_deadlineVars => ClockSafe'
  <2>1. SUFFICES ASSUME ClockSafe, [ClockNext]_deadlineVars PROVE ClockSafe'
    OBVIOUS
  <2>2. TypeOK' /\ SessionsAreFresh'
    BY <2>1, ClockKeepsTypes, FreshStep DEF ClockSafe
  <2>3. RecordsAreHonest'
    <3>1. CASE ClockNext
      BY <2>1, <3>1, ClockStep, NextHonest, MoveDeadlineHonest DEF ClockSafe
    <3>2. CASE UNCHANGED deadlineVars
      BY <2>1, <3>2, NextHonest DEF ClockSafe, deadlineVars
    <3> QED
      BY <2>1, <3>1, <3>2
  <2>4. ClockTypes'
    BY <2>1, <2>2, ClockTypesStep DEF ClockSafe
  <2>5. ClockInv'
    BY <2>1, <2>4, ClockInvStep DEF ClockSafe
  <2> QED
    BY <2>2, <2>3, <2>4, <2>5 DEF ClockSafe
<1>3. ClockSafe => InTime
  <2>1. SUFFICES ASSUME ClockSafe, NEW j \in Jobs,
                        rows[j].status \in Monitored, rows[j].cancellation_deadline # None,
                        rows[j].hotel_id # None, HeardBy(j) < clock,
                        clock < rows[j].cancellation_deadline, ~Heard(j)
                 PROVE  FALSE
    BY DEF InTime
  <2>2. Waiting(j)
    BY <2>1 DEF Waiting
  <2>3. clock <= HeardBy(j)
    BY <2>1, <2>2, WaitingIsInTime DEF ClockSafe
  <2>4. HeardBy(j) \in Nat /\ clock \in Nat
    BY <2>1, HeardByFacts DEF ClockSafe, ClockTypes, TypeOK, StoreTypeOK, Time
  <2> QED
    BY <2>1, <2>3, <2>4
<1> QED
  BY <1>1, <1>2, <1>3, PTL DEF ClockSpec

=============================================================================

--------------------------- MODULE HotelSaveProofs ---------------------------
(***************************************************************************)
(* Proofs about the whole service: any number of workers, clients, jobs,   *)
(* crashes and Stripe events on one database.                              *)
(***************************************************************************)
EXTENDS HotelSave, AloneProofs, JobApiProofs

\* The types of every part, what a pass holds and what a request will write.
SystemInv == TypeOK /\ SessionIsPass /\ ApiInv

\* An empty database, and nobody at work.
LEMMA SystemInitInv == SystemInit => SystemInv
  <1> SUFFICES ASSUME SystemInit PROVE SystemInv
    OBVIOUS
  <1>1. ApiInv
    BY ApiInitInv DEF SystemInit, ApiInit
  <1>2. StoreTypeOK
    BY <1>1 DEF ApiInv, ApiTyped, ApiTypeOK
  <1>3. TypeOK
    BY <1>2 DEF SystemInit, SessionInit, TypeOK, NoSession, NothingAdded, NothingSeen,
               RowOrNone, Maybe
  <1>4. SessionIsPass
    BY DEF SystemInit, SessionInit, NoSession, SessionIsPass
  <1>5. QED
    BY <1>1, <1>3, <1>4 DEF SystemInv

\* What the commit of a pass does to a row.
LEMMA PassRow ==
    ASSUME TypeOK, NEW w \in Workers, CommitPass(w), NEW j \in Jobs, rows[j] # NoRow
    PROVE  /\ rows'[j] # NoRow
           /\ mem[w][j] = NoRow => rows'[j] = rows[j]
           /\ mem[w][j] # NoRow => /\ rows'[j] = Flush(rows[j], loaded[w][j], mem[w][j])
                                   /\ loaded[w][j] \in Row /\ mem[w][j] \in Row
                                   /\ rows[j] \in Row /\ passNow[w] \in Nat
  <1>1. rows'[j] = IF mem[w][j] = NoRow THEN rows[j]
                   ELSE Flush(rows[j], loaded[w][j], mem[w][j])
    BY DEF CommitPass
  <1>2. ASSUME mem[w][j] # NoRow
        PROVE  /\ loaded[w][j] \in Row /\ mem[w][j] \in Row /\ rows[j] \in Row
               /\ passNow[w] \in Nat
    BY <1>2 DEF TypeOK, StoreTypeOK, RowOrNone, Maybe, Time
  <1>3. mem[w][j] # NoRow => rows'[j] \in Row
    BY <1>1, <1>2, FlushType
  <1>4. QED
    BY <1>1, <1>2, <1>3, StoreAssumption

\* Only the commit of a pass changes rows, and no step of a pass removes one.
LEMMA WorkerRows ==
    ASSUME TypeOK, NEW w \in Workers, WorkerStep(w)
    PROVE  /\ rows' = rows \/ CommitPass(w)
           /\ \A j \in Jobs : rows[j] # NoRow => rows'[j] # NoRow
  <1>1. rows' = rows \/ CommitPass(w)
    <2>1. ASSUME NEW j \in Jobs, SkipPaused(w, j) \/ ProcessJob(w, j) PROVE rows' = rows
      <3>1. CASE SkipPaused(w, j)
        BY <3>1 DEF SkipPaused, Reach
      <3>2. CASE ProcessJob(w, j)
        BY <3>2, JobEffect DEF Effect, Process, Reach
      <3>3. QED
        BY <2>1, <3>1, <3>2
    <2>2. QED
      BY <2>1 DEF WorkerStep, PassStep, StartPass, Crash, storeVars
  <1>2. QED
    BY <1>1, PassRow

\* Every subscription status is a plan status.
LEMMA PlanOfType == \A status : PlanOf(status) \in PlanStatus
  BY DEF PlanOf, PlanStatus

\* A client knows nothing of sessions, and Stripe only of plans.
LEMMA SystemKeepsInv == SystemInv /\ [SystemNext]_vars => SystemInv'
  <1> SUFFICES ASSUME SystemInv, [SystemNext]_vars PROVE SystemInv'
    OBVIOUS
  <1>0. TypeOK /\ SessionIsPass /\ ApiInv /\ ApiTyped /\ ApiTypeOK /\ Underway /\ StoreTypeOK
    BY DEF SystemInv, ApiInv, ApiTyped, ApiTypeOK
  <1>1. ASSUME [Next]_schedVars, UNCHANGED apiVars,
               \A j \in Jobs : rows[j] # NoRow => rows'[j] # NoRow
        PROVE  SystemInv'
    <2>1. TypeOK' /\ SessionIsPass'
      BY <1>0, <1>1, NextKeepsTypes, NextKeepsSession
    <2>2. ApiTypeOK'
      BY <1>0, <1>1, <2>1 DEF TypeOK, ApiTypeOK, apiVars
    <2>3. Underway'
      BY <1>0, <1>1 DEF Underway, apiVars, ApiTypeOK, Served
    <2>4. RequestIsStep'
      BY <1>0, <1>1 DEF ApiInv, RequestIsStep, apiVars
    <2>5. QED
      BY <2>1, <2>2, <2>3, <2>4 DEF SystemInv, ApiInv, ApiTyped
  <1>2. ASSUME NEW w \in Workers, WorkerStep(w) PROVE SystemInv'
    BY <1>0, <1>1, <1>2, WorkerRows DEF WorkerStep, Next
  <1>3. CASE Tick /\ UNCHANGED <<sessionVars, crashes, apiVars, planEvents>>
    BY <1>1, <1>3 DEF Next, Tick, apiVars
  <1>4. CASE UNCHANGED vars
    BY <1>1, <1>4 DEF vars, schedVars, storeVars, apiVars
  <1>5. ASSUME UNCHANGED <<sessionVars, crashes, clock>>, StoreTypeOK',
               \A j \in Jobs : rows[j] # NoRow => rows'[j] # NoRow
        PROVE  TypeOK' /\ SessionIsPass'
    <2>1. TypeOK'
      BY <1>0, <1>5 DEF TypeOK, sessionVars
    <2>2. SessionIsPass'
      BY <1>0, <1>5 DEF SessionIsPass, sessionVars
    <2>3. QED
      BY <2>1, <2>2
  <1>6. ASSUME NEW c \in Clients, ClientStep(c) PROVE SystemInv'
    <2>1. ApiTyped' /\ RequestIsStep'
      BY <1>0, <1>6, RequestKeepsTypes, RequestKeepsStep DEF ClientStep, ApiInv
    <2>2. \A j \in Jobs : rows[j] # NoRow => rows'[j] # NoRow
      BY <1>0, <1>6, RequestKeepsRows DEF ClientStep
    <2>3. clock' = clock
      BY <1>0, <1>6, InsertStep, LoadStep, RefreshStep
      DEF ClientStep, RequestStep, LoseRequest, CommitPatch, CommitActivation, CommitCancel,
          Notify, storeVars
    <2>4. QED
      BY <1>5, <1>6, <2>1, <2>2, <2>3
      DEF ClientStep, SystemInv, ApiInv, ApiTyped, ApiTypeOK
  <1>7. ASSUME NEW u \in Users, StripeWebhook(u) PROVE SystemInv'
    <2>1. /\ UNCHANGED <<rows, checks, clock, mail, sessionVars, crashes, apiVars>>
          /\ plan' \in [Users -> PlanStatus]
      BY <1>0, <1>7, PlanOfType DEF StripeWebhook, StoreTypeOK
    <2>2. StoreTypeOK'
      BY <1>0, <2>1 DEF StoreTypeOK
    <2>3. ApiInv'
      BY <1>0, <2>1, <2>2
      DEF ApiInv, ApiTyped, ApiTypeOK, Underway, RequestIsStep, apiVars
    <2>4. QED
      BY <1>5, <2>1, <2>2, <2>3 DEF SystemInv
  <1>8. QED
    BY <1>2, <1>3, <1>4, <1>6, <1>7 DEF SystemNext

-----------------------------------------------------------------------------
(* What a pass may undo. *)

\* The commit of a pass writes none of the user's columns.
LEMMA CommitSparesPolicy ==
    ASSUME SystemInv, NEW w \in Workers, CommitPass(w), NEW j \in Jobs, rows[j] # NoRow
    PROVE  /\ rows'[j].refundable = rows[j].refundable
           /\ rows'[j].cancellation_deadline = rows[j].cancellation_deadline
           /\ (loaded[w][j] # NoRow => loaded[w][j].hotel_id # None)
                => rows'[j].hotel_id = rows[j].hotel_id
  <1>1. TypeOK /\ SessionIsPass
    BY DEF SystemInv
  <1>2. CASE mem[w][j] = NoRow
    BY <1>1, <1>2, PassRow
  <1>3. CASE mem[w][j] # NoRow
    <2>1. rows'[j] = Flush(rows[j], loaded[w][j], mem[w][j]) /\ loaded[w][j] # NoRow
      BY <1>1, <1>3, PassRow DEF TypeOK
    <2>2. SamePolicy(loaded[w][j], mem[w][j])
      BY <1>1, <1>3 DEF SessionIsPass
    <2>3. QED
      BY <2>1, <2>2 DEF SamePolicy, Flush
  <1>4. QED
    BY <1>2, <1>3

\* A step that brings a cancelled job back commits what was read before.
LEMMA SystemUncancels ==
    ASSUME SystemInv, SystemNext, NEW j \in Jobs,
           rows[j] # NoRow, rows[j].status = "cancelled", rows'[j].status # "cancelled"
    PROVE  \/ \E w \in Workers : CommitPass(w) /\ loaded[w][j].status \in Monitored
           \/ OlderActivation(j)
           \/ SetByClient(j)
  <1>0. TypeOK /\ SessionIsPass /\ ApiInv /\ rows' # rows
    BY DEF SystemInv
  <1>1. ASSUME NEW w \in Workers, WorkerStep(w)
        PROVE  CommitPass(w) /\ loaded[w][j].status \in Monitored
    <2>1. CommitPass(w)
      BY <1>0, <1>1, WorkerRows
    <2>2. mem[w][j] # NoRow
      BY <1>0, <2>1, PassRow
    <2>3. QED
      BY <1>0, <2>1, <2>2 DEF SessionIsPass
  <1>2. ASSUME NEW c \in Clients, ClientStep(c) PROVE OlderActivation(j) \/ SetByClient(j)
    BY <1>0, <1>2, RequestUncancels DEF ClientStep
  <1>3. QED
    BY <1>0, <1>1, <1>2 DEF SystemNext, StripeWebhook, Tick

\* Whatever overlaps, a cancelled job comes back only through a session that had
\* read it before, or because its client said so: run_once selects and loads
\* monitored jobs only, and activate_if_ready pending ones.
THEOREM CancelLostOnlyToOlderSessionAlways == SystemSpec => CancelLostOnlyToOlderSession
  <1>1. SystemInv /\ [SystemNext]_vars =>
           [\A j \in Jobs :
              rows[j] # NoRow /\ rows[j].status = "cancelled" /\ rows'[j].status # "cancelled" =>
                \/ \E w \in Workers : CommitPass(w) /\ loaded[w][j].status \in Monitored
                \/ OlderActivation(j)
                \/ SetByClient(j)]_vars
    BY SystemUncancels
  <1>2. QED
    BY <1>1, SystemInitInv, SystemKeepsInv, PTL DEF SystemSpec, CancelLostOnlyToOlderSession

-----------------------------------------------------------------------------
(* What is monitored is scheduled. *)

\* A pass holds a job that was due; it leaves status and schedule, moves the
\* schedule past its `now`, or ends the job.
PassReschedules(w, j) ==
    LET old == loaded[w][j]
        row == mem[w][j]
    IN  /\ old.status \in Monitored
        /\ old.next_check_at \in Nat /\ old.next_check_at <= passNow[w]
        /\ \/ row.status = old.status /\ row.next_check_at = old.next_check_at
           \/ /\ row.status \in Monitored
              /\ row.next_check_at \in Nat /\ row.next_check_at > passNow[w]
           \/ row.status = "expired" /\ row.next_check_at = None

\* Why a stale commit cannot split the two columns: nothing a session loaded as
\* monitored is pending again, and a pass that writes a status writes a next
\* check that is not the one it loaded.
SessionsReschedule ==
    \A w \in Workers, j \in Jobs : mem[w][j] # NoRow =>
        /\ PassReschedules(w, j)
        /\ j \notin Excused => rows[j].status \notin Pending

ScheduleInv == SystemInv /\ ScheduleIsKept /\ SessionsReschedule

\* The commit of a pass.
LEMMA CommitPassAgrees ==
    ASSUME ScheduleInv, NEW w \in Workers, CommitPass(w), NEW j \in Jobs \ Excused,
           rows[j] # NoRow
    PROVE  /\ Agrees(rows'[j])
           /\ rows[j].status \notin Pending => rows'[j].status \notin Pending
  <1>0. TypeOK /\ Agrees(rows[j])
    BY DEF ScheduleInv, SystemInv, ScheduleIsKept
  <1>1. CASE mem[w][j] = NoRow
    BY <1>0, <1>1, PassRow
  <1>2. CASE mem[w][j] # NoRow
    <2>1. /\ rows'[j] = Flush(rows[j], loaded[w][j], mem[w][j])
          /\ passNow[w] \in Nat
      BY <1>0, <1>2, PassRow
    <2>2. PassReschedules(w, j) /\ rows[j].status \notin Pending
      BY <1>2 DEF ScheduleInv, SessionsReschedule
    <2>3. PICK old, row, new : old = loaded[w][j] /\ row = mem[w][j] /\ new = rows'[j]
      OBVIOUS
    <2>4. /\ new.status = IF row.status = old.status THEN rows[j].status ELSE row.status
          /\ new.next_check_at = IF row.next_check_at = old.next_check_at
                                 THEN rows[j].next_check_at ELSE row.next_check_at
      BY <2>1, <2>3 DEF Flush
    <2>5. CASE row.status = old.status /\ row.next_check_at = old.next_check_at
      BY <1>0, <2>2, <2>3, <2>4, <2>5 DEF Agrees
    <2>6. CASE /\ row.status \in Monitored
               /\ row.next_check_at \in Nat /\ row.next_check_at > passNow[w]
      <3>1. old.next_check_at \in Nat /\ old.next_check_at <= passNow[w]
        BY <2>2, <2>3 DEF PassReschedules
      <3>2. row.next_check_at # old.next_check_at /\ row.next_check_at # None
        BY <2>1, <2>6, <3>1, FloorAssumption
      <3>3. new.next_check_at # None /\ new.status \notin Pending
        BY <2>2, <2>4, <2>6, <3>2 DEF Monitored, Pending
      <3>4. QED
        BY <2>3, <3>3 DEF Agrees
    <2>7. CASE row.status = "expired" /\ row.next_check_at = None
      <3>1. old.status \in Monitored
        BY <2>2, <2>3 DEF PassReschedules
      <3>2. new.status = "expired"
        BY <2>4, <2>7, <3>1 DEF Monitored
      <3>3. QED
        BY <2>3, <3>2 DEF Agrees, Monitored, Pending
    <2>8. QED
      BY <2>2, <2>3, <2>5, <2>6, <2>7 DEF PassReschedules
  <1>3. QED
    BY <1>1, <1>2

\* What a pass holds, from its start to its end.
LEMMA WorkerReschedules ==
    ASSUME ScheduleInv, NEW w \in Workers, WorkerStep(w)
    PROVE  SessionsReschedule'
  <1>0. TypeOK /\ SessionIsPass /\ Excused' = Excused
    BY DEF ScheduleInv, SystemInv, WorkerStep, apiVars, Excused
  <1>1. \A j \in Jobs \ Excused : rows[j] # NoRow /\ rows[j].status \notin Pending
           => rows'[j].status \notin Pending
    BY <1>0, WorkerRows, CommitPassAgrees
  <1>2. ASSUME NEW v \in Workers, NEW k \in Jobs, mem[v][k] # NoRow,
               PassReschedules(v, k)' \/ UNCHANGED <<loaded[v], mem[v][k], passNow[v]>>
        PROVE  /\ PassReschedules(v, k)'
               /\ k \notin Excused' => rows'[k].status \notin Pending
    <2>1. /\ PassReschedules(v, k) /\ rows[k] # NoRow
          /\ k \notin Excused => rows[k].status \notin Pending
      BY <1>0, <1>2 DEF ScheduleInv, SessionsReschedule, TypeOK
    <2>2. PassReschedules(v, k)'
      BY <1>2, <2>1 DEF PassReschedules
    <2>3. QED
      BY <1>0, <1>1, <2>1, <2>2
  <1>3. CASE StartPass(w)
    <2>1. rows' = rows /\ clock \in Nat
      BY <1>0, <1>3 DEF StartPass, storeVars, TypeOK, StoreTypeOK, Time
    <2>2. ASSUME NEW k \in Jobs, mem'[w][k] # NoRow
          PROVE  PassReschedules(w, k)' /\ rows'[k].status \notin Pending
      <3>1. /\ mem'[w][k] = rows[k] /\ loaded'[w][k] = rows[k] /\ passNow'[w] = clock
            /\ Due(rows[k], clock)
        BY <1>0, <1>3, <2>2 DEF StartPass, TypeOK
      <3>2. /\ rows[k] \in Row /\ rows[k].status \in Monitored
            /\ rows[k].next_check_at # None /\ rows[k].next_check_at <= clock
        BY <1>0, <3>1 DEF Due, TypeOK, StoreTypeOK
      <3>3. rows[k].next_check_at \in Nat
        BY <3>2 DEF Row, Maybe, Time
      <3>4. QED
        BY <2>1, <3>1, <3>2, <3>3 DEF PassReschedules, Monitored, Pending
    <2>3. ASSUME NEW v \in Workers \ {w}
          PROVE  UNCHANGED <<loaded[v], mem[v], passNow[v]>>
      BY <1>0, <1>3 DEF StartPass, TypeOK
    <2>4. QED
      BY <1>2, <2>2, <2>3 DEF SessionsReschedule
  <1>4. ASSUME NEW j \in Jobs, SkipPaused(w, j) PROVE SessionsReschedule'
    BY <1>2, <1>4 DEF SkipPaused, Reach, SessionsReschedule
  <1>5. ASSUME NEW j \in Jobs, ProcessJob(w, j) PROVE SessionsReschedule'
    <2>1. PICK row \in Row : Effect(w, j, row)
      BY <1>0, <1>5, JobEffect
    <2>2. /\ UNCHANGED <<passNow, loaded>>
          /\ j \in todo[w] /\ mem[w][j] # NoRow /\ mem'[w][j] = row
          /\ \A v \in Workers, k \in Jobs : v # w \/ k # j => mem'[v][k] = mem[v][k]
      BY <1>0, <2>1 DEF Effect, Process, Reach, TypeOK
    <2>3. mem[w][j] = loaded[w][j] /\ PassReschedules(w, j)
      BY <1>0, <2>2 DEF SessionIsPass, ScheduleInv, SessionsReschedule
    <2>4. Reschedules(w, j, row)
      BY <2>1 DEF Effect
    <2>5. PassReschedules(w, j)'
      BY <2>2, <2>3, <2>4 DEF PassReschedules, Reschedules, Monitored
    <2>6. QED
      BY <1>2, <2>2, <2>5 DEF SessionsReschedule
  <1>6. CASE CommitPass(w) \/ Crash(w)
    <2>1. CloseSession(w)
      BY <1>6 DEF CommitPass, Crash
    <2>2. \A v \in Workers, k \in Jobs : mem'[v][k] # NoRow =>
             mem[v][k] # NoRow /\ UNCHANGED <<loaded[v], mem[v], passNow[v]>>
      BY <1>0, <2>1 DEF CloseSession, NoSession, TypeOK
    <2>3. QED
      BY <1>2, <2>2 DEF SessionsReschedule
  <1>7. QED
    BY <1>3, <1>4, <1>5, <1>6 DEF WorkerStep, PassStep

\* A request never makes a job pending again, unless its client says so.
LEMMA RequestLeavesPending ==
    ASSUME ApiInv, NEW c \in Clients, RequestStep(c) \/ LoseRequest(c),
           NEW j \in Jobs \ Excused', rows[j] # NoRow, rows[j].status \notin Pending
    PROVE  rows'[j].status \notin Pending
  <1>1. j \in Jobs /\ (CommitPatch(c) /\ req[c].job = j => ~WritesStatus(req[c]))
    BY RequestExcuses DEF Excused
  <1>2. QED
    BY <1>1, RequestRow DEF Pending

\* Every step of the service keeps status and schedule together.
LEMMA SystemKeepsSchedule == ScheduleInv /\ [SystemNext]_vars => ScheduleInv'
  <1> SUFFICES ASSUME ScheduleInv, [SystemNext]_vars
               PROVE  ScheduleIsKept' /\ SessionsReschedule'
    BY SystemKeepsInv DEF ScheduleInv
  <1>0. SystemInv /\ ScheduleIsKept /\ SessionsReschedule /\ TypeOK /\ ApiInv
    BY DEF ScheduleInv, SystemInv
  <1>1. CASE UNCHANGED <<rows, sessionVars, apiVars>>
    BY <1>0, <1>1
    DEF ScheduleIsKept, SessionsReschedule, PassReschedules, InStep, Excused, sessionVars, apiVars
  <1>2. ASSUME NEW w \in Workers, WorkerStep(w) PROVE ScheduleIsKept' /\ SessionsReschedule'
    <2>1. UNCHANGED <<req, byHand, unscheduled>> /\ Excused' = Excused
      BY <1>2 DEF WorkerStep, apiVars, Excused
    <2>2. ASSUME NEW j \in Jobs \ Excused, rows'[j] # NoRow PROVE Agrees(rows'[j])
      <3>1. CASE rows' = rows
        BY <1>0, <2>2, <3>1 DEF ScheduleIsKept
      <3>2. CASE CommitPass(w)
        <4>1. rows[j] # NoRow
          BY <1>0, <2>2, <3>2 DEF CommitPass, TypeOK
        <4>2. QED
          BY <3>2, <4>1, CommitPassAgrees
      <3>3. QED
        BY <1>0, <1>2, <3>1, <3>2, WorkerRows
    <2>3. ScheduleIsKept'
      BY <1>0, <2>1, <2>2 DEF ScheduleIsKept, InStep
    <2>4. QED
      BY <1>2, <2>3, WorkerReschedules
  <1>3. ASSUME NEW c \in Clients, ClientStep(c) PROVE ScheduleIsKept' /\ SessionsReschedule'
    <2>1. (RequestStep(c) \/ LoseRequest(c)) /\ UNCHANGED <<loaded, mem, passNow>>
      BY <1>3 DEF ClientStep, sessionVars
    <2>2. Excused \subseteq Excused'
      BY <1>0, <2>1, RequestExcuses
    <2>3. ASSUME NEW w \in Workers, NEW j \in Jobs, mem'[w][j] # NoRow
          PROVE  /\ PassReschedules(w, j)'
                 /\ j \notin Excused' => rows'[j].status \notin Pending
      <3>1. /\ PassReschedules(w, j) /\ rows[j] # NoRow
            /\ j \notin Excused => rows[j].status \notin Pending
        BY <1>0, <2>1, <2>3 DEF SessionsReschedule, TypeOK
      <3>2. PassReschedules(w, j)'
        BY <2>1, <3>1 DEF PassReschedules
      <3>3. QED
        BY <1>0, <2>1, <2>2, <3>1, <3>2, RequestLeavesPending
    <2>4. ScheduleIsKept'
      BY <1>0, <2>1, RequestKeepsSchedule
    <2>5. QED
      BY <2>3, <2>4 DEF SessionsReschedule
  <1>4. QED
    BY <1>1, <1>2, <1>3
    DEF SystemNext, StripeWebhook, Tick, vars, schedVars, storeVars

\* However passes and requests overlap and die, a monitored job has a next check
\* (but for the two kinds of job MonitoredIsScheduled names): no commit of
\* run_once, create_job, activate or cancel_job splits status from schedule.
THEOREM MonitoredIsScheduledAlways == SystemSpec => []MonitoredIsScheduled
  <1>1. SystemInit => ScheduleInv
    <2>1. SystemInit => ScheduleIsKept /\ SessionsReschedule
      BY DEF SystemInit, StoreInit, SessionInit, RequestsInit, NoSession,
             ScheduleIsKept, SessionsReschedule, InStep
    <2>2. QED
      BY <2>1, SystemInitInv DEF ScheduleInv
  <1>2. ScheduleInv => MonitoredIsScheduled
    BY DEF ScheduleInv, ScheduleIsKept, Agrees, Excused, MonitoredIsScheduled
  <1>3. QED
    BY <1>1, <1>2, SystemKeepsSchedule, PTL DEF SystemSpec

-----------------------------------------------------------------------------
(* What was told stays on the record. *)

\* The columns that say what the owner was told.
SameRecord(old, row) ==
    /\ row.drop_alert_sent = old.drop_alert_sent
    /\ row.lowest_alerted_price = old.lowest_alerted_price
    /\ row.deadline_alert_sent = old.deadline_alert_sent

NothingTold(row) ==
    ~row.drop_alert_sent /\ row.lowest_alerted_price = None /\ ~row.deadline_alert_sent

\* What a request may send.
Notices == {"BookingMonitored", "HotelResolutionNeeded", "CancellationDeadlineNeeded"}

\* No request writes what the owner was told, nor sends an alert.
RequestsSpareRecord ==
    \A c \in Clients : req[c] # Idle =>
        /\ SameRecord(req[c].loaded, req[c].mem)
        /\ req[c].step = "notify" => req[c].kind \in Notices

\* The two ways of making a job, as the record sees them.
LEMMA InsertTellsNothing ==
    ASSUME NEW c \in Clients, NEW j \in Jobs, CreateJob(c, j) \/ IngestEmail(c, j)
    PROVE  \E row, kind : /\ Insert(c, j, row, kind)
                          /\ NothingTold(row) /\ kind \in Notices
  <1>1. ASSUME NEW status, NEW hotel, NEW refundable, NEW deadline, NEW next
        PROVE  NothingTold(NewRow(status, hotel, refundable, deadline, next))
    BY DEF NothingTold, NewRow
  <1>2. CASE CreateJob(c, j)
    <2>1. PICK hotel, refundable, deadline :
             Insert(c, j, NewRow("active", hotel, refundable, deadline, clock),
                    "BookingMonitored")
      BY <1>2 DEF CreateJob
    <2>2. QED
      BY <1>1, <2>1 DEF Notices
  <1>3. CASE IngestEmail(c, j)
    <2>1. PICK hotel, deadline :
             \/ Insert(c, j, NewRow("pending_hotel", None, TRUE, deadline, None),
                       "HotelResolutionNeeded")
             \/ Insert(c, j, NewRow("pending_info", hotel, TRUE, None, None),
                       "CancellationDeadlineNeeded")
             \/ Insert(c, j, NewRow("active", hotel, TRUE, deadline, clock),
                       "BookingMonitored")
      BY <1>3 DEF IngestEmail
    <2>2. QED
      BY <1>1, <2>1 DEF Notices
  <1>4. QED
    BY <1>2, <1>3

\* What a client loads differs from what it writes in other columns only.
LEMMA ClientSparesRecord ==
    ASSUME ApiInv, RequestsSpareRecord, NEW c \in Clients, RequestStep(c) \/ LoseRequest(c)
    PROVE  RequestsSpareRecord'
  <1>1. /\ req \in [Clients -> Served \cup {Idle}]
        /\ \A j \in Jobs : rows[j] # NoRow => rows[j] \in Row
        /\ req[c] # Idle => req[c] \in Served /\ req[c].job \in Jobs /\ rows[req[c].job] \in Row
    BY ServedRequest DEF ApiInv, ApiTyped, ApiTypeOK, Underway, StoreTypeOK
  <1>2. ASSUME NEW r, Moves(c, r),
               r # Idle => /\ SameRecord(r.loaded, r.mem)
                           /\ r.step = "notify" => r.kind \in Notices
        PROVE  RequestsSpareRecord'
    <2>1. req'[c] = r /\ \A d \in Clients \ {c} : req'[d] = req[d]
      BY <1>1, <1>2 DEF Moves
    <2>2. QED
      BY <1>2, <2>1 DEF RequestsSpareRecord
  <1>3. ASSUME NEW row PROVE SameRecord(row, row)
    BY DEF SameRecord
  <1>4. ASSUME NEW step, NEW j, NEW before, NEW after, NEW kind
        PROVE  /\ Request(step, j, before, after, kind).loaded = before
               /\ Request(step, j, before, after, kind).mem = after
               /\ Request(step, j, before, after, kind).step = step
               /\ Request(step, j, before, after, kind).kind = kind
    BY DEF Request
  <1>5. ASSUME NEW j \in Jobs, CreateJob(c, j) \/ IngestEmail(c, j)
        PROVE  RequestsSpareRecord'
    <2>1. PICK row, kind : Insert(c, j, row, kind) /\ kind \in Notices
      BY <1>5, InsertTellsNothing
    <2>2. Moves(c, Request("notify", j, row, row, kind))
      BY <2>1 DEF Insert, Moves
    <2>3. QED
      BY <1>2, <1>3, <1>4, <2>1, <2>2
  <1>6. ASSUME NEW j \in Jobs, BeginPatch(c, j) PROVE RequestsSpareRecord'
    <2>1. PICK payload : /\ rows[j] \in Row
                         /\ Moves(c, Request("patch", j, rows[j],
                                             Patched(rows[j], payload), NoNotice))
      BY <1>1, <1>6 DEF BeginPatch, Moves
    <2>2. SameRecord(rows[j], Patched(rows[j], payload))
      BY <2>1 DEF SameRecord, Patched, Row
    <2>3. QED
      BY <1>2, <1>4, <2>1, <2>2
  <1>7. ASSUME NEW j \in Jobs, BeginCancel(c, j) PROVE RequestsSpareRecord'
    <2> DEFINE row == [rows[j] EXCEPT !.status = "cancelled", !.next_check_at = None]
    <2>1. rows[j] \in Row /\ Moves(c, Request("cancel", j, rows[j], row, NoNotice))
      BY <1>1, <1>7 DEF BeginCancel, Moves
    <2>2. SameRecord(rows[j], row)
      BY <2>1 DEF SameRecord, Row
    <2> HIDE DEF row
    <2>3. QED
      BY <1>2, <1>4, <2>1, <2>2
  <1>8. CASE CommitPatch(c)
    <2> DEFINE r == [req[c] EXCEPT !.step = "refresh"]
    <2>1. Moves(c, r) /\ req[c] # Idle /\ req[c] \in Served
      BY <1>1, <1>8 DEF CommitPatch, InStep, Moves
    <2>2. r.loaded = req[c].loaded /\ r.mem = req[c].mem /\ r.step = "refresh"
      BY <2>1 DEF Served
    <2> HIDE DEF r
    <2>3. QED
      BY <1>2, <2>1, <2>2 DEF RequestsSpareRecord
  <1>9. CASE RefreshPatched(c)
    <2> DEFINE row == rows[req[c].job]
               active == [row EXCEPT !.status = "active", !.next_check_at = clock]
               next == Request("activate", req[c].job, row, active, NoNotice)
    <2>1. row \in Row
      BY <1>1, <1>9 DEF RefreshPatched, InStep
    <2>2. SameRecord(row, active)
      BY <2>1 DEF SameRecord, Row
    <2>3. Moves(c, next) \/ Moves(c, Idle)
      BY <1>9 DEF RefreshPatched, Moves
    <2>4. next.loaded = row /\ next.mem = active /\ next.step = "activate"
      BY <1>4
    <2> HIDE DEF next, active, row
    <2>5. QED
      BY <1>2, <2>2, <2>3, <2>4
  <1>10. CASE CommitActivation(c)
    <2> DEFINE r == [req[c] EXCEPT !.step = "notify", !.kind = "BookingMonitored"]
    <2>1. Moves(c, r) /\ req[c] # Idle /\ req[c] \in Served
      BY <1>1, <1>10 DEF CommitActivation, InStep, Moves
    <2>2. r.loaded = req[c].loaded /\ r.mem = req[c].mem /\ r.kind = "BookingMonitored"
      BY <2>1 DEF Served
    <2> HIDE DEF r
    <2>3. QED
      BY <1>2, <2>1, <2>2 DEF RequestsSpareRecord, Notices
  <1>11. CASE CommitCancel(c) \/ Notify(c) \/ LoseRequest(c)
    <2>1. Moves(c, Idle)
      BY <1>11 DEF CommitCancel, Notify, LoseRequest, Moves
    <2>2. QED
      BY <1>2, <2>1
  <1>12. QED
    BY <1>5, <1>6, <1>7, <1>8, <1>9, <1>10, <1>11 DEF RequestStep

\* What a client does to a row and to the mail.
LEMMA ClientTellsNothing ==
    ASSUME ApiInv, RequestsSpareRecord, NEW c \in Clients, RequestStep(c) \/ LoseRequest(c)
    PROVE  /\ \A j \in Jobs :
                 /\ rows[j] # NoRow => SameRecord(rows[j], rows'[j])
                 /\ rows[j] = NoRow /\ rows'[j] # NoRow => NothingTold(rows'[j])
           /\ \/ mail' = mail
              \/ \E j \in Jobs, event \in Event, outcome \in Outcomes :
                    event.kind \in Notices /\ Emit(j, event, outcome)
  <1>1. /\ rows \in [Jobs -> Row \cup {NoRow}] /\ NoRow \notin Row
        /\ req[c] # Idle => /\ req[c] \in Served /\ req[c].job \in Jobs
                            /\ req[c].loaded \in Row /\ req[c].mem \in Row
                            /\ rows[req[c].job] \in Row
    BY ServedRequest, StoreAssumption DEF ApiInv, ApiTyped, ApiTypeOK, Underway, StoreTypeOK
  <1>2. ASSUME NEW row PROVE SameRecord(row, row)
    BY DEF SameRecord
  <1>3. CASE rows' = rows
    <2>1. \A j \in Jobs : /\ rows[j] # NoRow => SameRecord(rows[j], rows'[j])
                          /\ ~(rows[j] = NoRow /\ rows'[j] # NoRow)
      BY <1>2, <1>3
    <2>2. CASE Notify(c)
      <3>1. PICK outcome \in Outcomes : Emit(req[c].job, Notice(req[c].kind), outcome)
        BY <2>2 DEF Notify
      <3>2. req[c] # Idle /\ req[c].kind \in Notices
        BY <2>2 DEF Notify, InStep, RequestsSpareRecord
      <3>3. Notice(req[c].kind) \in Event /\ Notice(req[c].kind).kind \in Notices
        BY <3>2 DEF Notice, Event, EventKinds, Notices, Maybe
      <3>4. QED
        BY <1>1, <2>1, <3>1, <3>2, <3>3
    <2>3. CASE ~Notify(c)
      <3>1. mail' = mail
        BY <2>3
        DEF RequestStep, LoseRequest, CreateJob, IngestEmail, Insert, BeginPatch, BeginCancel,
            CommitPatch, RefreshPatched, CommitActivation, CommitCancel, storeVars
      <3>2. QED
        BY <2>1, <3>1
    <2>4. QED
      BY <2>2, <2>3
  <1>4. ASSUME NEW j \in Jobs, CreateJob(c, j) \/ IngestEmail(c, j)
        PROVE  /\ \A k \in Jobs :
                     /\ rows[k] # NoRow => SameRecord(rows[k], rows'[k])
                     /\ rows[k] = NoRow /\ rows'[k] # NoRow => NothingTold(rows'[k])
               /\ mail' = mail
    <2>1. PICK row, kind : Insert(c, j, row, kind) /\ NothingTold(row)
      BY <1>4, InsertTellsNothing
    <2>2. /\ rows[j] = NoRow /\ mail' = mail
          /\ \A k \in Jobs : rows'[k] = IF k = j THEN row ELSE rows[k]
      BY <1>1, <2>1 DEF Insert
    <2>3. QED
      BY <1>2, <2>1, <2>2
  <1>5. CASE CommitPatch(c) \/ CommitActivation(c) \/ CommitCancel(c)
    <2>1. req[c] # Idle /\ mail' = mail /\ CommitRequest(c)
      BY <1>5 DEF CommitPatch, CommitActivation, CommitCancel, InStep
    <2> DEFINE r == req[c]
               new == Flush(rows[r.job], r.loaded, r.mem)
    <2>2. SameRecord(r.loaded, r.mem)
      BY <2>1 DEF RequestsSpareRecord
    <2>3. SameRecord(rows[r.job], new)
      BY <2>2 DEF SameRecord, Flush
    <2>4. \A k \in Jobs : rows'[k] = IF k = r.job THEN new ELSE rows[k]
      BY <1>1, <2>1 DEF CommitRequest
    <2>5. rows[r.job] # NoRow
      BY <1>1, <2>1
    <2> HIDE DEF new, r
    <2>6. QED
      BY <1>2, <2>1, <2>3, <2>4, <2>5
  <1>6. QED
    BY <1>3, <1>4, <1>5
    DEF RequestStep, LoseRequest, BeginPatch, BeginCancel, RefreshPatched, Notify, storeVars

\* The steps of the service, as what was told sees them.
LEMMA SystemCases ==
    ASSUME SystemInv, [SystemNext]_vars
    PROVE  \/ UNCHANGED <<rows, mail, mem, loaded, req, byHand>>
           \/ \E w \in Workers : StartPass(w) /\ UNCHANGED <<req, byHand>>
           \/ \E w \in Workers, j \in Jobs, row \in Row :
                 Effect(w, j, row) /\ UNCHANGED <<req, byHand>>
           \/ \E w \in Workers : CommitPass(w) /\ UNCHANGED <<req, byHand>>
           \/ \E w \in Workers : Crash(w) /\ UNCHANGED <<req, byHand>>
           \/ \E c \in Clients : /\ RequestStep(c) \/ LoseRequest(c)
                                 /\ UNCHANGED <<mem, loaded>>
  <1>0. TypeOK /\ SessionIsPass
    BY DEF SystemInv
  <1>1. ASSUME NEW w \in Workers, WorkerStep(w)
        PROVE  \/ UNCHANGED <<rows, mail, mem, loaded, req, byHand>>
               \/ StartPass(w) /\ UNCHANGED <<req, byHand>>
               \/ \E j \in Jobs, row \in Row : Effect(w, j, row) /\ UNCHANGED <<req, byHand>>
               \/ CommitPass(w) /\ UNCHANGED <<req, byHand>>
               \/ Crash(w) /\ UNCHANGED <<req, byHand>>
    <2>1. UNCHANGED <<req, byHand>>
      BY <1>1 DEF WorkerStep, apiVars
    <2>2. ASSUME NEW j \in Jobs, SkipPaused(w, j) PROVE UNCHANGED <<rows, mail, mem, loaded>>
      BY <2>2 DEF SkipPaused, Reach
    <2>3. ASSUME NEW j \in Jobs, ProcessJob(w, j) PROVE \E row \in Row : Effect(w, j, row)
      BY <1>0, <2>3, JobEffect
    <2>4. QED
      BY <1>1, <2>1, <2>2, <2>3 DEF WorkerStep, PassStep
  <1>2. ASSUME NEW c \in Clients, ClientStep(c)
        PROVE  (RequestStep(c) \/ LoseRequest(c)) /\ UNCHANGED <<mem, loaded>>
    BY <1>2 DEF ClientStep, sessionVars
  <1>3. ASSUME NEW u \in Users, StripeWebhook(u) PROVE UNCHANGED <<rows, mail, mem, loaded, req, byHand>>
    BY <1>3 DEF StripeWebhook, sessionVars, apiVars
  <1>4. CASE Tick /\ UNCHANGED <<sessionVars, crashes, apiVars, planEvents>>
    BY <1>4 DEF Tick, sessionVars, apiVars
  <1>5. CASE UNCHANGED vars
    BY <1>5 DEF vars, schedVars, storeVars, sessionVars, apiVars
  <1>6. QED
    BY <1>1, <1>2, <1>3, <1>4, <1>5 DEF SystemNext

LEMMA SystemSparesRecord ==
    ASSUME SystemInv, RequestsSpareRecord, [SystemNext]_vars
    PROVE  RequestsSpareRecord'
  <1>1. CASE req' = req
    BY <1>1 DEF RequestsSpareRecord
  <1>2. ASSUME NEW c \in Clients, RequestStep(c) \/ LoseRequest(c) PROVE RequestsSpareRecord'
    BY <1>2, ClientSparesRecord DEF SystemInv
  <1>3. QED
    BY <1>1, <1>2, SystemCases

\* What `old` says was told, `row` says too.
StillTold(old, row) ==
    /\ old.drop_alert_sent => row.drop_alert_sent
    /\ old.deadline_alert_sent => row.deadline_alert_sent

\* Why the record stays: what a session loaded as told is told in its copy and
\* in the row, so that a commit writes no column back to FALSE.
SessionsStillTell ==
    \A w \in Workers, j \in Jobs : mem[w][j] # NoRow =>
        StillTold(loaded[w][j], mem[w][j]) /\ StillTold(loaded[w][j], rows[j])

ToldInv == SystemInv /\ RequestsSpareRecord /\ SessionsStillTell

\* Processing a job adds to what was told.
LEMMA EffectStillTells ==
    ASSUME NEW w \in Workers, NEW j \in Jobs, NEW row \in Row, Effect(w, j, row)
    PROVE  StillTold(mem[w][j], row)
  BY DEF Effect, Tells, TellsEnd, TellsDrop, Warns, SameAlerts, StillTold

\* A commit over a row that tells at least what was loaded.
LEMMA FlushStillTells ==
    ASSUME NEW row \in Row, NEW old \in Row, NEW new \in Row,
           StillTold(old, new), StillTold(old, row)
    PROVE  StillTold(row, Flush(row, old, new))
  <1>1. PICK out : out = Flush(row, old, new)
    OBVIOUS
  <1>2. /\ out.drop_alert_sent = IF new.drop_alert_sent = old.drop_alert_sent
                                 THEN row.drop_alert_sent ELSE new.drop_alert_sent
        /\ out.deadline_alert_sent = IF new.deadline_alert_sent = old.deadline_alert_sent
                                     THEN row.deadline_alert_sent ELSE new.deadline_alert_sent
    BY <1>1 DEF Flush
  <1>3. /\ old.drop_alert_sent \in BOOLEAN /\ new.drop_alert_sent \in BOOLEAN
        /\ old.deadline_alert_sent \in BOOLEAN /\ new.deadline_alert_sent \in BOOLEAN
    BY DEF Row
  <1>4. StillTold(row, out)
    BY <1>2, <1>3 DEF StillTold
  <1>5. QED
    BY <1>1, <1>4

\* No step un-tells a row.
LEMMA StepStillTells ==
    ASSUME ToldInv, [SystemNext]_vars, NEW j \in Jobs, rows[j] # NoRow
    PROVE  rows'[j] # NoRow /\ StillTold(rows[j], rows'[j])
  <1>0. TypeOK /\ ApiInv /\ RequestsSpareRecord
    BY DEF ToldInv, SystemInv
  <1>1. CASE rows' = rows
    BY <1>1 DEF StillTold
  <1>2. ASSUME NEW w \in Workers, CommitPass(w)
        PROVE  rows'[j] # NoRow /\ StillTold(rows[j], rows'[j])
    <2>1. CASE mem[w][j] = NoRow
      BY <1>0, <1>2, <2>1, PassRow DEF StillTold
    <2>2. CASE mem[w][j] # NoRow
      <3>1. /\ rows'[j] # NoRow /\ rows'[j] = Flush(rows[j], loaded[w][j], mem[w][j])
            /\ loaded[w][j] \in Row /\ mem[w][j] \in Row /\ rows[j] \in Row
        BY <1>0, <1>2, <2>2, PassRow
      <3>2. StillTold(loaded[w][j], mem[w][j]) /\ StillTold(loaded[w][j], rows[j])
        BY <2>2 DEF ToldInv, SessionsStillTell
      <3>3. QED
        BY <3>1, <3>2, FlushStillTells
    <2>3. QED
      BY <2>1, <2>2
  <1>3. ASSUME NEW c \in Clients, RequestStep(c) \/ LoseRequest(c)
        PROVE  rows'[j] # NoRow /\ StillTold(rows[j], rows'[j])
    <2>1. SameRecord(rows[j], rows'[j])
      BY <1>0, <1>3, ClientTellsNothing
    <2>2. rows'[j] # NoRow
      BY <1>0, <1>3, RequestKeepsRows DEF ApiInv
    <2>3. QED
      BY <2>1, <2>2 DEF SameRecord, StillTold
  <1>4. QED
    BY <1>0, <1>1, <1>2, <1>3, SystemCases
    DEF ToldInv, StartPass, Crash, storeVars, Effect, Process, Reach

LEMMA SystemStillTells == ToldInv /\ [SystemNext]_vars => ToldInv'
  <1> SUFFICES ASSUME ToldInv, [SystemNext]_vars PROVE SessionsStillTell'
    BY SystemKeepsInv, SystemSparesRecord DEF ToldInv
  <1>0. TypeOK /\ SystemInv
    BY DEF ToldInv, SystemInv
  <1>1. ASSUME NEW v \in Workers, NEW k \in Jobs, mem[v][k] # NoRow,
               loaded'[v] = loaded[v], StillTold(mem[v][k], mem'[v][k])
        PROVE  StillTold(loaded'[v][k], mem'[v][k]) /\ StillTold(loaded'[v][k], rows'[k])
    <2>1. /\ StillTold(loaded[v][k], mem[v][k]) /\ StillTold(loaded[v][k], rows[k])
          /\ rows[k] # NoRow
      BY <1>0, <1>1 DEF ToldInv, SessionsStillTell, TypeOK
    <2>2. StillTold(rows[k], rows'[k])
      BY <2>1, StepStillTells
    <2>3. QED
      BY <1>1, <2>1, <2>2 DEF StillTold
  <1>2. ASSUME NEW row PROVE StillTold(row, row)
    BY DEF StillTold
  <1>3. CASE UNCHANGED <<mem, loaded>>
    BY <1>1, <1>2, <1>3 DEF SessionsStillTell
  <1>4. ASSUME NEW w \in Workers, StartPass(w) PROVE SessionsStillTell'
    <2>1. rows' = rows
      BY <1>4 DEF StartPass, storeVars
    <2>2. ASSUME NEW k \in Jobs, mem'[w][k] # NoRow
          PROVE  mem'[w][k] = rows[k] /\ loaded'[w][k] = rows[k]
      BY <1>0, <1>4, <2>2 DEF StartPass, TypeOK
    <2>3. ASSUME NEW v \in Workers, v # w PROVE mem'[v] = mem[v] /\ loaded'[v] = loaded[v]
      BY <1>0, <1>4, <2>3 DEF StartPass, TypeOK
    <2>4. QED
      BY <1>1, <1>2, <2>1, <2>2, <2>3 DEF SessionsStillTell
  <1>5. ASSUME NEW w \in Workers, NEW j \in Jobs, NEW row \in Row, Effect(w, j, row)
        PROVE  SessionsStillTell'
    <2>1. /\ loaded' = loaded /\ mem[w][j] # NoRow /\ mem'[w][j] = row
          /\ \A v \in Workers, k \in Jobs : v # w \/ k # j => mem'[v][k] = mem[v][k]
      BY <1>0, <1>5, ProcessFrame DEF Effect
    <2>2. StillTold(mem[w][j], row)
      BY <1>5, EffectStillTells
    <2>3. QED
      BY <1>1, <1>2, <2>1, <2>2 DEF SessionsStillTell
  <1>6. ASSUME NEW w \in Workers, CommitPass(w) \/ Crash(w) PROVE SessionsStillTell'
    <2>1. \A v \in Workers, k \in Jobs : mem'[v][k] # NoRow =>
             mem[v][k] # NoRow /\ mem'[v] = mem[v] /\ loaded'[v] = loaded[v]
      BY <1>0, <1>6 DEF CommitPass, Crash, CloseSession, NoSession, TypeOK
    <2>2. QED
      BY <1>1, <1>2, <2>1 DEF SessionsStillTell
  <1>7. QED
    BY <1>0, <1>3, <1>4, <1>5, <1>6, SystemCases

\* No session and no request is open at first.
LEMMA SystemInitTold == SystemInit => ToldInv
  <1>1. SystemInit => RequestsSpareRecord /\ SessionsStillTell
    BY DEF SystemInit, SessionInit, RequestsInit, NoSession, RequestsSpareRecord,
           SessionsStillTell
  <1>2. QED
    BY <1>1, SystemInitInv DEF ToldInv

\* Whatever passes and requests overlap, however old the copies they commit, the
\* record of an alert is never lost: SQLAlchemy writes the columns a session
\* changed, and neither routers/jobs.py nor process_job ever clears these.
THEOREM AlertRecordStaysAlways == SystemSpec => AlertRecordStays
  <1>1. ToldInv /\ [SystemNext]_vars =>
           [\A j \in Jobs : rows[j] # NoRow =>
              /\ rows[j].drop_alert_sent => rows'[j].drop_alert_sent
              /\ rows[j].deadline_alert_sent => rows'[j].deadline_alert_sent]_vars
    BY StepStillTells DEF StillTold
  <1>2. QED
    BY <1>1, SystemInitTold, SystemStillTells, PTL DEF SystemSpec, AlertRecordStays

-----------------------------------------------------------------------------
(* No alert twice. *)

\* The worker loses neither an answer nor a pass; requests may die.
WorkerLosesNothing == "lost_ack" \notin Faults /\ MaxCrashes = 0

\* The row accounts for every alert in the mail.
Accounts(row, box) ==
    /\ Has(box, "DeadlineApproaching") => row.deadline_alert_sent
    /\ \A i \in DOMAIN box : box[i].kind = "PriceDropFound" =>
          /\ row.drop_alert_sent
          /\ row.lowest_alerted_price \in Prices /\ box[i].price \in Prices
          /\ row.lowest_alerted_price <= box[i].price

\* What NoAlertTwice says of one job's mail.
NoneTwice(box, original) ==
    \A i, k \in DOMAIN box :
        i < k /\ box[i].kind = box[k].kind =>
            /\ box[i].kind # "DeadlineApproaching"
            /\ box[i].kind = "PriceDropFound" =>
                  BelowByFloor(box[k].price, box[i].price, original)

\* Why nothing is told twice: the copy the next decision is taken from accounts
\* for the mail, and the row it will be written over differs from it only in
\* what the pass itself has told since.
MailIsAccounted ==
    \A j \in Jobs :
        /\ NoneTwice(mail[j], Original[j])
        /\ rows[j] = NoRow => /\ ~Has(mail[j], "PriceDropFound")
                             /\ ~Has(mail[j], "DeadlineApproaching")
        /\ rows[j] # NoRow /\ (\A w \in Workers : mem[w][j] = NoRow) => Accounts(rows[j], mail[j])
        /\ \A w \in Workers : mem[w][j] # NoRow =>
              Accounts(mem[w][j], mail[j]) /\ SameRecord(loaded[w][j], rows[j])

\* The floor is not negative.
LEMMA FloorIsNatural == \A j \in Jobs : DropFloor100(Original[j]) >= 0
  <1>1. ASSUME NEW a \in Int, NEW b \in Int, a >= 0
        PROVE  (IF a >= b THEN a ELSE b) >= 0
    BY <1>1
  <1>2. ASSUME NEW j \in Jobs
        PROVE  100 * DropFloorAbs \in Int /\ DropFloorPct * Original[j] \in Int
               /\ 100 * DropFloorAbs >= 0
    BY FloorAssumption, StoreAssumption
  <1>3. QED
    BY <1>1, <1>2 DEF DropFloor100

\* A drop that beats the last price told beats every price told.
LEMMA DeepestBeatsAll ==
    ASSUME NEW j \in Jobs, NEW price \in Prices, NEW last \in Prices, NEW earlier \in Prices,
           BelowByFloor(price, last, Original[j]), last <= earlier
    PROVE  BelowByFloor(price, earlier, Original[j]) /\ price <= earlier
  <1>1. price \in Nat /\ last \in Nat /\ earlier \in Nat
    BY PricesAreNumbers
  <1>2. PICK floor : floor = DropFloor100(Original[j])
    OBVIOUS
  <1>3. floor \in Int /\ floor >= 0
    <2>1. DropFloor100(Original[j]) \in Int
      BY FloorAssumption, StoreAssumption DEF DropFloor100
    <2>2. QED
      BY <1>2, <2>1, FloorIsNatural
  <1>4. 100 * price < 100 * last - floor
    BY <1>2 DEF BelowByFloor
  <1>5. 100 * price < 100 * earlier - floor /\ price <= earlier
    BY <1>1, <1>3, <1>4
  <1>6. QED
    BY <1>2, <1>5 DEF BelowByFloor

\* An event that is no alert changes nothing.
LEMMA NoticeAccounts ==
    ASSUME NEW box \in Seq(Event), NEW event \in Event,
           event.kind # "PriceDropFound", event.kind # "DeadlineApproaching"
    PROVE  /\ \A kind \in {"PriceDropFound", "DeadlineApproaching"} :
                 Has(Append(box, event), kind) <=> Has(box, kind)
           /\ \A row : Accounts(row, box) => Accounts(row, Append(box, event))
           /\ \A original : NoneTwice(box, original) => NoneTwice(Append(box, event), original)
  <1>1. /\ DOMAIN Append(box, event) = DOMAIN box \cup {Len(box) + 1}
        /\ \A i \in DOMAIN box : Append(box, event)[i] = box[i] /\ i < Len(box) + 1
        /\ Append(box, event)[Len(box) + 1] = event
        /\ \A kind : Has(Append(box, event), kind) <=> Has(box, kind) \/ event.kind = kind
    BY HasAppend
  <1>2. DOMAIN box = 1 .. Len(box) /\ Len(box) \in Nat
    OBVIOUS
  <1>3. PICK new, n : new = Append(box, event) /\ n = Len(box) + 1
    OBVIOUS
  <1>4. \A row : Accounts(row, box) => Accounts(row, new)
    BY <1>1, <1>3 DEF Accounts
  <1>5. ASSUME NEW original, NoneTwice(box, original) PROVE NoneTwice(new, original)
    <2>1. ASSUME NEW i \in DOMAIN new, NEW k \in DOMAIN new, i < k, new[i].kind = new[k].kind
          PROVE  /\ new[i].kind # "DeadlineApproaching"
                 /\ new[i].kind = "PriceDropFound" =>
                       BelowByFloor(new[k].price, new[i].price, original)
      <3>1. CASE k = n
        BY <1>1, <1>3, <2>1, <3>1
      <3>2. CASE i = n
        BY <1>1, <1>3, <2>1, <3>2
      <3>3. CASE i # n /\ k # n
        BY <1>1, <1>3, <1>5, <2>1, <3>3 DEF NoneTwice
      <3>4. QED
        BY <3>1, <3>2, <3>3
    <2>2. QED
      BY <2>1 DEF NoneTwice
  <1>6. QED
    BY <1>1, <1>3, <1>4, <1>5

\* An alert that was not told before, and is now on the record.
LEMMA AlertAccounts ==
    ASSUME NEW j \in Jobs, NEW box \in Seq(Event), NEW event \in Event, NEW old, NEW row,
           Accounts(old, box), NoneTwice(box, Original[j]),
           \/ /\ event.kind = "PriceDropFound" /\ event.price \in Prices
              /\ WorthTelling(j, old, event.price)
              /\ row.drop_alert_sent /\ row.lowest_alerted_price = event.price
              /\ row.deadline_alert_sent = old.deadline_alert_sent
           \/ /\ event.kind = "DeadlineApproaching" /\ ~old.deadline_alert_sent
              /\ row.deadline_alert_sent
              /\ row.drop_alert_sent = old.drop_alert_sent
              /\ row.lowest_alerted_price = old.lowest_alerted_price
    PROVE  Accounts(row, Append(box, event)) /\ NoneTwice(Append(box, event), Original[j])
  <1>1. /\ DOMAIN Append(box, event) = DOMAIN box \cup {Len(box) + 1}
        /\ \A i \in DOMAIN box : Append(box, event)[i] = box[i] /\ i < Len(box) + 1
        /\ Append(box, event)[Len(box) + 1] = event
        /\ \A kind : Has(Append(box, event), kind) <=> Has(box, kind) \/ event.kind = kind
    BY HasAppend
  <1>2. PICK new, n : new = Append(box, event) /\ n = Len(box) + 1
    OBVIOUS
  <1>3. \A i \in DOMAIN box : i \in Nat /\ n \in Nat /\ ~(n < i) /\ i # n
    BY <1>2
  <1>4. /\ DOMAIN new = DOMAIN box \cup {n} /\ new[n] = event
        /\ \A i \in DOMAIN box : new[i] = box[i]
        /\ \A kind : Has(new, kind) <=> Has(box, kind) \/ event.kind = kind
    BY <1>1, <1>2
  <1>5. ~(n < n)
    BY <1>2
  <1>6. SUFFICES /\ Accounts(row, new)
                 /\ \A i \in DOMAIN box : box[i].kind = event.kind =>
                       /\ event.kind # "DeadlineApproaching"
                       /\ event.kind = "PriceDropFound" =>
                             BelowByFloor(event.price, box[i].price, Original[j])
    <2>1. ASSUME NEW i \in DOMAIN new, NEW k \in DOMAIN new, i < k, new[i].kind = new[k].kind
          PROVE  /\ new[i].kind # "DeadlineApproaching"
                 /\ new[i].kind = "PriceDropFound" =>
                       BelowByFloor(new[k].price, new[i].price, Original[j])
      <3>1. i \in DOMAIN box
        BY <1>3, <1>4, <1>5, <2>1
      <3>2. CASE k = n
        BY <1>4, <1>6, <2>1, <3>1, <3>2
      <3>3. CASE k \in DOMAIN box
        BY <1>4, <2>1, <3>1, <3>3 DEF NoneTwice
      <3>4. QED
        BY <1>4, <3>2, <3>3
    <2>2. QED
      BY <1>2, <1>6, <2>1 DEF NoneTwice
  <1>7. CASE event.kind = "PriceDropFound"
    <2>1. /\ event.price \in Prices /\ WorthTelling(j, old, event.price)
          /\ row.drop_alert_sent /\ row.lowest_alerted_price = event.price
          /\ row.deadline_alert_sent = old.deadline_alert_sent
      BY <1>7
    <2>2. ASSUME NEW i \in DOMAIN box, box[i].kind = "PriceDropFound"
          PROVE  /\ box[i].price \in Prices /\ event.price <= box[i].price
                 /\ BelowByFloor(event.price, box[i].price, Original[j])
      <3>1. /\ old.drop_alert_sent
            /\ old.lowest_alerted_price \in Prices /\ box[i].price \in Prices
            /\ old.lowest_alerted_price <= box[i].price
        BY <2>2 DEF Accounts
      <3>2. BelowByFloor(event.price, old.lowest_alerted_price, Original[j])
        BY <2>1, <3>1 DEF WorthTelling
      <3>3. QED
        BY <2>1, <3>1, <3>2, DeepestBeatsAll
    <2>3. event.price <= event.price
      BY <2>1, PricesAreNumbers
    <2>4. Accounts(row, new)
      BY <1>4, <1>7, <2>1, <2>2, <2>3 DEF Accounts
    <2>5. QED
      BY <1>7, <2>2, <2>4
  <1>8. CASE event.kind = "DeadlineApproaching"
    <2>1. /\ ~old.deadline_alert_sent /\ row.deadline_alert_sent
          /\ row.drop_alert_sent = old.drop_alert_sent
          /\ row.lowest_alerted_price = old.lowest_alerted_price
      BY <1>8
    <2>2. \A i \in DOMAIN box : box[i].kind # "DeadlineApproaching"
      BY <2>1 DEF Accounts, Has
    <2>3. Accounts(row, new)
      BY <1>4, <1>8, <2>1 DEF Accounts
    <2>4. QED
      BY <1>8, <2>2, <2>3
  <1>9. QED
    BY <1>7, <1>8

\* The record is all Accounts reads.
LEMMA SameRecordAccounts ==
    ASSUME NEW old, NEW row, NEW box, SameRecord(old, row), Accounts(old, box)
    PROVE  Accounts(row, box)
  BY DEF SameRecord, Accounts

\* Processing a job whose copy accounts for the mail.
LEMMA EffectAccounts ==
    ASSUME WorkerLosesNothing, TypeOK, MailIsAccounted,
           NEW w \in Workers, NEW j \in Jobs, NEW row \in Row, Effect(w, j, row)
    PROVE  /\ Accounts(row, mail'[j]) /\ NoneTwice(mail'[j], Original[j])
           /\ \A k \in Jobs : k # j => mail'[k] = mail[k]
  <1> DEFINE old == mem[w][j]
  <1>0. /\ mail \in [Jobs -> Seq(Event)] /\ mail[j] \in Seq(Event)
        /\ \A outcome \in Outcomes : outcome # "failed" <=> Delivered(outcome)
    BY DEF TypeOK, StoreTypeOK, WorkerLosesNothing, Outcomes, Delivered
  <1>1. old # NoRow
    BY ProcessFrame DEF Effect
  <1>2. Accounts(old, mail[j]) /\ NoneTwice(mail[j], Original[j])
    BY <1>1 DEF MailIsAccounted
  <1>3. ASSUME SameAlerts(old, row) PROVE Accounts(row, mail[j])
    BY <1>2, <1>3, SameRecordAccounts DEF SameAlerts, SameRecord
  <1>4. CASE SameAlerts(old, row) /\ mail' = mail
    BY <1>2, <1>3, <1>4
  <1>5. ASSUME NEW event \in Event, NEW outcome \in Outcomes, Emit(j, event, outcome),
               \/ TellsEnd(old, row, event, Delivered(outcome))
               \/ TellsDrop(j, old, row, event, Delivered(outcome))
               \/ Warns(old, row, event, Delivered(outcome))
        PROVE  /\ Accounts(row, mail'[j]) /\ NoneTwice(mail'[j], Original[j])
               /\ \A k \in Jobs : k # j => mail'[k] = mail[k]
    <2>1. CASE ~Delivered(outcome)
      <3>1. mail' = mail
        BY <1>0, <1>5, <2>1, EmitAppends
      <3>2. SameAlerts(old, row)
        BY <1>5, <2>1 DEF TellsEnd, TellsDrop, Warns
      <3>3. QED
        BY <1>2, <1>3, <3>1, <3>2
    <2>2. CASE Delivered(outcome)
      <3>1. /\ mail'[j] = Append(mail[j], event)
            /\ \A k \in Jobs : k # j => mail'[k] = mail[k]
        BY <1>0, <1>5, <2>2, EmitAppends
      <3>2. CASE TellsEnd(old, row, event, Delivered(outcome))
        <4>1. SameRecord(old, row) /\ event.kind = "MonitoringEnded"
          BY <2>2, <3>2 DEF TellsEnd, SameRecord
        <4>2. Accounts(row, mail[j])
          BY <1>2, <4>1, SameRecordAccounts
        <4>3. QED
          BY <1>0, <1>2, <3>1, <4>1, <4>2, NoticeAccounts
      <3>3. CASE TellsDrop(j, old, row, event, Delivered(outcome))
        <4>1. /\ event.kind = "PriceDropFound" /\ event.price \in Prices
              /\ WorthTelling(j, old, event.price)
              /\ row.drop_alert_sent /\ row.lowest_alerted_price = event.price
              /\ row.deadline_alert_sent = old.deadline_alert_sent
          BY <2>2, <3>3 DEF TellsDrop
        <4>2. QED
          BY <1>0, <1>2, <3>1, <4>1, AlertAccounts
      <3>4. CASE Warns(old, row, event, Delivered(outcome))
        <4>1. /\ event.kind = "DeadlineApproaching" /\ ~old.deadline_alert_sent
              /\ row.deadline_alert_sent
              /\ row.drop_alert_sent = old.drop_alert_sent
              /\ row.lowest_alerted_price = old.lowest_alerted_price
          BY <2>2, <3>4 DEF Warns
        <4>2. QED
          BY <1>0, <1>2, <3>1, <4>1, AlertAccounts
      <3>5. QED
        BY <1>5, <3>2, <3>3, <3>4
    <2>3. QED
      BY <2>1, <2>2
  <1>6. QED
    BY <1>4, <1>5 DEF Effect, Tells

\* A commit over a row with the record that was loaded leaves the copy's.
LEMMA FlushRecord ==
    ASSUME NEW row, NEW old, NEW new, SameRecord(old, row)
    PROVE  SameRecord(new, Flush(row, old, new))
  BY DEF SameRecord, Flush

\* The only worker, with all its answers and passes, repeats nothing.
LEMMA SystemAccounts ==
    ASSUME OneWorker, WorkerLosesNothing, ToldInv, MailIsAccounted, [SystemNext]_vars
    PROVE  MailIsAccounted'
  <1>0. /\ TypeOK /\ SystemInv /\ ApiInv /\ RequestsSpareRecord
        /\ \A v, w \in Workers : v = w
        /\ mail \in [Jobs -> Seq(Event)]
    BY DEF ToldInv, SystemInv, OneWorker, TypeOK, StoreTypeOK
  <1>1. CASE UNCHANGED <<rows, mail, mem, loaded>>
    BY <1>1 DEF MailIsAccounted
  <1>2. ASSUME NEW row PROVE SameRecord(row, row)
    BY DEF SameRecord
  <1>3. ASSUME NEW w \in Workers, StartPass(w) PROVE MailIsAccounted'
    <2>1. UNCHANGED <<rows, mail>> /\ \A v \in Workers, k \in Jobs : mem[v][k] = NoRow
      BY <1>0, <1>3 DEF StartPass, storeVars, TypeOK
    <2>2. \A v \in Workers, k \in Jobs : mem'[v][k] # NoRow =>
             mem'[v][k] = rows[k] /\ loaded'[v][k] = rows[k]
      BY <1>0, <1>3 DEF StartPass, TypeOK
    <2>3. QED
      BY <1>2, <2>1, <2>2 DEF MailIsAccounted
  <1>4. ASSUME NEW w \in Workers, NEW j \in Jobs, NEW row \in Row, Effect(w, j, row)
        PROVE  MailIsAccounted'
    <2>1. /\ UNCHANGED <<rows, loaded>> /\ mem[w][j] # NoRow /\ mem'[w][j] = row /\ row # NoRow
          /\ rows[j] # NoRow
          /\ \A v \in Workers, k \in Jobs : k # j => mem'[v][k] = mem[v][k]
      BY <1>0, <1>4, ProcessFrame, StoreAssumption DEF Effect, TypeOK
    <2>2. /\ Accounts(row, mail'[j]) /\ NoneTwice(mail'[j], Original[j])
          /\ \A k \in Jobs : k # j => mail'[k] = mail[k]
      BY <1>0, <1>4, EffectAccounts
    <2>3. SameRecord(loaded[w][j], rows[j])
      BY <2>1 DEF MailIsAccounted
    <2>4. ASSUME NEW k \in Jobs, k # j
          PROVE  /\ mail'[k] = mail[k] /\ rows'[k] = rows[k]
                 /\ \A v \in Workers : mem'[v][k] = mem[v][k] /\ loaded'[v] = loaded[v]
      BY <2>1, <2>2, <2>4
    <2>5. QED
      BY <1>0, <2>1, <2>2, <2>3, <2>4 DEF MailIsAccounted
  <1>5. ASSUME NEW w \in Workers, CommitPass(w) PROVE MailIsAccounted'
    <2>1. mail' = mail /\ \A v \in Workers, k \in Jobs : mem'[v][k] = NoRow
      BY <1>0, <1>5, CloseLeavesNothing DEF CommitPass
    <2>2. ASSUME NEW j \in Jobs, rows[j] # NoRow PROVE Accounts(rows'[j], mail[j])
      <3>1. CASE mem[w][j] = NoRow
        BY <1>0, <1>5, <2>2, <3>1, PassRow DEF MailIsAccounted
      <3>2. CASE mem[w][j] # NoRow
        <4>1. rows'[j] = Flush(rows[j], loaded[w][j], mem[w][j])
          BY <1>0, <1>5, <2>2, <3>2, PassRow
        <4>2. Accounts(mem[w][j], mail[j]) /\ SameRecord(loaded[w][j], rows[j])
          BY <3>2 DEF MailIsAccounted
        <4>3. QED
          BY <4>1, <4>2, FlushRecord, SameRecordAccounts
      <3>3. QED
        BY <3>1, <3>2
    <2>3. ASSUME NEW j \in Jobs, rows[j] = NoRow PROVE rows'[j] = NoRow
      BY <1>0, <1>5, <2>3 DEF CommitPass, TypeOK
    <2>4. \A j \in Jobs : rows'[j] = NoRow => rows[j] = NoRow
      BY <1>0, <1>5, PassRow
    <2>5. QED
      BY <2>1, <2>2, <2>3, <2>4 DEF MailIsAccounted
  <1>6. ASSUME NEW w \in Workers, Crash(w) PROVE FALSE
    <2>1. crashes \in Nat /\ crashes < MaxCrashes /\ MaxCrashes = 0
      BY <1>0, <1>6 DEF Crash, TypeOK, WorkerLosesNothing
    <2>2. QED
      BY <2>1
  <1>7. ASSUME NEW c \in Clients, RequestStep(c) \/ LoseRequest(c), UNCHANGED <<mem, loaded>>
        PROVE  MailIsAccounted'
    <2>1. \A j \in Jobs :
             /\ rows[j] # NoRow => rows'[j] # NoRow /\ SameRecord(rows[j], rows'[j])
             /\ rows[j] = NoRow /\ rows'[j] # NoRow => NothingTold(rows'[j])
      BY <1>0, <1>7, ClientTellsNothing, RequestKeepsRows DEF ApiInv
    <2>2. ASSUME NEW j \in Jobs
          PROVE  /\ \A row : Accounts(row, mail[j]) => Accounts(row, mail'[j])
                 /\ NoneTwice(mail[j], Original[j]) => NoneTwice(mail'[j], Original[j])
                 /\ \A kind \in {"PriceDropFound", "DeadlineApproaching"} :
                       Has(mail'[j], kind) <=> Has(mail[j], kind)
      <3>1. CASE mail'[j] = mail[j]
        BY <3>1
      <3>2. CASE mail'[j] # mail[j]
        <4>1. PICK k \in Jobs, event \in Event, outcome \in Outcomes :
                 event.kind \in Notices /\ Emit(k, event, outcome)
          BY <1>0, <1>7, <3>2, ClientTellsNothing
        <4>2. mail'[j] = Append(mail[j], event)
          BY <1>0, <3>2, <4>1, EmitAppends
        <4>3. event.kind # "PriceDropFound" /\ event.kind # "DeadlineApproaching"
          BY <4>1 DEF Notices
        <4>4. mail[j] \in Seq(Event)
          BY <1>0
        <4>5. QED
          BY <4>2, <4>3, <4>4, NoticeAccounts
      <3>3. QED
        BY <3>1, <3>2
    <2>3. ASSUME NEW j \in Jobs
          PROVE  /\ NoneTwice(mail'[j], Original[j])
                 /\ rows'[j] = NoRow =>
                       ~Has(mail'[j], "PriceDropFound") /\ ~Has(mail'[j], "DeadlineApproaching")
                 /\ rows'[j] # NoRow /\ (\A w \in Workers : mem[w][j] = NoRow)
                       => Accounts(rows'[j], mail'[j])
                 /\ \A w \in Workers : mem[w][j] # NoRow =>
                       Accounts(mem[w][j], mail'[j]) /\ SameRecord(loaded[w][j], rows'[j])
      <3>1. CASE rows[j] = NoRow
        <4>1. /\ ~Has(mail'[j], "PriceDropFound") /\ ~Has(mail'[j], "DeadlineApproaching")
              /\ NoneTwice(mail'[j], Original[j])
          BY <2>2, <3>1 DEF MailIsAccounted
        <4>2. \A row : Accounts(row, mail'[j])
          BY <4>1 DEF Accounts, Has
        <4>3. \A w \in Workers : mem[w][j] = NoRow
          BY <1>0, <3>1 DEF TypeOK
        <4>4. QED
          BY <4>1, <4>2, <4>3
      <3>2. CASE rows[j] # NoRow
        <4>1. rows'[j] # NoRow /\ SameRecord(rows[j], rows'[j])
          BY <2>1, <3>2
        <4>2. ASSUME \A w \in Workers : mem[w][j] = NoRow PROVE Accounts(rows'[j], mail'[j])
          <5>1. Accounts(rows[j], mail'[j])
            BY <2>2, <3>2, <4>2 DEF MailIsAccounted
          <5>2. QED
            BY <4>1, <5>1, SameRecordAccounts
        <4>3. ASSUME NEW w \in Workers, mem[w][j] # NoRow
              PROVE  Accounts(mem[w][j], mail'[j]) /\ SameRecord(loaded[w][j], rows'[j])
          <5>1. Accounts(mem[w][j], mail'[j]) /\ SameRecord(loaded[w][j], rows[j])
            BY <2>2, <4>3 DEF MailIsAccounted
          <5>2. QED
            BY <4>1, <5>1 DEF SameRecord
        <4>4. NoneTwice(mail'[j], Original[j])
          BY <2>2 DEF MailIsAccounted
        <4>5. QED
          BY <4>1, <4>2, <4>3, <4>4
      <3>3. QED
        BY <3>1, <3>2
    <2>4. QED
      BY <1>7, <2>3 DEF MailIsAccounted
  <1>8. QED
    BY <1>0, <1>1, <1>3, <1>4, <1>5, <1>6, <1>7, SystemCases

\* A single worker that loses neither an answer nor a pass sends no alert twice,
\* whatever users do in the meantime: process_job decides from the columns that
\* record what was told, only passes write them, and a pass reads back what the
\* one before it committed.
THEOREM NoAlertTwiceAlways ==
    ASSUME OneWorker, WorkerLosesNothing PROVE SystemSpec => []NoAlertTwice
  <1>1. SystemInit => MailIsAccounted
    <2> SUFFICES ASSUME SystemInit, NEW j \in Jobs
                 PROVE  /\ mail[j] = << >> /\ rows[j] = NoRow
                        /\ \A w \in Workers : mem[w][j] = NoRow
      BY DEF MailIsAccounted, NoneTwice, Has
    <2>1. QED
      BY DEF SystemInit, StoreInit, SessionInit, NoSession
  <1>2. ToldInv /\ MailIsAccounted /\ [SystemNext]_vars => MailIsAccounted'
    BY SystemAccounts
  <1>3. MailIsAccounted => NoAlertTwice
    BY DEF MailIsAccounted, NoneTwice, NoAlertTwice
  <1>4. QED
    BY <1>1, <1>2, <1>3, SystemInitTold, SystemStillTells, PTL DEF SystemSpec

-----------------------------------------------------------------------------
(* What is on the record was told. *)

\* The alerts on a row are in the mail.
IsTold(row, box) ==
    /\ row.drop_alert_sent <=> row.lowest_alerted_price # None
    /\ row.drop_alert_sent => HasDropAt(box, row.lowest_alerted_price)
    /\ row.deadline_alert_sent => Has(box, "DeadlineApproaching")

\* Its wrap-up is, or a client says so.
IsWrappedUp(j, row) ==
    row.status = "expired" => j \in byHand \/ Has(mail[j], "MonitoringEnded")

IsReal(j, row) == IsTold(row, mail[j]) /\ IsWrappedUp(j, row)

\* Rows and the copies of sessions.  (What a request holds does not matter: it
\* writes none of these columns, and no status "expired" but a client's.)
CopiesAreReal ==
    \A j \in Jobs :
        /\ rows[j] # NoRow => IsReal(j, rows[j])
        /\ \A w \in Workers : mem[w][j] # NoRow => IsReal(j, loaded[w][j]) /\ IsReal(j, mem[w][j])

\* A row is honest but for its status.
LEMMA FlushIsTold ==
    ASSUME NEW box, NEW row \in Row, NEW old \in Row, NEW new \in Row,
           IsTold(row, box), IsTold(old, box), IsTold(new, box),
           StillTold(old, new), StillTold(old, row)
    PROVE  IsTold(Flush(row, old, new), box)
  <1> DEFINE Mask(r) == [r EXCEPT !.status = "active"]
  <1>1. ASSUME NEW r \in Row
        PROVE  /\ Mask(r) \in Row /\ Mask(r).status = "active"
               /\ SameRecord(r, Mask(r))
    <2>1. "active" \in JobStatus
      BY DEF JobStatus, Monitored
    <2>2. QED
      BY <2>1 DEF Row, SameRecord
  <1>2. ASSUME NEW r \in Row PROVE IsTold(r, box) <=> Honest(Mask(r), box)
    BY <1>1 DEF IsTold, Honest, SameRecord
  <1> HIDE DEF Mask
  <1>3. Honest(Flush(Mask(row), Mask(old), Mask(new)), box)
    <2>1. Mask(old).drop_alert_sent => Mask(new).drop_alert_sent /\ Mask(row).drop_alert_sent
      BY <1>1 DEF SameRecord, StillTold
    <2>2. QED
      BY <1>1, <1>2, <2>1, FlushHonest
  <1>4. SameRecord(Flush(Mask(row), Mask(old), Mask(new)), Flush(row, old, new))
    BY <1>1 DEF SameRecord, Flush
  <1>5. QED
    BY <1>3, <1>4 DEF Honest, IsTold, SameRecord

\* Nothing stops being real as mail arrives and clients set statuses.
LEMMA RealGrows ==
    ASSUME NEW j \in Jobs, Extends(mail[j], mail'[j]), byHand \subseteq byHand'
    PROVE  \A row : IsReal(j, row) => IsTold(row, mail'[j])
                                      /\ (row.status = "expired" =>
                                            j \in byHand' \/ Has(mail'[j], "MonitoringEnded"))
  BY DEF IsReal, IsTold, IsWrappedUp, Extends, Has, HasDropAt

\* Processing a job: what the copy claims anew has just been accepted.
LEMMA EffectIsReal ==
    ASSUME TypeOK, CopiesAreReal, byHand' = byHand,
           NEW w \in Workers, NEW j \in Jobs, NEW row \in Row, Effect(w, j, row)
    PROVE  /\ IsTold(row, mail'[j])
           /\ row.status = "expired" => j \in byHand' \/ Has(mail'[j], "MonitoringEnded")
           /\ \A k \in Jobs : Extends(mail[k], mail'[k])
  <1> DEFINE old == mem[w][j]
  <1>1. old # NoRow /\ old \in Row
    BY ProcessFrame DEF Effect
  <1>2. IsReal(j, old)
    BY <1>1 DEF CopiesAreReal
  <1>3. ASSUME SameAlerts(old, row), Extends(mail[j], mail'[j])
        PROVE  /\ IsTold(row, mail'[j])
               /\ row.status = "expired" => j \in byHand' \/ Has(mail'[j], "MonitoringEnded")
    <2>1. /\ IsTold(old, mail'[j])
          /\ old.status = "expired" => j \in byHand' \/ Has(mail'[j], "MonitoringEnded")
      BY <1>2, <1>3, RealGrows
    <2>2. QED
      BY <1>3, <2>1 DEF SameAlerts, IsTold
  <1>4. CASE SameAlerts(old, row) /\ mail' = mail
    <2>1. \A k \in Jobs : Extends(mail[k], mail'[k])
      BY <1>4 DEF Extends
    <2>2. QED
      BY <1>3, <1>4, <2>1
  <1>5. ASSUME NEW event \in Event, NEW outcome \in Outcomes, Emit(j, event, outcome),
               \/ TellsEnd(old, row, event, Delivered(outcome))
               \/ TellsDrop(j, old, row, event, Delivered(outcome))
               \/ Warns(old, row, event, Delivered(outcome))
        PROVE  /\ IsTold(row, mail'[j])
               /\ row.status = "expired" => j \in byHand' \/ Has(mail'[j], "MonitoringEnded")
               /\ \A k \in Jobs : Extends(mail[k], mail'[k])
    <2>1. /\ \A k \in Jobs : Extends(mail[k], mail'[k])
          /\ Delivered(outcome) => \E i \in DOMAIN mail'[j] : mail'[j][i] = event
      BY <1>5, EmitGrows DEF TypeOK, StoreTypeOK
    <2>2. CASE ~Delivered(outcome)
      <3>1. SameAlerts(old, row)
        BY <1>5, <2>2 DEF TellsEnd, TellsDrop, Warns
      <3>2. QED
        BY <1>3, <2>1, <3>1
    <2>3. CASE Delivered(outcome)
      <3>1. /\ IsTold(old, mail'[j])
            /\ old.status = "expired" => j \in byHand' \/ Has(mail'[j], "MonitoringEnded")
        BY <1>2, <2>1, RealGrows
      <3>2. CASE TellsEnd(old, row, event, Delivered(outcome))
        <4>1. SameRecord(old, row) /\ Has(mail'[j], "MonitoringEnded")
          BY <2>1, <2>3, <3>2 DEF TellsEnd, SameRecord, Has
        <4>2. QED
          BY <2>1, <3>1, <4>1 DEF SameRecord, IsTold
      <3>3. CASE TellsDrop(j, old, row, event, Delivered(outcome))
        <4>1. /\ event.kind = "PriceDropFound" /\ event.price \in Prices
              /\ row.status = "drop_found" /\ row.drop_alert_sent
              /\ row.lowest_alerted_price = event.price
              /\ row.deadline_alert_sent = old.deadline_alert_sent
          BY <2>3, <3>3 DEF TellsDrop
        <4>2. HasDropAt(mail'[j], event.price) /\ event.price # None
          BY <2>1, <2>3, <4>1, PricesAreNumbers DEF HasDropAt
        <4>3. QED
          BY <2>1, <3>1, <4>1, <4>2 DEF IsTold
      <3>4. CASE Warns(old, row, event, Delivered(outcome))
        <4>1. /\ event.kind = "DeadlineApproaching" /\ row.status = "deadline_soon"
              /\ row.drop_alert_sent = old.drop_alert_sent
              /\ row.lowest_alerted_price = old.lowest_alerted_price
          BY <2>3, <3>4 DEF Warns
        <4>2. Has(mail'[j], "DeadlineApproaching")
          BY <2>1, <2>3, <4>1 DEF Has
        <4>3. QED
          BY <2>1, <3>1, <4>1, <4>2 DEF IsTold
      <3>5. QED
        BY <1>5, <3>2, <3>3, <3>4
    <2>4. QED
      BY <2>2, <2>3
  <1>6. QED
    BY <1>4, <1>5 DEF Effect, Tells

\* What a client does to the status.
LEMMA ClientExpires ==
    ASSUME ApiInv, NEW c \in Clients, RequestStep(c) \/ LoseRequest(c), NEW j \in Jobs,
           rows'[j] # NoRow, rows'[j].status = "expired"
    PROVE  j \in byHand' \/ (rows[j] # NoRow /\ rows[j].status = "expired")
  <1>0. ApiTyped /\ rows \in [Jobs -> Row \cup {NoRow}]
    BY DEF ApiInv, ApiTyped, ApiTypeOK, StoreTypeOK
  <1>1. CASE rows[j] = NoRow
    <2>1. CASE Inserts(c)
      BY <1>0, <1>1, <2>1 DEF Inserts
    <2>2. CASE Loads(c) \/ Refreshes(c) \/ Leaves(c)
      BY <1>1, <2>2 DEF Loads, Refreshes, Leaves
    <2>3. ASSUME NEW step, NEW next, Commits(c, step, next) PROVE rows'[j] = NoRow
      <3>1. rows[req[c].job] # NoRow
        BY <2>3, CommitColumns
      <3>2. QED
        BY <1>0, <1>1, <2>3, <3>1 DEF Commits
    <2>4. QED
      BY <1>0, <1>1, <2>1, <2>2, <2>3, RequestSteps
  <1>2. CASE rows[j] # NoRow
    <2>1. CASE /\ CommitPatch(c) /\ req[c].job = j
               /\ rows'[j].status = IF WritesStatus(req[c]) THEN req[c].mem.status
                                    ELSE rows[j].status
      BY <1>2, <2>1 DEF CommitPatch
    <2>2. QED
      BY <1>2, <2>1, RequestRow
  <1>3. QED
    BY <1>1, <1>2

\* Requests only ever add to byHand and to the mail.
LEMMA ClientGrows ==
    ASSUME ApiInv, RequestsSpareRecord, NEW c \in Clients, RequestStep(c) \/ LoseRequest(c)
    PROVE  byHand \subseteq byHand' /\ \A j \in Jobs : Extends(mail[j], mail'[j])
  <1>1. byHand \subseteq byHand'
    BY DEF RequestStep, LoseRequest, CreateJob, IngestEmail, Insert, BeginPatch, BeginCancel,
           CommitPatch, RefreshPatched, CommitActivation, CommitCancel, Notify
  <1>2. CASE mail' = mail
    BY <1>1, <1>2 DEF Extends
  <1>3. ASSUME NEW k \in Jobs, NEW event \in Event, NEW outcome \in Outcomes,
               Emit(k, event, outcome)
        PROVE  \A j \in Jobs : Extends(mail[j], mail'[j])
    BY <1>3, EmitGrows DEF ApiInv, ApiTyped, ApiTypeOK, StoreTypeOK
  <1>4. QED
    BY <1>1, <1>2, <1>3, ClientTellsNothing

LEMMA SystemIsReal ==
    ASSUME ToldInv, CopiesAreReal, [SystemNext]_vars
    PROVE  CopiesAreReal'
  <1>0. /\ TypeOK /\ SystemInv /\ ApiInv /\ RequestsSpareRecord /\ SessionsStillTell
    BY DEF ToldInv, SystemInv
  <1>1. CASE UNCHANGED <<rows, mail, mem, loaded, byHand>>
    BY <1>1 DEF CopiesAreReal, IsReal, IsWrappedUp
  <1>2. ASSUME NEW w \in Workers, StartPass(w), byHand' = byHand PROVE CopiesAreReal'
    <2>1. UNCHANGED <<rows, mail>>
      BY <1>2 DEF StartPass, storeVars
    <2>2. ASSUME NEW v \in Workers, NEW k \in Jobs, mem'[v][k] # NoRow
          PROVE  \/ mem'[v][k] = rows[k] /\ loaded'[v][k] = rows[k] /\ rows[k] # NoRow
                 \/ mem'[v][k] = mem[v][k] /\ loaded'[v][k] = loaded[v][k]
      BY <1>0, <1>2, <2>2 DEF StartPass, TypeOK, Due
    <2>3. ASSUME NEW k \in Jobs, NEW row, IsReal(k, row) PROVE IsReal(k, row)'
      BY <1>2, <2>1, <2>3 DEF IsReal, IsWrappedUp
    <2>4. ASSUME NEW k \in Jobs, rows'[k] # NoRow PROVE IsReal(k, rows[k])'
      BY <2>1, <2>3, <2>4 DEF CopiesAreReal
    <2>5. ASSUME NEW v \in Workers, NEW k \in Jobs, mem'[v][k] # NoRow
          PROVE  IsReal(k, loaded[v][k])' /\ IsReal(k, mem[v][k])'
      BY <1>2, <2>1, <2>2, <2>5 DEF CopiesAreReal, IsReal, IsWrappedUp
    <2>6. QED
      BY <2>4, <2>5 DEF CopiesAreReal
  <1>3. ASSUME NEW w \in Workers, NEW j \in Jobs, NEW row \in Row, Effect(w, j, row),
               byHand' = byHand
        PROVE  CopiesAreReal'
    <2>1. /\ UNCHANGED <<rows, loaded>> /\ mem[w][j] # NoRow /\ mem'[w][j] = row
          /\ \A v \in Workers, k \in Jobs : v # w \/ k # j => mem'[v][k] = mem[v][k]
      BY <1>0, <1>3, ProcessFrame DEF Effect
    <2>2. /\ IsTold(row, mail'[j])
          /\ row.status = "expired" => j \in byHand' \/ Has(mail'[j], "MonitoringEnded")
          /\ \A k \in Jobs : Extends(mail[k], mail'[k])
      BY <1>0, <1>3, EffectIsReal
    <2>3. ASSUME NEW k \in Jobs
          PROVE  \A old : IsReal(k, old) =>
                    /\ IsTold(old, mail'[k])
                    /\ old.status = "expired" => k \in byHand' \/ Has(mail'[k], "MonitoringEnded")
      BY <1>3, <2>2, RealGrows
    <2>4. ASSUME NEW k \in Jobs, rows'[k] # NoRow PROVE IsReal(k, rows[k])'
      BY <2>1, <2>3, <2>4 DEF CopiesAreReal, IsReal, IsWrappedUp
    <2>5. ASSUME NEW v \in Workers, NEW k \in Jobs, mem'[v][k] # NoRow
          PROVE  IsReal(k, loaded[v][k])' /\ IsReal(k, mem[v][k])'
      <3>1. mem[v][k] # NoRow
        BY <2>1, <2>5
      <3>2. IsReal(k, loaded[v][k])'
        BY <2>1, <2>3, <3>1 DEF CopiesAreReal, IsReal, IsWrappedUp
      <3>3. CASE v = w /\ k = j
        BY <2>1, <2>2, <3>2, <3>3 DEF IsReal, IsWrappedUp
      <3>4. CASE ~(v = w /\ k = j)
        BY <2>1, <2>3, <3>1, <3>2, <3>4 DEF CopiesAreReal, IsReal, IsWrappedUp
      <3>5. QED
        BY <3>3, <3>4
    <2>6. QED
      BY <2>4, <2>5 DEF CopiesAreReal
  <1>4. ASSUME NEW w \in Workers, CommitPass(w) \/ Crash(w), byHand' = byHand
        PROVE  CopiesAreReal'
    <2>1. mail' = mail
      BY <1>4 DEF CommitPass, Crash, storeVars
    <2>2. \A v \in Workers, k \in Jobs : mem'[v][k] # NoRow =>
             mem[v][k] # NoRow /\ mem'[v] = mem[v] /\ loaded'[v] = loaded[v]
      BY <1>0, <1>4 DEF CommitPass, Crash, CloseSession, NoSession, TypeOK
    <2>3. ASSUME NEW k \in Jobs, rows'[k] # NoRow PROVE IsReal(k, rows'[k])
      <3>1. CASE rows' = rows
        BY <2>3, <3>1 DEF CopiesAreReal
      <3>2. CASE CommitPass(w) /\ mem[w][k] = NoRow
        BY <2>3, <3>2 DEF CommitPass, CopiesAreReal
      <3>3. CASE CommitPass(w) /\ mem[w][k] # NoRow
        <4>1. /\ rows'[k] = Flush(rows[k], loaded[w][k], mem[w][k])
              /\ loaded[w][k] \in Row /\ mem[w][k] \in Row /\ rows[k] \in Row /\ rows[k] # NoRow
          BY <1>0, <3>3, PassRow DEF TypeOK
        <4>2. /\ IsReal(k, rows[k]) /\ IsReal(k, loaded[w][k]) /\ IsReal(k, mem[w][k])
              /\ StillTold(loaded[w][k], mem[w][k]) /\ StillTold(loaded[w][k], rows[k])
          BY <1>0, <3>3, <4>1 DEF CopiesAreReal, SessionsStillTell
        <4>3. IsTold(rows'[k], mail[k])
          BY <4>1, <4>2, FlushIsTold DEF IsReal
        <4>4. rows'[k].status \in {rows[k].status, mem[w][k].status}
          BY <4>1 DEF Flush
        <4>5. QED
          BY <4>2, <4>3, <4>4 DEF IsReal, IsWrappedUp
      <3>4. QED
        BY <1>4, <3>1, <3>2, <3>3 DEF Crash, storeVars
    <2>4. ASSUME NEW k \in Jobs, NEW v \in Workers, mem'[v][k] # NoRow
          PROVE  IsReal(k, loaded'[v][k]) /\ IsReal(k, mem'[v][k])
      BY <2>2, <2>4 DEF CopiesAreReal
    <2>5. QED
      BY <1>4, <2>1, <2>3, <2>4 DEF CopiesAreReal, IsReal, IsWrappedUp
  <1>5. ASSUME NEW c \in Clients, RequestStep(c) \/ LoseRequest(c), UNCHANGED <<mem, loaded>>
        PROVE  CopiesAreReal'
    <2>1. ASSUME NEW k \in Jobs
          PROVE  \A old : IsReal(k, old) =>
                    /\ IsTold(old, mail'[k])
                    /\ old.status = "expired" => k \in byHand' \/ Has(mail'[k], "MonitoringEnded")
      BY <1>0, <1>5, ClientGrows, RealGrows
    <2>2. ASSUME NEW k \in Jobs, rows'[k] # NoRow
          PROVE  /\ IsTold(rows'[k], mail'[k])
                 /\ rows'[k].status = "expired"
                       => k \in byHand' \/ Has(mail'[k], "MonitoringEnded")
      <3>1. CASE rows[k] = NoRow
        <4>1. NothingTold(rows'[k])
          BY <1>0, <1>5, <2>2, <3>1, ClientTellsNothing
        <4>2. rows'[k].status = "expired" => k \in byHand'
          BY <1>0, <1>5, <2>2, <3>1, ClientExpires
        <4>3. QED
          BY <4>1, <4>2 DEF NothingTold, IsTold
      <3>2. CASE rows[k] # NoRow
        <4>1. SameRecord(rows[k], rows'[k])
          BY <1>0, <1>5, <3>2, ClientTellsNothing
        <4>2. /\ IsTold(rows[k], mail'[k])
              /\ rows[k].status = "expired" => k \in byHand' \/ Has(mail'[k], "MonitoringEnded")
          BY <2>1, <3>2 DEF CopiesAreReal
        <4>3. rows'[k].status = "expired" => k \in byHand' \/ rows[k].status = "expired"
          BY <1>0, <1>5, <2>2, ClientExpires
        <4>4. QED
          BY <4>1, <4>2, <4>3 DEF SameRecord, IsTold
      <3>3. QED
        BY <3>1, <3>2
    <2>3. ASSUME NEW k \in Jobs, NEW v \in Workers, mem[v][k] # NoRow
          PROVE  IsReal(k, loaded[v][k])' /\ IsReal(k, mem[v][k])'
      BY <1>5, <2>1, <2>3 DEF CopiesAreReal, IsReal, IsWrappedUp
    <2>4. QED
      BY <1>5, <2>2, <2>3 DEF CopiesAreReal, IsReal, IsWrappedUp
  <1>6. QED
    BY <1>0, <1>1, <1>2, <1>3, <1>4, <1>5, SystemCases

\* However passes and requests overlap, die and fail, a job claims no alert that
\* its owner did not get: process_job records after a confirmed send only, and
\* no request of routers/jobs.py writes these columns.
THEOREM AlertsAreRealAlways == SystemSpec => []AlertsAreReal
  <1>1. SystemInit => CopiesAreReal
    BY DEF SystemInit, StoreInit, SessionInit, NoSession, CopiesAreReal
  <1>2. ToldInv /\ CopiesAreReal /\ [SystemNext]_vars => CopiesAreReal'
    BY SystemIsReal
  <1>3. CopiesAreReal => AlertsAreReal
    BY DEF CopiesAreReal, IsReal, IsTold, IsWrappedUp, AlertsAreReal
  <1>4. QED
    BY <1>1, <1>2, <1>3, SystemInitTold, SystemStillTells, PTL DEF SystemSpec

-----------------------------------------------------------------------------
(* What a pass may write over. *)

\* A status a pass has set is news, and its owner was mailed.
IsNews(j, old, row) ==
    row.status # old.status => /\ row.status \in DOMAIN News
                               /\ Has(mail[j], News[row.status])

StatusIsNews ==
    \A w \in Workers, j \in Jobs : mem[w][j] # NoRow => IsNews(j, loaded[w][j], mem[w][j])

\* The three statuses with news.
LEMMA NewsOf ==
    /\ DOMAIN News = {"drop_found", "deadline_soon", "expired"}
    /\ News["drop_found"] = "PriceDropFound"
    /\ News["deadline_soon"] = "DeadlineApproaching"
    /\ News["expired"] = "MonitoringEnded"
  BY DEF News

\* Processing a job sets a status only with the email that says so.
LEMMA EffectIsNews ==
    ASSUME TypeOK, SessionIsPass,
           NEW w \in Workers, NEW j \in Jobs, NEW row \in Row, Effect(w, j, row)
    PROVE  /\ row.status # loaded[w][j].status =>
                 row.status \in DOMAIN News /\ Has(mail'[j], News[row.status])
           /\ \A k \in Jobs : Extends(mail[k], mail'[k])
  <1> DEFINE old == mem[w][j]
  <1>1. old = loaded[w][j]
    BY DEF Effect, Process, Reach, SessionIsPass, TypeOK
  <1>2. CASE SameAlerts(old, row) /\ mail' = mail
    BY <1>1, <1>2 DEF SameAlerts, Extends
  <1>3. ASSUME NEW event \in Event, NEW outcome \in Outcomes, Emit(j, event, outcome),
               \/ TellsEnd(old, row, event, Delivered(outcome))
               \/ TellsDrop(j, old, row, event, Delivered(outcome))
               \/ Warns(old, row, event, Delivered(outcome))
        PROVE  /\ row.status # old.status =>
                     row.status \in DOMAIN News /\ Has(mail'[j], News[row.status])
               /\ \A k \in Jobs : Extends(mail[k], mail'[k])
    <2>1. /\ \A k \in Jobs : Extends(mail[k], mail'[k])
          /\ Delivered(outcome) => \E i \in DOMAIN mail'[j] : mail'[j][i] = event
      BY <1>3, EmitGrows DEF TypeOK, StoreTypeOK
    <2>2. CASE ~Delivered(outcome)
      BY <1>3, <2>1, <2>2 DEF TellsEnd, TellsDrop, Warns, SameAlerts
    <2>3. CASE Delivered(outcome)
      <3>1. \/ event.kind = "MonitoringEnded" /\ row.status = "expired"
            \/ event.kind = "PriceDropFound" /\ row.status = "drop_found"
            \/ event.kind = "DeadlineApproaching" /\ row.status = "deadline_soon"
        BY <1>3, <2>3 DEF TellsEnd, TellsDrop, Warns
      <3>2. row.status \in DOMAIN News /\ News[row.status] = event.kind
        BY <3>1, NewsOf
      <3>3. QED
        BY <2>1, <2>3, <3>2 DEF Has
    <2>4. QED
      BY <2>2, <2>3
  <1>4. QED
    BY <1>1, <1>2, <1>3 DEF Effect, Tells

\* Mail only grows, so news stays news.
LEMMA SystemKeepsNews ==
    ASSUME ToldInv, StatusIsNews, [SystemNext]_vars
    PROVE  StatusIsNews'
  <1>0. TypeOK /\ SystemInv /\ SessionIsPass /\ ApiInv /\ RequestsSpareRecord
    BY DEF ToldInv, SystemInv
  <1>1. ASSUME NEW v \in Workers, NEW k \in Jobs, mem'[v][k] # NoRow,
               UNCHANGED <<mem[v][k], loaded[v][k]>>, Extends(mail[k], mail'[k])
        PROVE  IsNews(k, loaded[v][k], mem[v][k])'
    <2>1. IsNews(k, loaded[v][k], mem[v][k])
      BY <1>1 DEF StatusIsNews
    <2>2. \A kind : Has(mail[k], kind) => Has(mail'[k], kind)
      BY <1>1 DEF Extends, Has
    <2>3. QED
      BY <1>1, <2>1, <2>2 DEF IsNews
  <1>2. \A k \in Jobs : mail'[k] = mail[k] => Extends(mail[k], mail'[k])
    BY DEF Extends
  <1>3. CASE UNCHANGED <<mail, mem, loaded>>
    BY <1>1, <1>2, <1>3 DEF StatusIsNews
  <1>4. ASSUME NEW w \in Workers, StartPass(w) PROVE StatusIsNews'
    <2>1. mail' = mail
      BY <1>4 DEF StartPass, storeVars
    <2>2. ASSUME NEW v \in Workers, NEW k \in Jobs, mem'[v][k] # NoRow
          PROVE  \/ mem'[v][k] = loaded'[v][k]
                 \/ UNCHANGED <<mem[v][k], loaded[v][k]>>
      BY <1>0, <1>4, <2>2 DEF StartPass, TypeOK
    <2>3. QED
      BY <1>1, <1>2, <2>1, <2>2 DEF StatusIsNews, IsNews
  <1>5. ASSUME NEW w \in Workers, NEW j \in Jobs, NEW row \in Row, Effect(w, j, row)
        PROVE  StatusIsNews'
    <2>1. /\ loaded' = loaded /\ mem'[w][j] = row
          /\ \A v \in Workers, k \in Jobs : v # w \/ k # j => mem'[v][k] = mem[v][k]
      BY <1>0, <1>5, ProcessFrame DEF Effect
    <2>2. /\ row.status # loaded[w][j].status =>
                row.status \in DOMAIN News /\ Has(mail'[j], News[row.status])
          /\ \A k \in Jobs : Extends(mail[k], mail'[k])
      BY <1>0, <1>5, EffectIsNews
    <2>3. IsNews(j, loaded[w][j], mem[w][j])'
      BY <2>1, <2>2 DEF IsNews
    <2>4. QED
      BY <1>1, <2>1, <2>2, <2>3 DEF StatusIsNews
  <1>6. ASSUME NEW w \in Workers, CommitPass(w) \/ Crash(w) PROVE StatusIsNews'
    <2>1. mail' = mail
      BY <1>6 DEF CommitPass, Crash, storeVars
    <2>2. \A v \in Workers, k \in Jobs : mem'[v][k] # NoRow =>
             mem[v][k] # NoRow /\ mem'[v] = mem[v] /\ loaded'[v] = loaded[v]
      BY <1>0, <1>6 DEF CommitPass, Crash, CloseSession, NoSession, TypeOK
    <2>3. QED
      BY <1>1, <1>2, <2>1, <2>2 DEF StatusIsNews
  <1>7. ASSUME NEW c \in Clients, RequestStep(c) \/ LoseRequest(c), UNCHANGED <<mem, loaded>>
        PROVE  StatusIsNews'
    BY <1>0, <1>1, <1>7, ClientGrows DEF StatusIsNews
  <1>8. QED
    BY <1>0, <1>3, <1>4, <1>5, <1>6, <1>7, SystemCases

\* What is left of the row as it was when the pass commits.
LEMMA CommitSpares ==
    ASSUME SystemInv, StatusIsNews, NEW w \in Workers, CommitPass(w),
           NEW j \in Jobs, rows[j] # NoRow
    PROVE  /\ rows'[j].refundable = rows[j].refundable
           /\ rows'[j].cancellation_deadline = rows[j].cancellation_deadline
           /\ rows'[j].hotel_id # rows[j].hotel_id =>
                 loaded[w][j] # NoRow /\ loaded[w][j].hotel_id = None
           /\ rows'[j].status # rows[j].status =>
                 /\ loaded[w][j] # NoRow /\ loaded[w][j].status # rows'[j].status
                 /\ rows'[j].status \in DOMAIN News
                 /\ Has(mail[j], News[rows'[j].status])
  <1>1. TypeOK
    BY DEF SystemInv
  <1>2. CASE mem[w][j] = NoRow
    BY <1>1, <1>2, PassRow
  <1>3. CASE mem[w][j] # NoRow
    <2>1. rows'[j] = Flush(rows[j], loaded[w][j], mem[w][j]) /\ loaded[w][j] # NoRow
      BY <1>1, <1>3, PassRow DEF TypeOK
    <2>2. rows'[j].status = IF mem[w][j].status = loaded[w][j].status
                            THEN rows[j].status ELSE mem[w][j].status
      BY <2>1 DEF Flush
    <2>3. IsNews(j, loaded[w][j], mem[w][j])
      BY <1>3 DEF StatusIsNews
    <2>4. QED
      BY <2>1, <2>2, <2>3, CommitSparesPolicy DEF IsNews
  <1>4. QED
    BY <1>2, <1>3

\* Of what a PATCH or a DELETE sets while a pass holds the row, the commit of
\* run_once writes over two things only: a hotel, if the pass loaded the job
\* without one, and the status, if the pass changed it and mailed the owner why.
\* The policy columns it never writes.
THEOREM PatchSurvivesPassAlways == SystemSpec => PatchSurvivesPass
  <1>1. SystemInit => StatusIsNews
    BY DEF SystemInit, SessionInit, NoSession, StatusIsNews
  <1>2. ToldInv /\ StatusIsNews /\ [SystemNext]_vars => StatusIsNews'
    BY SystemKeepsNews
  <1>3. ToldInv /\ StatusIsNews /\ [SystemNext]_vars =>
           [\A w \in Workers, j \in Jobs : CommitPass(w) /\ rows[j] # NoRow =>
              /\ rows'[j].refundable = rows[j].refundable
              /\ rows'[j].cancellation_deadline = rows[j].cancellation_deadline
              /\ rows'[j].hotel_id # rows[j].hotel_id =>
                    loaded[w][j] # NoRow /\ loaded[w][j].hotel_id = None
              /\ rows'[j].status # rows[j].status =>
                    /\ loaded[w][j] # NoRow /\ loaded[w][j].status # rows'[j].status
                    /\ rows'[j].status \in DOMAIN News
                    /\ Has(mail[j], News[rows'[j].status])]_vars
    BY CommitSpares DEF ToldInv
  <1>4. QED
    BY <1>1, <1>2, <1>3, SystemInitTold, SystemStillTells, PTL DEF SystemSpec, PatchSurvivesPass

=============================================================================

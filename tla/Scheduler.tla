------------------------------ MODULE Scheduler ------------------------------
(***************************************************************************)
(* The polling worker, app/scheduler/worker.py.  A pass is one database    *)
(* session: it reads the clock and the due jobs once, works through them   *)
(* in memory (sending email as it goes) and commits everything at the end. *)
(* Several workers may run: the loop process, a cron start, the old and    *)
(* the new container of a deploy.                                          *)
(***************************************************************************)
EXTENDS Store, FiniteSets

CONSTANTS
    Workers,
    Daily, TwiceDaily, FourTimesDaily,   \* cadence: 24, 12 and 6 hours
    FarHours, NearHours,                 \* 14 days and 3 days before the deadline
    GuardHours,                          \* settings.deadline_alert_hours
    RetryHours,                          \* undelivered wrap-up: one hour
    Jitters,                             \* values of the random jitter
    Offers,                              \* offers the matcher may return
    Deadlines,                           \* cancellation deadlines of the jobs
    RequireRebookUrl,                    \* settings.require_rebook_url_for_alerts
    MaxCrashes                           \* bound on worker crashes

ASSUME SchedulerAssumption ==
    /\ {Daily, TwiceDaily, FourTimesDaily, RetryHours} \subseteq Nat \ {0}
    /\ {FarHours, NearHours, GuardHours} \subseteq Nat
    /\ Jitters \subseteq Nat
    /\ Offers \subseteq [price : Prices, link : BOOLEAN]
    /\ None \notin Offers
    /\ Deadlines \subseteq Time
    /\ RequireRebookUrl \in BOOLEAN
    /\ MaxCrashes \in Nat

VARIABLES
    passNow,     \* passNow[w]: `now` of the open pass, None between passes
    todo,        \* todo[w]: selected jobs the loop has not reached
    loaded,      \* loaded[w][j]: the row the session loaded, or NoRow
    mem,         \* mem[w][j]: the session's copy, with its changes
    added,       \* added[w][j]: the PriceCheck to insert: {} or {its price}
    planSeen,    \* planSeen[w][u]: plan status of the user object, once loaded
    crashes      \* crashes so far (bound only)

sessionVars == <<passNow, todo, loaded, mem, added, planSeen>>
schedVars == <<storeVars, sessionVars, crashes>>

NoSession == [j \in Jobs |-> NoRow]
NothingAdded == [j \in Jobs |-> {}]
NothingSeen == [u \in Users |-> None]

-----------------------------------------------------------------------------
(* The clock arithmetic. *)

HoursUntil(deadline, now) == IF deadline = None THEN None ELSE deadline - now

\* Mutant: the interval is not shortened for the last days.
CadenceHours_TwiceInFinal(hours) ==
    IF hours = None \/ hours > FarHours THEN Daily ELSE TwiceDaily

CadenceHours(hours) ==
    IF hours = None THEN Daily
    ELSE IF hours > FarHours THEN Daily
    ELSE IF hours > NearHours THEN TwiceDaily
    ELSE FourTimesDaily

\* Mutant: only the very hour of the deadline counts as the end.
HasEnded_OnTheHour(j, row, now) ==
    row.cancellation_deadline = now \/ CheckOut[j] = now

\* Mutant: dates are compared a day early.
HasEnded_DayEarly(j, row, now) ==
    \/ row.cancellation_deadline # None /\ row.cancellation_deadline - Daily <= now
    \/ CheckOut[j] <= now

\* The free-cancellation window has closed, or the stay is over.
HasEnded(j, row, now) ==
    \/ row.cancellation_deadline # None /\ row.cancellation_deadline <= now
    \/ CheckOut[j] <= now

-----------------------------------------------------------------------------
(* Reading an offer: `best` is what best_like_for_like returned, or None. *)

\* A drop the user can act on: beats the original by more than the floor and,
\* if the settings ask for it, comes with a rebook link.
Stands(j, best) ==
    /\ IsActionableDrop(best, Original[j])
    /\ RequireRebookUrl => best.link

\* Mutant: any lower price is worth another email.
WorthTelling_AnyLower(j, row, price) ==
    \/ ~row.drop_alert_sent
    \/ row.lowest_alerted_price # None /\ price < row.lowest_alerted_price

\* Worth an(other) email: the first drop, or deeper than the last one told.
WorthTelling(j, row, price) ==
    \/ ~row.drop_alert_sent
    \/ /\ row.lowest_alerted_price # None
       /\ BelowByFloor(price, row.lowest_alerted_price, Original[j])

\* Mutant: the lowest price is set once and never lowered.
Checked_FirstIsLowest(row, best) ==
    IF best = None THEN [row EXCEPT !.check_count = @ + 1]
    ELSE [row EXCEPT !.check_count = @ + 1,
                     !.current_best_price = best.price,
                     !.lowest_seen_price = IF @ = None THEN best.price ELSE @]

\* Mutant: the latest price overwrites the lowest.
Checked_LatestIsLowest(row, best) ==
    IF best = None THEN [row EXCEPT !.check_count = @ + 1]
    ELSE [row EXCEPT !.check_count = @ + 1,
                     !.current_best_price = best.price,
                     !.lowest_seen_price = best.price]

\* The row after a check, before any alert.
Checked(row, best) ==
    LET seen == [row EXCEPT !.check_count = @ + 1]
    IN  IF best = None THEN seen
        ELSE [seen EXCEPT
                !.current_best_price = best.price,
                !.lowest_seen_price =
                    IF @ = None THEN best.price
                    ELSE IF best.price < @ THEN best.price ELSE @]

SawMovement(j, row) ==
    /\ row.lowest_seen_price # None
    /\ BelowByFloor(row.lowest_seen_price, Original[j], Original[j])

GuardDue(row, now) ==
    /\ row.cancellation_deadline # None
    /\ row.cancellation_deadline - now <= GuardHours
    /\ ~row.deadline_alert_sent

-----------------------------------------------------------------------------
(* A pass. *)

\* Mutant: every scheduled job is picked up, whatever its status.
Due_AnyStatus(row, now) ==
    /\ row # NoRow
    /\ row.next_check_at # None
    /\ row.next_check_at <= now

Due(row, now) ==
    /\ row # NoRow
    /\ row.status \in Monitored
    /\ row.next_check_at # None
    /\ row.next_check_at <= now

StartPass(w) ==
    /\ passNow[w] = None
    /\ passNow' = [passNow EXCEPT ![w] = clock]
    /\ todo' = [todo EXCEPT ![w] = {j \in Jobs : Due(rows[j], clock)}]
    /\ loaded' = [loaded EXCEPT ![w] =
                    [j \in Jobs |-> IF Due(rows[j], clock) THEN rows[j] ELSE NoRow]]
    /\ mem' = [mem EXCEPT ![w] = loaded'[w]]
    /\ UNCHANGED <<storeVars, added, planSeen, crashes>>

\* job.user: loaded on first use, then kept by the session.
SeenPlan(w, u) == IF planSeen[w][u] = None THEN plan[u] ELSE planSeen[w][u]

\* The loop reaches job j.
Reach(w, j) ==
    /\ j \in todo[w]
    /\ todo' = [todo EXCEPT ![w] = @ \ {j}]
    /\ planSeen' = [planSeen EXCEPT ![w][Owner[j]] = SeenPlan(w, Owner[j])]
    /\ UNCHANGED <<rows, checks, plan, clock, passNow, loaded, crashes>>

\* ... of a user whose subscription pauses monitoring.
SkipPaused(w, j) ==
    /\ Reach(w, j)
    /\ ~CanMonitor(SeenPlan(w, Owner[j]))
    /\ UNCHANGED <<mail, mem, added>>

\* ... and processes it: the session's copy becomes `row`.
Process(w, j, row) ==
    /\ Reach(w, j)
    /\ CanMonitor(SeenPlan(w, Owner[j]))
    /\ mem' = [mem EXCEPT ![w][j] = row]

\* Past the deadline or the stay: one wrap-up, retried until it is delivered.
EndMonitoring(w, j) ==
    LET row == mem[w][j]
        wrapUp == [kind |-> "MonitoringEnded", price |-> row.lowest_seen_price,
                   note |-> row.drop_alert_sent]
    IN  /\ j \in todo[w]
        /\ HasEnded(j, row, passNow[w])
        /\ \E outcome \in Outcomes :
              /\ Emit(j, wrapUp, outcome)
              /\ Process(w, j,
                    IF Delivered(outcome)
                    THEN [row EXCEPT !.status = "expired", !.next_check_at = None]
                    ELSE [row EXCEPT !.next_check_at = passNow[w] + RetryHours])
        /\ UNCHANGED added

\* The hotel the session works with: the row's, or what the retry resolves.
Resolved(row) == IF row.hotel_id = None THEN Maybe(Hotels) ELSE {row.hotel_id}

\* Mutant: a job without a hotel is parked until something else wakes it.
StayUnresolved_Parked(w, j) ==
    LET row == mem[w][j]
    IN  /\ j \in todo[w]
        /\ ~HasEnded(j, row, passNow[w])
        /\ row.hotel_id = None
        /\ Process(w, j, [row EXCEPT !.next_check_at = None])
        /\ UNCHANGED <<mail, added>>

StayUnresolved(w, j) ==
    LET row == mem[w][j]
        hrs == HoursUntil(row.cancellation_deadline, passNow[w])
    IN  /\ j \in todo[w]
        /\ ~HasEnded(j, row, passNow[w])
        /\ row.hotel_id = None
        /\ Process(w, j, [row EXCEPT !.next_check_at = passNow[w] + CadenceHours(hrs)])
        /\ UNCHANGED <<mail, added>>

\* source.check raises: run_once logs it and keeps what was already assigned.
CheckRaises(w, j) ==
    LET row == mem[w][j]
    IN  /\ j \in todo[w]
        /\ "check_fails" \in Faults
        /\ ~HasEnded(j, row, passNow[w])
        /\ \E hotel \in Resolved(row) \ {None} :
              Process(w, j, [row EXCEPT !.hotel_id = hotel])
        /\ UNCHANGED <<mail, added>>

\* Mutant: a job without a deadline is not rescheduled.
CheckedRow_NoDeadlineNoNext(w, j, hotel, best, jitter) ==
    LET row == mem[w][j]
        hrs == HoursUntil(row.cancellation_deadline, passNow[w])
    IN  [Checked(row, best) EXCEPT
            !.hotel_id = hotel,
            !.next_check_at = IF hrs = None THEN None
                              ELSE passNow[w] + CadenceHours(hrs) + jitter]

\* The session's row after a completed check with offer `best`, rescheduled.
\* (The alerts in between do not read next_check_at.)
CheckedRow(w, j, hotel, best, jitter) ==
    LET row == mem[w][j]
        hrs == HoursUntil(row.cancellation_deadline, passNow[w])
    IN  [Checked(row, best) EXCEPT
            !.hotel_id = hotel,
            !.next_check_at = passNow[w] + CadenceHours(hrs) + jitter]

\* Mutant: only a check that found a price is recorded.
Check_OnlyIfFound(w, j, hotel, best) ==
    /\ j \in todo[w]
    /\ ~HasEnded(j, mem[w][j], passNow[w])
    /\ hotel \in Resolved(mem[w][j]) \ {None}
    /\ added' = [added EXCEPT ![w][j] = IF best = None THEN {} ELSE {best.price}]

\* A check of j completes: its PriceCheck is added to the session.
Check(w, j, hotel, best) ==
    /\ j \in todo[w]
    /\ ~HasEnded(j, mem[w][j], passNow[w])
    /\ hotel \in Resolved(mem[w][j]) \ {None}
    /\ added' = [added EXCEPT ![w][j] = {IF best = None THEN None ELSE best.price}]

RaiseDropAlert(w, j) ==
    \E hotel \in Hotels, best \in Offers, jitter \in Jitters, outcome \in Outcomes :
        LET row == CheckedRow(w, j, hotel, best, jitter)
            alert == [kind |-> "PriceDropFound", price |-> best.price, note |-> best.link]
        IN  /\ Check(w, j, hotel, best)
            /\ Stands(j, best)
            /\ WorthTelling(j, row, best.price)
            /\ Emit(j, alert, outcome)
            /\ Process(w, j,
                  IF Delivered(outcome)
                  THEN [row EXCEPT !.status = "drop_found", !.drop_alert_sent = TRUE,
                                   !.lowest_alerted_price = best.price]
                  ELSE row)

\* The deadline guard speaks only if no drop the user can act on stands.
RaiseDeadlineAlert(w, j) ==
    \E hotel \in Hotels, best \in Maybe(Offers), jitter \in Jitters, outcome \in Outcomes :
        LET row == CheckedRow(w, j, hotel, best, jitter)
            alert == [kind |-> "DeadlineApproaching", price |-> row.lowest_seen_price,
                      note |-> SawMovement(j, row)]
        IN  /\ Check(w, j, hotel, best)
            /\ ~Stands(j, best)
            /\ GuardDue(row, passNow[w])
            /\ Emit(j, alert, outcome)
            /\ Process(w, j,
                  IF Delivered(outcome)
                  THEN [row EXCEPT !.status = "deadline_soon", !.deadline_alert_sent = TRUE]
                  ELSE row)

\* Nothing to tell.
StayQuiet(w, j) ==
    \E hotel \in Hotels, best \in Maybe(Offers), jitter \in Jitters :
        LET row == CheckedRow(w, j, hotel, best, jitter)
        IN  /\ Check(w, j, hotel, best)
            /\ IF Stands(j, best) THEN ~WorthTelling(j, row, best.price)
                                  ELSE ~GuardDue(row, passNow[w])
            /\ Process(w, j, row)
            /\ UNCHANGED mail

\* Mutant: the session keeps the objects of the pass.
CloseSession_KeepsRows(w) ==
    /\ passNow' = [passNow EXCEPT ![w] = None]
    /\ todo' = [todo EXCEPT ![w] = {}]
    /\ added' = [added EXCEPT ![w] = NothingAdded]
    /\ planSeen' = [planSeen EXCEPT ![w] = NothingSeen]
    /\ UNCHANGED <<loaded, mem>>

\* The session ends, having written or not.
CloseSession(w) ==
    /\ passNow' = [passNow EXCEPT ![w] = None]
    /\ todo' = [todo EXCEPT ![w] = {}]
    /\ loaded' = [loaded EXCEPT ![w] = NoSession]
    /\ mem' = [mem EXCEPT ![w] = NoSession]
    /\ added' = [added EXCEPT ![w] = NothingAdded]
    /\ planSeen' = [planSeen EXCEPT ![w] = NothingSeen]

\* The one commit of the pass: changed columns and the new PriceChecks.
CommitPass(w) ==
    /\ passNow[w] # None
    /\ todo[w] = {}
    /\ rows' = [j \in Jobs |-> IF mem[w][j] = NoRow THEN rows[j]
                               ELSE Flush(rows[j], loaded[w][j], mem[w][j])]
    /\ checks' = [j \in Jobs |->
                    [n |-> IF added[w][j] = {} THEN checks[j].n ELSE checks[j].n + 1,
                     prices |-> checks[j].prices \cup (added[w][j] \ {None})]]
    /\ CloseSession(w)
    /\ UNCHANGED <<plan, clock, mail, crashes>>

\* The process dies, or the commit fails: the database saw nothing.
Crash(w) ==
    /\ "crash" \in Faults
    /\ crashes < MaxCrashes
    /\ passNow[w] # None
    /\ crashes' = crashes + 1
    /\ CloseSession(w)
    /\ UNCHANGED storeVars

-----------------------------------------------------------------------------

ProcessJob(w, j) ==
    \/ EndMonitoring(w, j)
    \/ StayUnresolved(w, j)
    \/ CheckRaises(w, j)
    \/ RaiseDropAlert(w, j)
    \/ RaiseDeadlineAlert(w, j)
    \/ StayQuiet(w, j)

\* What a running pass does on its own.
PassStep(w) ==
    \/ StartPass(w)
    \/ \E j \in Jobs : SkipPaused(w, j) \/ ProcessJob(w, j)
    \/ CommitPass(w)

SessionInit ==
    /\ passNow = [w \in Workers |-> None]
    /\ todo = [w \in Workers |-> {}]
    /\ loaded = [w \in Workers |-> NoSession]
    /\ mem = [w \in Workers |-> NoSession]
    /\ added = [w \in Workers |-> NothingAdded]
    /\ planSeen = [w \in Workers |-> NothingSeen]
    /\ crashes = 0

\* The worker alone: jobs as POST /jobs leaves them.
FreshRows ==
    \E hotel \in [Jobs -> Maybe(Hotels)], deadline \in [Jobs -> Maybe(Deadlines)] :
        rows = [j \in Jobs |-> NewRow("active", hotel[j], TRUE, deadline[j], 0)]

Init ==
    /\ FreshRows
    /\ checks = [j \in Jobs |-> NoHistory]
    /\ plan \in [Users -> {"trialing", "past_due"}]
    /\ clock = 0
    /\ mail = [j \in Jobs |-> <<>>]
    /\ SessionInit

Next ==
    \/ \E w \in Workers : PassStep(w) \/ Crash(w)
    \/ Tick /\ UNCHANGED <<sessionVars, crashes>>

Spec == Init /\ [][Next]_schedVars

\* run_forever never stops and each pass is a finite loop; time goes on.
LiveSpec ==
    /\ Spec
    /\ \A w \in Workers : WF_schedVars(PassStep(w))
    /\ WF_schedVars(Tick /\ UNCHANGED <<sessionVars, crashes>>)

-----------------------------------------------------------------------------
(* Properties. *)

RowOrNone == Row \cup {NoRow}

\* Every variable keeps its type, and a job is in a session's memory exactly
\* when the session loaded it.
TypeOK ==
    /\ StoreTypeOK
    /\ passNow \in [Workers -> Maybe(Time)]
    /\ todo \in [Workers -> SUBSET Jobs]
    /\ loaded \in [Workers -> [Jobs -> RowOrNone]]
    /\ mem \in [Workers -> [Jobs -> RowOrNone]]
    /\ added \in [Workers -> [Jobs -> SUBSET Maybe(Prices)]]
    /\ planSeen \in [Workers -> [Users -> Maybe(PlanStatus)]]
    /\ crashes \in Nat
    /\ \A w \in Workers, j \in Jobs :
          /\ loaded[w][j] = NoRow <=> mem[w][j] = NoRow
          /\ j \in todo[w] => mem[w][j] # NoRow
          /\ mem[w][j] # NoRow => passNow[w] # None /\ rows[j] # NoRow

HasDropAt(box, price) ==
    \E i \in DOMAIN box : box[i].kind = "PriceDropFound" /\ box[i].price = price

\* The guards that suppress later email never claim more than happened: a job
\* is marked alerted only if that alert, with that price, reached the user,
\* and it is expired only if the wrap-up did.  (process_job records after a
\* confirmed send only; klaviyo.emit_event's contract.)
ToldIsTrue ==
    \A j \in Jobs : rows[j] # NoRow =>
        /\ rows[j].drop_alert_sent => HasDropAt(mail[j], rows[j].lowest_alerted_price)
        /\ rows[j].deadline_alert_sent => Has(mail[j], "DeadlineApproaching")
        /\ rows[j].status = "expired" => Has(mail[j], "MonitoringEnded")

\* Why ToldIsTrue survives overlapping sessions and column-wise commits: every
\* copy of a row is honest, in the database and in a session, its two drop
\* columns agree, and what a session loaded as alerted still is.
Honest(row, box) ==
    /\ row.drop_alert_sent <=> row.lowest_alerted_price # None
    /\ row.drop_alert_sent => HasDropAt(box, row.lowest_alerted_price)
    /\ row.deadline_alert_sent => Has(box, "DeadlineApproaching")
    /\ row.status = "expired" => Has(box, "MonitoringEnded")

SessionHonest(w, j) ==
    /\ Honest(loaded[w][j], mail[j])
    /\ Honest(mem[w][j], mail[j])
    /\ loaded[w][j].drop_alert_sent => mem[w][j].drop_alert_sent /\ rows[j].drop_alert_sent

RecordsAreHonest ==
    \A j \in Jobs :
        /\ rows[j] # NoRow => Honest(rows[j], mail[j])
        /\ \A w \in Workers : mem[w][j] # NoRow => SessionHonest(w, j)

LowestOf(S) == IF S = {} THEN None ELSE CHOOSE p \in S : \A q \in S : p <= q

\* The running figures on a job are those of its price history: one check per
\* price_checks row, the lowest price ever found, a current price among them.
HistoryAgrees ==
    \A j \in Jobs : rows[j] # NoRow =>
        /\ rows[j].check_count = checks[j].n
        /\ rows[j].lowest_seen_price = LowestOf(checks[j].prices)
        /\ IF checks[j].prices = {} THEN rows[j].current_best_price = None
           ELSE rows[j].current_best_price \in checks[j].prices

\* Whatever overlaps or dies: a job never claims more checks than were
\* recorded, nor a price that no recorded check found.
ChecksNotOverstated ==
    \A j \in Jobs : rows[j] # NoRow =>
        /\ rows[j].check_count <= checks[j].n
        /\ {rows[j].lowest_seen_price, rows[j].current_best_price}
              \subseteq Maybe(checks[j].prices)

\* Once the user got the wrap-up, nothing but a repeated wrap-up follows.
QuietAfterWrapUp ==
    \A j \in Jobs : \A i, k \in DOMAIN mail[j] :
        i < k /\ mail[j][i].kind = "MonitoringEnded"
            => mail[j][k].kind = "MonitoringEnded"

\* lowest_alerted_price moves only down, and only by more than the floor, even
\* if passes are lost: the threshold for the next alert is never loosened.
RecordDeepens ==
    [][\A j \in Jobs : rows[j] # NoRow /\ rows[j].lowest_alerted_price # None =>
          \/ rows'[j].lowest_alerted_price = rows[j].lowest_alerted_price
          \/ BelowByFloor(rows'[j].lowest_alerted_price,
                          rows[j].lowest_alerted_price, Original[j])]_schedVars

\* The deadline email's reassurance covers every check made for the job, the
\* one of this very step included: its lowest price is the lowest of the
\* committed history and of what the pass is about to record.
ReassuranceIsComplete ==
    [][\A j \in Jobs : Len(mail'[j]) > Len(mail[j])
            /\ mail'[j][Len(mail'[j])].kind = "DeadlineApproaching" =>
          mail'[j][Len(mail'[j])].price =
              LowestOf(checks[j].prices \cup UNION {added'[w][j] \ {None} : w \in Workers})
      ]_schedVars

\* Monitoring comes to an end: every monitored job of a user who may monitor is
\* eventually wrapped up, even if its hotel is never resolved, the price source
\* raises on every call, or the worker dies once in between.
MonitoringEnds ==
    \A j \in Jobs :
        rows[j] # NoRow /\ rows[j].status \in Monitored /\ CanMonitor(plan[Owner[j]])
            ~> rows[j] # NoRow /\ rows[j].status = "expired" /\ Has(mail[j], "MonitoringEnded")

\* How often an email of a kind was accepted, and the price in the latest.
Times(box, kind) == Cardinality({i \in DOMAIN box : box[i].kind = kind})

IsLatest(box, kind, i) ==
    box[i].kind = kind /\ \A k \in DOMAIN box : k > i => box[k].kind # kind

LatestPrice(box, kind) ==
    IF Has(box, kind) THEN box[CHOOSE i \in DOMAIN box : IsLatest(box, kind, i)].price
    ELSE None

Promise == INSTANCE AlertPromise WITH
    told <- [j \in Jobs |-> Times(mail[j], "PriceDropFound")],
    last <- [j \in Jobs |-> LatestPrice(mail[j], "PriceDropFound")],
    warned <- [j \in Jobs |-> Times(mail[j], "DeadlineApproaching")],
    ended <- [j \in Jobs |-> Times(mail[j], "MonitoringEnded")]

\* A single worker whose sends are never mis-acknowledged keeps the promise.
KeepsPromise == Promise!PromiseSpec

=============================================================================

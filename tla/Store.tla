-------------------------------- MODULE Store --------------------------------
(***************************************************************************)
(* What every process of HotelSave shares: the monitoring_jobs rows, the   *)
(* price_checks table, the users' plan status, the wall clock, and the     *)
(* events Klaviyo accepted for a job (the user's mail).  The database      *)
(* session of SQLAlchemy is here too: a session works on the row as it was *)
(* loaded and its commit writes the columns it changed, whatever the row   *)
(* has become since.                                                       *)
(***************************************************************************)
EXTENDS Matching

CONSTANTS
    Jobs,           \* monitoring_jobs keys
    Users,          \* users keys
    Owner,          \* Owner[j]: the user of job j
    Original,       \* Original[j]: original_price, never updated
    CheckOut,       \* CheckOut[j]: midnight of the check-out date
    Hotels,         \* hotel ids a price source may return
    Prices,         \* totals a rate may have
    MaxTime,        \* bound: the clock stops here
    NoRow,          \* the job does not exist / is not in the session
    Faults          \* the failures a run allows, see FaultKinds

\* failed: Klaviyo refuses.  lost_ack: it accepts, the answer times out.
\* crash: a process dies.  check_fails: the price source raises.
FaultKinds == {"failed", "lost_ack", "crash", "check_fails"}

Time == Nat

PlanStatus == {"trialing", "active", "past_due", "canceled"}

Pending == {"pending_hotel", "pending_info"}

Monitored == {"active", "drop_found", "deadline_soon"}

JobStatus == Pending \cup Monitored \cup {"expired", "cancelled"}

Maybe(S) == S \cup {None}

\* The columns the processes read and write.
Row == [status : JobStatus,
        hotel_id : Maybe(Hotels),
        refundable : BOOLEAN,
        cancellation_deadline : Maybe(Time),
        next_check_at : Maybe(Time),
        check_count : Nat,
        current_best_price : Maybe(Prices),
        lowest_seen_price : Maybe(Prices),
        drop_alert_sent : BOOLEAN,            \* drop_alert_sent_at is set
        lowest_alerted_price : Maybe(Prices),
        deadline_alert_sent : BOOLEAN]        \* deadline_alert_sent_at is set

\* A row as it is inserted: everything monitoring fills in is still empty.
NewRow(status, hotel, refundable, deadline, next) ==
    [status |-> status, hotel_id |-> hotel, refundable |-> refundable,
     cancellation_deadline |-> deadline, next_check_at |-> next,
     check_count |-> 0, current_best_price |-> None,
     lowest_seen_price |-> None, drop_alert_sent |-> FALSE,
     lowest_alerted_price |-> None, deadline_alert_sent |-> FALSE]

\* What Klaviyo is told about a job: the metrics of klaviyo.py, spelt without
\* spaces.  price: the price quoted, if any.  note: saw_movement, or whether
\* the wrap-up says a drop was found.
EventKinds == {"BookingMonitored", "HotelResolutionNeeded",
               "CancellationDeadlineNeeded", "PriceDropFound", "DeadlineApproaching",
               "MonitoringEnded"}

Event == [kind : EventKinds, price : Maybe(Prices), note : BOOLEAN]

Notice(kind) == [kind |-> kind, price |-> None, note |-> FALSE]

VARIABLES
    rows,           \* rows[j]: the committed monitoring_jobs row, or NoRow
    checks,         \* checks[j]: the committed price_checks of j
    plan,           \* plan[u]: users.plan_status
    clock,          \* datetime.now
    mail            \* mail[j]: events accepted for j, in order

storeVars == <<rows, checks, plan, clock, mail>>

ASSUME StoreAssumption ==
    /\ Owner \in [Jobs -> Users]
    /\ Original \in [Jobs -> Nat]
    /\ CheckOut \in [Jobs -> Time]
    /\ Prices \subseteq Nat
    /\ None \notin Hotels
    /\ NoRow \notin Row
    /\ MaxTime \in Nat
    /\ Faults \subseteq FaultKinds

-----------------------------------------------------------------------------
(* price_checks: how many there are, and the prices found in them. *)

History == [n : Nat, prices : SUBSET Prices]

NoHistory == [n |-> 0, prices |-> {}]

StoreTypeOK ==
    /\ rows \in [Jobs -> Row \cup {NoRow}]
    /\ checks \in [Jobs -> History]
    /\ plan \in [Users -> PlanStatus]
    /\ clock \in Time
    /\ mail \in [Jobs -> Seq(Event)]

-----------------------------------------------------------------------------
(* SQLAlchemy's unit of work and the Klaviyo client. *)

\* Mutant: the commit writes the whole row back.
Flush_WholeRow(row, loaded, mem) == mem

\* The UPDATE of a commit: only the columns that differ from what was loaded.
Flush(row, loaded, mem) ==
    LET Col(c) == IF mem[c] = loaded[c] THEN row[c] ELSE mem[c]
    IN  [status |-> Col("status"),
         hotel_id |-> Col("hotel_id"),
         refundable |-> Col("refundable"),
         cancellation_deadline |-> Col("cancellation_deadline"),
         next_check_at |-> Col("next_check_at"),
         check_count |-> Col("check_count"),
         current_best_price |-> Col("current_best_price"),
         lowest_seen_price |-> Col("lowest_seen_price"),
         drop_alert_sent |-> Col("drop_alert_sent"),
         lowest_alerted_price |-> Col("lowest_alerted_price"),
         deadline_alert_sent |-> Col("deadline_alert_sent")]

\* How one emit_event call can go.
Outcomes == {"accepted"} \cup (Faults \cap {"failed", "lost_ack"})

\* emit_event: the event reaches the user unless the send failed ...
Emit(j, event, outcome) ==
    mail' = IF outcome = "failed" THEN mail
            ELSE [mail EXCEPT ![j] = Append(@, event)]

\* What a user's mail about a job contains.
Has(box, kind) == \E i \in DOMAIN box : box[i].kind = kind

\* Mutant: the result of the send is not looked at.
Delivered_Unchecked(outcome) == outcome \in Outcomes

\* ... and the caller is told so only when the acceptance came back.
Delivered(outcome) == outcome = "accepted"

\* users.can_monitor
CanMonitor(status) == status \in {"trialing", "active"}

\* Time passes, whatever the processes are in the middle of.
Tick ==
    /\ clock < MaxTime
    /\ clock' = clock + 1
    /\ UNCHANGED <<rows, checks, plan, mail>>

=============================================================================

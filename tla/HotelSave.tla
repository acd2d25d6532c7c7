------------------------------ MODULE HotelSave ------------------------------
(***************************************************************************)
(* The whole service on one database: workers, requests and the Stripe     *)
(* webhook, interleaved at the granularity of database sessions.           *)
(***************************************************************************)
EXTENDS Scheduler, JobApi

CONSTANTS
    StripeStatuses,   \* subscription statuses Stripe reports in a run
    MaxPlanEvents     \* bound on the Stripe events of a run

ASSUME HotelSaveAssumption == MaxPlanEvents \in Nat

VARIABLES planEvents        \* Stripe events so far (bound only)

vars == <<schedVars, apiVars, planEvents>>

\* What a subscription's status in Stripe means for the plan.
PlanOf(status) ==
    IF status \in {"trialing", "incomplete"} THEN "trialing"
    ELSE IF status = "active" THEN "active"
    ELSE IF status \in {"past_due", "unpaid"} THEN "past_due"
    ELSE "canceled"

\* POST /billing/webhook for the subscription of a user whose row bears its
\* Stripe customer id: the latest event to arrive decides.  (No code of the
\* repository fills users.stripe_customer_id; this is the write once it is.)
StripeWebhook(u) ==
    /\ planEvents < MaxPlanEvents
    /\ planEvents' = planEvents + 1
    /\ \E status \in StripeStatuses : plan' = [plan EXCEPT ![u] = PlanOf(status)]
    /\ UNCHANGED <<rows, checks, clock, mail, sessionVars, crashes, apiVars>>

SystemInit ==
    /\ StoreInit
    /\ SessionInit
    /\ RequestsInit
    /\ planEvents = 0

WorkerStep(w) == (PassStep(w) \/ Crash(w)) /\ UNCHANGED <<apiVars, planEvents>>

ClientStep(c) ==
    (RequestStep(c) \/ LoseRequest(c)) /\ UNCHANGED <<sessionVars, crashes, planEvents>>

SystemNext ==
    \/ \E w \in Workers : WorkerStep(w)
    \/ \E c \in Clients : ClientStep(c)
    \/ \E u \in Users : StripeWebhook(u)
    \/ Tick /\ UNCHANGED <<sessionVars, crashes, apiVars, planEvents>>

SystemSpec == SystemInit /\ [][SystemNext]_vars

-----------------------------------------------------------------------------
(* Properties. *)

\* What a status set by a pass tells the world, and the email that says so.
News == [drop_found |-> "PriceDropFound",
         deadline_soon |-> "DeadlineApproaching",
         expired |-> "MonitoringEnded"]

\* A pass holds a copy of the row for as long as its loop runs.  Its commit
\* leaves all a PATCH or a DELETE set meanwhile, with two exceptions: a hotel,
\* if the pass had loaded the job without one, and the status, if the pass has
\* a new one that the owner has been mailed about.
PatchSurvivesPass ==
    [][\A w \in Workers, j \in Jobs : CommitPass(w) /\ rows[j] # NoRow =>
          /\ rows'[j].refundable = rows[j].refundable
          /\ rows'[j].cancellation_deadline = rows[j].cancellation_deadline
          /\ rows'[j].hotel_id # rows[j].hotel_id =>
                loaded[w][j] # NoRow /\ loaded[w][j].hotel_id = None
          /\ rows'[j].status # rows[j].status =>
                /\ loaded[w][j] # NoRow /\ loaded[w][j].status # rows'[j].status
                /\ rows'[j].status \in DOMAIN News
                /\ Has(mail[j], News[rows'[j].status])]_vars

\* Unless the client sets the status itself, a cancelled job can only come back
\* through a session that had read it before the cancel: a pass that loaded it
\* as monitored, or an activation that loaded it as pending.
CancelLostOnlyToOlderSession ==
    [][\A j \in Jobs :
          rows[j] # NoRow /\ rows[j].status = "cancelled" /\ rows'[j].status # "cancelled" =>
            \/ \E w \in Workers : CommitPass(w) /\ loaded[w][j].status \in Monitored
            \/ OlderActivation(j)
            \/ SetByClient(j)]_vars

\* What DELETE /jobs promises: soft-cancel stops monitoring.
CancelStopsMonitoring ==
    [][\A j \in Jobs : rows[j] # NoRow /\ rows[j].status = "cancelled"
          => rows'[j].status \notin Monitored]_vars

\* Among requests, too, a job says only what is true: an alert on the record
\* reached the owner with that price, and a job is expired only after its
\* wrap-up did, but for the clients that set that status themselves.
AlertsAreReal ==
    \A j \in Jobs : rows[j] # NoRow =>
        /\ rows[j].drop_alert_sent => HasDropAt(mail[j], rows[j].lowest_alerted_price)
        /\ rows[j].deadline_alert_sent => Has(mail[j], "DeadlineApproaching")
        /\ rows[j].status = "expired" => j \in byHand \/ Has(mail[j], "MonitoringEnded")

\* What a job says its owner was told is never unsaid, whoever writes the row
\* from however old a copy: an alert forgotten is an alert sent twice.
AlertRecordStays ==
    [][\A j \in Jobs : rows[j] # NoRow =>
          /\ rows[j].drop_alert_sent => rows'[j].drop_alert_sent
          /\ rows[j].deadline_alert_sent => rows'[j].deadline_alert_sent]_vars

\* So a single worker that loses nothing does not repeat itself, whatever users
\* change, cancel or bring back while its pass holds the job: there is one
\* deadline warning at most, and a drop email beats each one before it by the
\* floor.  (The wrap-up is not in it: an activation that is old enough brings
\* an expired job back.)
NoAlertTwice ==
    \A j \in Jobs : \A i, k \in DOMAIN mail[j] :
        i < k /\ mail[j][i].kind = mail[j][k].kind =>
            /\ mail[j][i].kind # "DeadlineApproaching"
            /\ mail[j][i].kind = "PriceDropFound" =>
                  BelowByFloor(mail[j][k].price, mail[j][i].price, Original[j])

=============================================================================

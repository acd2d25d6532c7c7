------------------------------- MODULE JobApi -------------------------------
(***************************************************************************)
(* What users do to a job: POST, PATCH and DELETE /jobs (routers/jobs.py,  *)
(* services/lifecycle.py) and the booking emails they forward              *)
(* (services/ingestion.py).  Each request is a database session of its     *)
(* own, served by a thread, so its reads and commits interleave with those *)
(* of other requests.                                                      *)
(***************************************************************************)
EXTENDS Store

CONSTANTS
    Clients,         \* requests that can be in progress at a time
    Idle,            \* no request in progress
    PatchDeadlines,  \* deadlines a client may send
    PatchStatuses,   \* statuses a client may send in a PATCH
    MaxRequests      \* bound on the requests of a run

\* Where a request stands: before its commit, before the refresh that follows
\* a PATCH, before the commit of the activation, before its event is emitted.
Steps == {"patch", "cancel", "refresh", "activate", "notify"}

NoNotice == "none"

\* A request in progress: the row its session loaded and, changed, will commit.
Served == [step : Steps, job : Jobs, loaded : Row, mem : Row,
           kind : EventKinds \cup {NoNotice}]

ASSUME JobApiAssumption ==
    /\ PatchDeadlines \subseteq Time
    /\ PatchStatuses \subseteq JobStatus
    /\ MaxRequests \in Nat
    /\ Idle \notin Served

VARIABLES
    req,             \* req[c]: the request c is serving, or Idle
    byHand,          \* history: jobs whose status a PATCH wrote itself
    unscheduled,     \* history: jobs a cancel took off the schedule and no more
    requests         \* requests so far (bound only)

apiVars == <<req, byHand, unscheduled, requests>>

Request(step, j, before, after, kind) ==
    [step |-> step, job |-> j, loaded |-> before, mem |-> after, kind |-> kind]

InStep(c, step) == req[c] # Idle /\ req[c].step = step

\* Only a pending job that now has everything is flipped to active.
IsReady(row) ==
    /\ row.refundable
    /\ row.cancellation_deadline # None
    /\ row.hotel_id # None

Begin(c) ==
    /\ req[c] = Idle
    /\ requests < MaxRequests
    /\ requests' = requests + 1

\* The request writes the status the client sent.
WritesStatus(r) == r.step = "patch" /\ r.mem.status # r.loaded.status

\* The cancel of a job that was cancelled already, and still had a next check:
\* that column is all its UPDATE writes.
OnlyUnschedules(r) ==
    /\ r.step = "cancel"
    /\ r.loaded.status = "cancelled"
    /\ r.loaded.next_check_at # None

\* The request's session commits: the columns it changed.
CommitRequest(c) ==
    LET r == req[c]
    IN  rows' = [rows EXCEPT ![r.job] = Flush(@, r.loaded, r.mem)]

-----------------------------------------------------------------------------
(* New jobs. *)

Insert(c, j, row, kind) ==
    /\ Begin(c)
    /\ rows[j] = NoRow
    /\ rows' = [rows EXCEPT ![j] = row]
    /\ req' = [req EXCEPT ![c] = Request("notify", j, row, row, kind)]
    /\ UNCHANGED <<checks, plan, clock, mail, byHand, unscheduled>>

\* POST /jobs: active at once, whatever is missing.
CreateJob(c, j) ==
    \E hotel \in Maybe(Hotels), refundable \in BOOLEAN, deadline \in Maybe(PatchDeadlines) :
        Insert(c, j, NewRow("active", hotel, refundable, deadline, clock),
               "BookingMonitored")

\* A forwarded email of a known user that parses as a refundable booking.
IngestEmail(c, j) ==
    \E hotel \in Maybe(Hotels), deadline \in Maybe(PatchDeadlines) :
        IF hotel = None
        THEN Insert(c, j, NewRow("pending_hotel", None, TRUE, deadline, None),
                    "HotelResolutionNeeded")
        ELSE IF deadline = None
        THEN Insert(c, j, NewRow("pending_info", hotel, TRUE, None, None),
                    "CancellationDeadlineNeeded")
        ELSE Insert(c, j, NewRow("active", hotel, TRUE, deadline, clock),
                    "BookingMonitored")

-----------------------------------------------------------------------------
(* PATCH /jobs/{id} *)

\* What a client may send: a column it leaves out, or sends unchanged, is the
\* row's own.
Payload(row) ==
    [hotel_id : {row.hotel_id} \cup Maybe(Hotels),
     refundable : BOOLEAN,
     cancellation_deadline : {row.cancellation_deadline} \cup Maybe(PatchDeadlines),
     status : {row.status} \cup PatchStatuses]

\* Mutant: an explicit null for refundable is stored.
Patched_NullRefundable(row, payload) ==
    [row EXCEPT !.hotel_id = payload.hotel_id,
                !.refundable = IF payload.refundable THEN TRUE ELSE None,
                !.cancellation_deadline = payload.cancellation_deadline,
                !.status = payload.status]

\* setattr for every column that was sent.
Patched(row, payload) ==
    [row EXCEPT !.hotel_id = payload.hotel_id,
                !.refundable = payload.refundable,
                !.cancellation_deadline = payload.cancellation_deadline,
                !.status = payload.status]

BeginPatch(c, j) ==
    /\ Begin(c)
    /\ rows[j] # NoRow
    /\ \E payload \in Payload(rows[j]) :
          req' = [req EXCEPT ![c] =
                    Request("patch", j, rows[j], Patched(rows[j], payload), NoNotice)]
    /\ UNCHANGED <<storeVars, byHand, unscheduled>>

CommitPatch(c) ==
    /\ InStep(c, "patch")
    /\ CommitRequest(c)
    /\ req' = [req EXCEPT ![c].step = "refresh"]
    /\ byHand' = IF WritesStatus(req[c]) THEN byHand \cup {req[c].job} ELSE byHand
    /\ UNCHANGED <<checks, plan, clock, mail, unscheduled, requests>>

\* Mutant: no refresh, the request decides on its own copy.
RefreshPatched_OwnCopy(c) ==
    /\ InStep(c, "refresh")
    /\ LET r == req[c]
           active == [r.mem EXCEPT !.status = "active", !.next_check_at = clock]
       IN  req' = [req EXCEPT ![c] =
                     IF r.mem.status \in Pending /\ IsReady(r.mem)
                     THEN Request("activate", r.job, r.mem, active, NoNotice)
                     ELSE Idle]
    /\ UNCHANGED <<storeVars, byHand, unscheduled, requests>>

\* Mutant: the activated job is not scheduled.
RefreshPatched_Unscheduled(c) ==
    /\ InStep(c, "refresh")
    /\ LET j == req[c].job
           row == rows[j]
       IN  req' = [req EXCEPT ![c] =
                     IF row.status \in Pending /\ IsReady(row)
                     THEN Request("activate", j, row, [row EXCEPT !.status = "active"], NoNotice)
                     ELSE Idle]
    /\ UNCHANGED <<storeVars, byHand, unscheduled, requests>>

\* Mutant: a job that has everything is activated whatever its status.
RefreshPatched_AnyStatus(c) ==
    /\ InStep(c, "refresh")
    /\ LET j == req[c].job
           row == rows[j]
           active == [row EXCEPT !.status = "active", !.next_check_at = clock]
       IN  req' = [req EXCEPT ![c] =
                     IF IsReady(row) THEN Request("activate", j, row, active, NoNotice)
                     ELSE Idle]
    /\ UNCHANGED <<storeVars, byHand, unscheduled, requests>>

\* db.refresh, then activate_if_ready on what it read.
RefreshPatched(c) ==
    /\ InStep(c, "refresh")
    /\ LET j == req[c].job
           row == rows[j]
           active == [row EXCEPT !.status = "active", !.next_check_at = clock]
       IN  req' = [req EXCEPT ![c] =
                     IF row.status \in Pending /\ IsReady(row)
                     THEN Request("activate", j, row, active, NoNotice)
                     ELSE Idle]
    /\ UNCHANGED <<storeVars, byHand, unscheduled, requests>>

CommitActivation(c) ==
    /\ InStep(c, "activate")
    /\ CommitRequest(c)
    /\ req' = [req EXCEPT ![c].step = "notify", ![c].kind = "BookingMonitored"]
    /\ UNCHANGED <<checks, plan, clock, mail, byHand, unscheduled, requests>>

-----------------------------------------------------------------------------
(* DELETE /jobs/{id}: whatever the job's status. *)

BeginCancel(c, j) ==
    /\ Begin(c)
    /\ rows[j] # NoRow
    /\ LET row == [rows[j] EXCEPT !.status = "cancelled", !.next_check_at = None]
       IN  req' = [req EXCEPT ![c] = Request("cancel", j, rows[j], row, NoNotice)]
    /\ UNCHANGED <<storeVars, byHand, unscheduled>>

CommitCancel(c) ==
    /\ InStep(c, "cancel")
    /\ CommitRequest(c)
    /\ req' = [req EXCEPT ![c] = Idle]
    /\ unscheduled' = IF OnlyUnschedules(req[c]) THEN unscheduled \cup {req[c].job}
                      ELSE unscheduled
    /\ UNCHANGED <<checks, plan, clock, mail, byHand, requests>>

-----------------------------------------------------------------------------

\* The event that follows a commit; its result is ignored.
Notify(c) ==
    /\ InStep(c, "notify")
    /\ \E outcome \in Outcomes : Emit(req[c].job, Notice(req[c].kind), outcome)
    /\ req' = [req EXCEPT ![c] = Idle]
    /\ UNCHANGED <<rows, checks, plan, clock, byHand, unscheduled, requests>>

\* The web process dies and takes the request with it.  (Not a step of the API
\* on its own: see HotelSave.)
LoseRequest(c) ==
    /\ "crash" \in Faults
    /\ req[c] # Idle
    /\ req' = [req EXCEPT ![c] = Idle]
    /\ UNCHANGED <<storeVars, byHand, unscheduled, requests>>

RequestStep(c) ==
    \/ \E j \in Jobs :
          CreateJob(c, j) \/ IngestEmail(c, j) \/ BeginPatch(c, j) \/ BeginCancel(c, j)
    \/ CommitPatch(c)
    \/ RefreshPatched(c)
    \/ CommitActivation(c)
    \/ CommitCancel(c)
    \/ Notify(c)

RequestsInit ==
    /\ req = [c \in Clients |-> Idle]
    /\ byHand = {}
    /\ unscheduled = {}
    /\ requests = 0

\* An empty database.
StoreInit ==
    /\ rows = [j \in Jobs |-> NoRow]
    /\ checks = [j \in Jobs |-> NoHistory]
    /\ plan = [u \in Users |-> "trialing"]
    /\ clock = 0
    /\ mail = [j \in Jobs |-> <<>>]

\* The API alone.
ApiInit == StoreInit /\ RequestsInit

ApiNext ==
    \/ \E c \in Clients : RequestStep(c)
    \/ Tick /\ UNCHANGED apiVars

ApiSpec == ApiInit /\ [][ApiNext]_<<storeVars, apiVars>>

-----------------------------------------------------------------------------
(* Properties. *)

\* Every variable keeps its type.
ApiTypeOK ==
    /\ StoreTypeOK
    /\ byHand \subseteq Jobs
    /\ unscheduled \subseteq Jobs
    /\ requests \in Nat
    /\ req \in [Clients -> Served \cup {Idle}]

\* A pending job that has everything it was waiting for does not stay pending:
\* some request is still on its way to activate it, even when two requests
\* each supplied one half of what was missing.  (routers/jobs.py refreshes
\* after its commit and decides on what it read.)  A process that dies between
\* the commit and the activation does leave such a job: not a step here.
ReadyIsActivated ==
    \A j \in Jobs :
        rows[j] # NoRow /\ rows[j].status \in Pending /\ IsReady(rows[j]) =>
            \E c \in Clients : /\ InStep(c, "refresh") \/ InStep(c, "activate")
                               /\ req[c].job = j

\* The scheduler polls by next_check_at: a job the service put into a monitored
\* status always has one, whichever sessions overlap and in whatever order they
\* commit.  Two kinds of job are outside the claim.  A client may PATCH the
\* status itself, which schedules nothing: byHand.  And of two cancels whose
\* sessions overlap older ones, the first can leave (cancelled, scheduled), an
\* older session can then make the job monitored again, and the second cancel,
\* which read it cancelled, take away only its next check: unscheduled.
MonitoredIsScheduled ==
    \A j \in Jobs \ (byHand \cup unscheduled) :
        rows[j] # NoRow /\ rows[j].status \in Monitored => rows[j].next_check_at # None

\* A request in progress activates job j as it read it: pending.
OlderActivation(j) ==
    \E c \in Clients : /\ InStep(c, "activate")
                       /\ req[c].job = j
                       /\ req[c].loaded.status \in Pending

\* A request in progress sets the status of job j because the client said so.
SetByClient(j) == \E c \in Clients : req[c] # Idle /\ req[c].job = j /\ WritesStatus(req[c])

\* Among requests, a cancel is undone only by a client that sets the status
\* itself or by an activation that had read the job as pending before: no later
\* PATCH of what was missing brings a cancelled job back.
CancelLostOnlyToOlderRequest ==
    [][\A j \in Jobs :
          rows[j] # NoRow /\ rows[j].status = "cancelled" /\ rows'[j].status # "cancelled"
            => OlderActivation(j) \/ SetByClient(j)]_<<storeVars, apiVars>>

\* The deadline is the one thing monitoring cannot do without, and the user is
\* its only source: what docs/spec.md says of it ("ask for it once, store it").
\* A pending job that lacks nothing else has had that question.
AskedForDeadline ==
    \A j \in Jobs :
        /\ rows[j] # NoRow
        /\ rows[j].status \in Pending
        /\ rows[j].refundable
        /\ rows[j].hotel_id # None
        /\ rows[j].cancellation_deadline = None
        /\ \A c \in Clients : req[c] # Idle => req[c].job # j
        => Has(mail[j], "CancellationDeadlineNeeded")

=============================================================================

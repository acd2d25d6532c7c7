---------------------------- MODULE JobApiProofs ----------------------------
(***************************************************************************)
(* Proofs about the job API, for any number of clients, jobs and requests: *)
(* whichever sessions overlap, and in whatever order they commit.          *)
(***************************************************************************)
EXTENDS JobApi, TLAPS

(* What the operators return. *)

\* The UPDATE of a request leaves a row.
LEMMA RequestFlush ==
    ASSUME NEW row \in Row, NEW old \in Row, NEW new \in Row
    PROVE  Flush(row, old, new) \in Row
  BY DEF Flush, Row

\* An inserted row is a row.
LEMMA NewRowType ==
    ASSUME NEW status \in JobStatus, NEW hotel \in Maybe(Hotels), NEW refundable \in BOOLEAN,
           NEW deadline \in Maybe(Time), NEW next \in Maybe(Time)
    PROVE  NewRow(status, hotel, refundable, deadline, next) \in Row
  BY DEF NewRow, Row, Maybe

\* A PATCH leaves a row, and the columns it cannot write as they were.
LEMMA PatchedType ==
    ASSUME NEW row \in Row, NEW payload \in Payload(row)
    PROVE  /\ Patched(row, payload) \in Row
           /\ Patched(row, payload).next_check_at = row.next_check_at
  <1>1. /\ payload.hotel_id \in Maybe(Hotels) /\ payload.refundable \in BOOLEAN
        /\ payload.cancellation_deadline \in Maybe(Time) /\ payload.status \in JobStatus
    BY JobApiAssumption DEF Payload, Row, Maybe
  <1>2. QED
    BY <1>1 DEF Patched, Row

\* A request in progress, and its parts.
LEMMA RequestType ==
    ASSUME NEW step \in Steps, NEW j \in Jobs, NEW before \in Row, NEW after \in Row,
           NEW kind \in EventKinds \cup {NoNotice}
    PROVE  LET r == Request(step, j, before, after, kind)
           IN  /\ r \in Served /\ r # Idle
               /\ r.step = step /\ r.job = j /\ r.loaded = before /\ r.mem = after
               /\ r.kind = kind
  BY JobApiAssumption DEF Request, Served

\* The request a client serves, once it is typed.
LEMMA ServedRequest ==
    ASSUME req \in [Clients -> Served \cup {Idle}], NEW c \in Clients, req[c] # Idle
    PROVE  LET r == req[c]
           IN  /\ r \in Served /\ r.step \in Steps /\ r.job \in Jobs
               /\ r.loaded \in Row /\ r.mem \in Row
  BY DEF Served

-----------------------------------------------------------------------------
(* What a step of a request comes to. *)

\* The client now serves r; the others are where they were.
Moves(c, r) == req' = [req EXCEPT ![c] = r]

\* An INSERT: a job with all it needs is active, and a job is scheduled exactly
\* when it is active.
Inserts(c) ==
    \E j \in Jobs, row \in Row, r \in Served :
        /\ req[c] = Idle /\ Moves(c, r)
        /\ r.step = "notify" /\ r.kind # NoNotice /\ r.job = j
        /\ rows[j] = NoRow /\ rows' = [rows EXCEPT ![j] = row]
        /\ row.status \in {"active", "pending_hotel", "pending_info"}
        /\ row.status # "active" => ~IsReady(row)
        /\ row.next_check_at = None <=> row.status # "active"
        /\ UNCHANGED <<mail, byHand, unscheduled>>

\* A SELECT: r.mem is what the request is going to write.
Loads(c) ==
    \E j \in Jobs, r \in Served :
        /\ req[c] = Idle /\ Moves(c, r)
        /\ r.job = j /\ rows[j] # NoRow /\ r.loaded = rows[j]
        /\ \/ r.step = "patch" /\ r.mem.next_check_at = r.loaded.next_check_at
           \/ /\ r.step = "cancel"
              /\ r.mem = [rows[j] EXCEPT !.status = "cancelled", !.next_check_at = None]
        /\ UNCHANGED <<rows, mail, byHand, unscheduled>>

\* A commit; the request goes on to step, or is over.
Commits(c, step, next) ==
    /\ InStep(c, step)
    /\ rows' = [rows EXCEPT ![req[c].job] = Flush(rows[req[c].job], req[c].loaded, req[c].mem)]
    /\ \E r \in Served \cup {Idle} :
          /\ Moves(c, r)
          /\ IF next = "over" THEN r = Idle
             ELSE r # Idle /\ r.step = next /\ r.job = req[c].job
          /\ next = "notify" => r.kind # NoNotice
    /\ mail' = mail

\* The refresh after a PATCH: on to the activation, or over.
Refreshes(c) ==
    /\ InStep(c, "refresh")
    /\ UNCHANGED <<rows, mail, byHand, unscheduled>>
    /\ LET row == rows[req[c].job]
       IN  \E r \in Served \cup {Idle} :
              /\ Moves(c, r)
              /\ IF row.status \in Pending /\ IsReady(row)
                 THEN /\ r # Idle /\ r.step = "activate" /\ r.job = req[c].job
                      /\ r.loaded = row
                      /\ r.mem.status = "active" /\ r.mem.next_check_at # None
                 ELSE r = Idle

\* The end of a request that commits nothing (more).
Leaves(c) ==
    /\ req[c] # Idle
    /\ Moves(c, Idle)
    /\ UNCHANGED <<rows, byHand, unscheduled>>

\* Every client's row is there, and so is the notice it is about to emit.
Underway ==
    \A c \in Clients : req[c] # Idle =>
        /\ rows[req[c].job] # NoRow
        /\ req[c].step = "notify" => req[c].kind # NoNotice

ApiTyped == ApiTypeOK /\ Underway

\* Both ways of making a job.
LEMMA InsertStep ==
    ASSUME ApiTyped, NEW c \in Clients, NEW j \in Jobs, CreateJob(c, j) \/ IngestEmail(c, j)
    PROVE  Inserts(c) /\ UNCHANGED <<checks, plan, clock>> /\ requests' = requests + 1
  <1>0. clock \in Maybe(Time) /\ clock # None /\ None \in Maybe(Time)
    BY FloorAssumption DEF ApiTyped, ApiTypeOK, StoreTypeOK, Maybe, Time
  <1>1. \A deadline \in Maybe(PatchDeadlines) : deadline \in Maybe(Time)
    BY JobApiAssumption DEF Maybe
  <1>2. ASSUME NEW row \in Row, NEW kind \in EventKinds, Insert(c, j, row, kind),
               row.status \in {"active", "pending_hotel", "pending_info"},
               row.status # "active" => ~IsReady(row),
               row.next_check_at = None <=> row.status # "active"
        PROVE  Inserts(c) /\ UNCHANGED <<checks, plan, clock>> /\ requests' = requests + 1
    <2>1. PICK r : r = Request("notify", j, row, row, kind)
      OBVIOUS
    <2>2. kind # NoNotice /\ kind \in EventKinds \cup {NoNotice} /\ "notify" \in Steps
      BY DEF EventKinds, NoNotice, Steps
    <2>3. r \in Served /\ r.step = "notify" /\ r.kind = kind /\ r.job = j
      BY <2>1, <2>2, RequestType
    <2>4. QED
      BY <1>2, <2>1, <2>2, <2>3 DEF Insert, Begin, Inserts, Moves
  <1>3. CASE CreateJob(c, j)
    <2>1. PICK hotel \in Maybe(Hotels), refundable \in BOOLEAN,
               deadline \in Maybe(PatchDeadlines) :
             Insert(c, j, NewRow("active", hotel, refundable, deadline, clock),
                    "BookingMonitored")
      BY <1>3 DEF CreateJob
    <2>2. PICK row : row = NewRow("active", hotel, refundable, deadline, clock)
      OBVIOUS
    <2>3. row \in Row
      BY <1>0, <1>1, <2>2, NewRowType DEF JobStatus, Monitored
    <2>4. row.status = "active" /\ row.next_check_at = clock
      BY <2>2 DEF NewRow
    <2>5. "BookingMonitored" \in EventKinds
      BY DEF EventKinds
    <2>6. QED
      BY <1>0, <1>2, <2>1, <2>2, <2>3, <2>4, <2>5
  <1>4. CASE IngestEmail(c, j)
    <2>1. PICK hotel \in Maybe(Hotels), deadline \in Maybe(PatchDeadlines) :
            IF hotel = None
            THEN Insert(c, j, NewRow("pending_hotel", None, TRUE, deadline, None),
                        "HotelResolutionNeeded")
            ELSE IF deadline = None
            THEN Insert(c, j, NewRow("pending_info", hotel, TRUE, None, None),
                        "CancellationDeadlineNeeded")
            ELSE Insert(c, j, NewRow("active", hotel, TRUE, deadline, clock),
                        "BookingMonitored")
      BY <1>4 DEF IngestEmail
    <2>2. /\ {"HotelResolutionNeeded", "CancellationDeadlineNeeded", "BookingMonitored"}
                \subseteq EventKinds
          /\ {"pending_hotel", "pending_info", "active"} \subseteq JobStatus
          /\ None \in Maybe(Hotels) /\ TRUE \in BOOLEAN
      BY DEF EventKinds, JobStatus, Pending, Monitored, Maybe
    <2>3. CASE hotel = None
      <3>1. PICK row : row = NewRow("pending_hotel", None, TRUE, deadline, None)
        OBVIOUS
      <3>2. row \in Row
        BY <1>0, <1>1, <2>2, <3>1, NewRowType
      <3>3. row.status = "pending_hotel" /\ row.next_check_at = None /\ row.hotel_id = None
        BY <3>1 DEF NewRow
      <3>4. QED
        BY <1>2, <2>1, <2>2, <2>3, <3>1, <3>2, <3>3 DEF IsReady
    <2>4. CASE hotel # None /\ deadline = None
      <3>1. PICK row : row = NewRow("pending_info", hotel, TRUE, None, None)
        OBVIOUS
      <3>2. row \in Row
        BY <1>0, <2>2, <3>1, NewRowType
      <3>3. /\ row.status = "pending_info" /\ row.next_check_at = None
            /\ row.cancellation_deadline = None
        BY <3>1 DEF NewRow
      <3>4. QED
        BY <1>2, <2>1, <2>2, <2>4, <3>1, <3>2, <3>3 DEF IsReady
    <2>5. CASE hotel # None /\ deadline # None
      <3>1. PICK row : row = NewRow("active", hotel, TRUE, deadline, clock)
        OBVIOUS
      <3>2. row \in Row
        BY <1>0, <1>1, <2>2, <3>1, NewRowType
      <3>3. row.status = "active" /\ row.next_check_at = clock
        BY <3>1 DEF NewRow
      <3>4. QED
        BY <1>0, <1>2, <2>1, <2>2, <2>5, <3>1, <3>2, <3>3
    <2>6. QED
      BY <2>3, <2>4, <2>5
  <1>5. QED
    BY <1>3, <1>4

\* The first read of a PATCH or a DELETE.
LEMMA LoadStep ==
    ASSUME ApiTyped, NEW c \in Clients, NEW j \in Jobs, BeginPatch(c, j) \/ BeginCancel(c, j)
    PROVE  Loads(c) /\ UNCHANGED <<checks, plan, clock>> /\ requests' = requests + 1
  <1>1. /\ rows[j] \in Row /\ rows[j] # NoRow /\ UNCHANGED <<storeVars, byHand, unscheduled>>
        /\ req[c] = Idle /\ requests' = requests + 1
    BY DEF ApiTyped, ApiTypeOK, StoreTypeOK, BeginPatch, BeginCancel, Begin
  <1>2. {"patch", "cancel"} \subseteq Steps /\ NoNotice \in EventKinds \cup {NoNotice}
    BY DEF Steps
  <1>3. CASE BeginPatch(c, j)
    <2>1. PICK payload \in Payload(rows[j]) :
             req' = [req EXCEPT ![c] =
                       Request("patch", j, rows[j], Patched(rows[j], payload), NoNotice)]
      BY <1>3 DEF BeginPatch
    <2>2. PICK row : row = Patched(rows[j], payload)
      OBVIOUS
    <2>3. row \in Row /\ row.next_check_at = rows[j].next_check_at
      BY <1>1, <2>2, PatchedType
    <2>4. PICK r : r = Request("patch", j, rows[j], row, NoNotice)
      OBVIOUS
    <2>5. /\ r \in Served /\ r.step = "patch" /\ r.job = j
          /\ r.loaded = rows[j] /\ r.mem = row
      BY <1>1, <1>2, <2>3, <2>4, RequestType
    <2>6. Loads(c)
      BY <1>1, <2>1, <2>2, <2>3, <2>4, <2>5 DEF Loads, Moves, storeVars
    <2>7. QED
      BY <1>1, <2>6 DEF storeVars
  <1>4. CASE BeginCancel(c, j)
    <2>1. PICK row : row = [rows[j] EXCEPT !.status = "cancelled", !.next_check_at = None]
      OBVIOUS
    <2>2. row \in Row
      BY <1>1, <2>1 DEF Row, JobStatus, Maybe
    <2>3. PICK r : r = Request("cancel", j, rows[j], row, NoNotice)
      OBVIOUS
    <2>4. /\ r \in Served /\ r.step = "cancel" /\ r.job = j
          /\ r.loaded = rows[j] /\ r.mem = row
      BY <1>1, <1>2, <2>2, <2>3, RequestType
    <2>5. Loads(c)
      BY <1>1, <1>4, <2>1, <2>3, <2>4 DEF BeginCancel, Loads, Moves, storeVars
    <2>6. QED
      BY <1>1, <2>5 DEF storeVars
  <1>5. QED
    BY <1>3, <1>4

\* The three commits.
LEMMA CommitStep ==
    ASSUME ApiTyped, NEW c \in Clients
    PROVE  /\ CommitPatch(c) => /\ Commits(c, "patch", "refresh")
                                /\ unscheduled' = unscheduled
           /\ CommitActivation(c) => /\ Commits(c, "activate", "notify")
                                     /\ UNCHANGED <<byHand, unscheduled>>
           /\ CommitCancel(c) => Commits(c, "cancel", "over") /\ byHand' = byHand
  <1>1. ASSUME req[c] # Idle, NEW step \in {"refresh", "notify"}
        PROVE  LET r == [req[c] EXCEPT !.step = step]
               IN  r \in Served /\ r # Idle /\ r.step = step /\ r.job = req[c].job
    BY <1>1, ServedRequest, JobApiAssumption DEF ApiTyped, ApiTypeOK, Served, Steps
  <1>2. ASSUME req[c] # Idle
        PROVE  LET r == [req[c] EXCEPT !.step = "notify", !.kind = "BookingMonitored"]
               IN  /\ r \in Served /\ r # Idle /\ r.step = "notify" /\ r.job = req[c].job
                   /\ r.kind # NoNotice
    BY <1>2, ServedRequest, JobApiAssumption
    DEF ApiTyped, ApiTypeOK, Served, Steps, EventKinds, NoNotice
  <1>3. ASSUME CommitPatch(c)
        PROVE  Commits(c, "patch", "refresh") /\ unscheduled' = unscheduled
    <2>1. PICK r : r = [req[c] EXCEPT !.step = "refresh"]
      OBVIOUS
    <2>2. r \in Served /\ r # Idle /\ r.step = "refresh" /\ r.job = req[c].job
      BY <1>1, <1>3, <2>1 DEF CommitPatch, InStep
    <2>3. Moves(c, r)
      BY <1>3, <2>1 DEF CommitPatch, Moves, ApiTyped, ApiTypeOK
    <2>4. QED
      BY <1>3, <2>2, <2>3 DEF CommitPatch, CommitRequest, Commits
  <1>4. ASSUME CommitActivation(c)
        PROVE  Commits(c, "activate", "notify") /\ UNCHANGED <<byHand, unscheduled>>
    <2>1. PICK r : r = [req[c] EXCEPT !.step = "notify", !.kind = "BookingMonitored"]
      OBVIOUS
    <2>2. /\ r \in Served /\ r # Idle /\ r.step = "notify" /\ r.job = req[c].job
          /\ r.kind # NoNotice
      BY <1>2, <1>4, <2>1 DEF CommitActivation, InStep
    <2>3. Moves(c, r)
      BY <1>4, <2>1 DEF CommitActivation, Moves, ApiTyped, ApiTypeOK
    <2>4. QED
      BY <1>4, <2>2, <2>3 DEF CommitActivation, CommitRequest, Commits
  <1>5. ASSUME CommitCancel(c) PROVE Commits(c, "cancel", "over") /\ byHand' = byHand
    BY <1>5 DEF CommitCancel, CommitRequest, Commits, Moves
  <1>6. QED
    BY <1>3, <1>4, <1>5

\* The decision after a PATCH.
LEMMA RefreshStep ==
    ASSUME ApiTyped, NEW c \in Clients, RefreshPatched(c)
    PROVE  Refreshes(c) /\ UNCHANGED <<storeVars, requests>>
  <1> DEFINE j == req[c].job
             row == rows[j]
             active == [row EXCEPT !.status = "active", !.next_check_at = clock]
  <1>1. InStep(c, "refresh") /\ UNCHANGED <<storeVars, byHand, unscheduled, requests>>
    BY DEF RefreshPatched
  <1>2. j \in Jobs /\ row \in Row /\ clock \in Time /\ clock # None
    BY <1>1, ServedRequest, FloorAssumption
    DEF ApiTyped, ApiTypeOK, StoreTypeOK, Underway, InStep, Time
  <1>3. /\ active \in Row /\ active.status = "active" /\ active.next_check_at # None
    BY <1>2 DEF Row, JobStatus, Monitored, Maybe
  <1>4. "activate" \in Steps /\ NoNotice \in EventKinds \cup {NoNotice}
    BY DEF Steps
  <1>5. PICK r : r = IF row.status \in Pending /\ IsReady(row)
                     THEN Request("activate", j, row, active, NoNotice) ELSE Idle
    OBVIOUS
  <1>6. Moves(c, r)
    BY <1>5 DEF RefreshPatched, Moves
  <1>7. row.status \in Pending /\ IsReady(row) =>
           /\ r \in Served /\ r # Idle /\ r.step = "activate" /\ r.job = j
           /\ r.loaded = row /\ r.mem = active
    <2> HIDE DEF active, row, j
    <2>1. QED
      BY <1>2, <1>3, <1>4, <1>5, RequestType
  <1>8. Refreshes(c)
    <2>1. r \in Served \cup {Idle}
      BY <1>5, <1>7
    <2>2. IF row.status \in Pending /\ IsReady(row)
          THEN /\ r # Idle /\ r.step = "activate" /\ r.job = j /\ r.loaded = row
               /\ r.mem.status = "active" /\ r.mem.next_check_at # None
          ELSE r = Idle
      <3> HIDE DEF active, row, j
      <3>1. QED
        BY <1>3, <1>5, <1>7
    <2>3. QED
      BY <1>1, <1>6, <2>1, <2>2 DEF Refreshes, storeVars
  <1>9. QED
    BY <1>1, <1>8

\* Every step of a request is one of these.
LEMMA RequestSteps ==
    ASSUME ApiTyped, NEW c \in Clients
    PROVE  /\ RequestStep(c) =>
                \/ Inserts(c)
                \/ Loads(c)
                \/ CommitPatch(c) /\ Commits(c, "patch", "refresh") /\ unscheduled' = unscheduled
                \/ Refreshes(c)
                \/ CommitActivation(c) /\ Commits(c, "activate", "notify")
                   /\ UNCHANGED <<byHand, unscheduled>>
                \/ CommitCancel(c) /\ Commits(c, "cancel", "over") /\ byHand' = byHand
                \/ Notify(c) /\ Leaves(c)
           /\ LoseRequest(c) => Leaves(c)
  <1>1. Notify(c) \/ LoseRequest(c) => Leaves(c)
    BY DEF Notify, LoseRequest, Leaves, Moves, InStep, storeVars
  <1>2. QED
    BY <1>1, InsertStep, LoadStep, CommitStep, RefreshStep DEF RequestStep

-----------------------------------------------------------------------------
(* Type correctness. *)

\* Whatever it does, a request leaves the rows that are there, and typed.
LEMMA RequestKeepsRows ==
    ASSUME ApiTyped, NEW c \in Clients, RequestStep(c) \/ LoseRequest(c)
    PROVE  /\ rows' \in [Jobs -> Row \cup {NoRow}]
           /\ \A j \in Jobs : rows[j] # NoRow => rows'[j] # NoRow
           /\ req' \in [Clients -> Served \cup {Idle}]
           /\ \A d \in Clients \ {c} : req'[d] = req[d]
           /\ req'[c] # Idle => /\ rows'[req'[c].job] # NoRow
                                /\ req'[c].step = "notify" => req'[c].kind # NoNotice
  <1>0. /\ rows \in [Jobs -> Row \cup {NoRow}] /\ req \in [Clients -> Served \cup {Idle}]
        /\ NoRow \notin Row
    BY StoreAssumption DEF ApiTyped, ApiTypeOK, StoreTypeOK
  <1>1. ASSUME NEW r \in Served \cup {Idle}, Moves(c, r)
        PROVE  /\ req' \in [Clients -> Served \cup {Idle}] /\ req'[c] = r
               /\ \A d \in Clients \ {c} : req'[d] = req[d]
    BY <1>0, <1>1 DEF Moves
  <1>2. CASE Inserts(c)
    <2>1. PICK j \in Jobs, row \in Row, r \in Served :
             /\ Moves(c, r) /\ r.step = "notify" /\ r.kind # NoNotice /\ r.job = j
             /\ rows[j] = NoRow /\ rows' = [rows EXCEPT ![j] = row]
      BY <1>2 DEF Inserts
    <2>2. QED
      BY <1>0, <1>1, <2>1
  <1>3. CASE Loads(c)
    <2>1. PICK j \in Jobs, r \in Served :
             /\ Moves(c, r) /\ r.step # "notify" /\ r.job = j
             /\ rows[j] # NoRow /\ rows' = rows
      BY <1>3 DEF Loads
    <2>2. QED
      BY <1>0, <1>1, <2>1
  <1>4. ASSUME NEW step, NEW next, Commits(c, step, next)
        PROVE  /\ rows' \in [Jobs -> Row \cup {NoRow}]
               /\ \A j \in Jobs : rows[j] # NoRow => rows'[j] # NoRow
               /\ rows'[req[c].job] # NoRow
    <2>1. /\ req[c].job \in Jobs /\ req[c].loaded \in Row /\ req[c].mem \in Row
          /\ rows[req[c].job] \in Row
      BY <1>0, <1>4, ServedRequest DEF Commits, InStep, ApiTyped, Underway
    <2>2. Flush(rows[req[c].job], req[c].loaded, req[c].mem) \in Row
      BY <2>1, RequestFlush
    <2>3. QED
      BY <1>0, <1>4, <2>1, <2>2 DEF Commits
  <1>5. CASE Commits(c, "patch", "refresh")
    <2>1. PICK r \in Served : Moves(c, r) /\ r.step = "refresh" /\ r.job = req[c].job
      BY <1>5 DEF Commits
    <2>2. QED
      BY <1>1, <1>4, <1>5, <2>1
  <1>6. CASE Commits(c, "activate", "notify")
    <2>1. PICK r \in Served :
             Moves(c, r) /\ r.step = "notify" /\ r.job = req[c].job /\ r.kind # NoNotice
      BY <1>6 DEF Commits
    <2>2. QED
      BY <1>1, <1>4, <1>6, <2>1
  <1>7. CASE Commits(c, "cancel", "over")
    <2>1. Moves(c, Idle)
      BY <1>7 DEF Commits
    <2>2. QED
      BY <1>1, <1>4, <1>7, <2>1
  <1>8. CASE Refreshes(c)
    <2>1. PICK r \in Served \cup {Idle} :
             /\ Moves(c, r) /\ rows' = rows
             /\ r # Idle => r.step = "activate" /\ r.job = req[c].job
      BY <1>8 DEF Refreshes
    <2>2. req[c].job \in Jobs /\ rows[req[c].job] # NoRow
      BY <1>0, <1>8, ServedRequest DEF Refreshes, InStep, ApiTyped, Underway
    <2>3. QED
      BY <1>0, <1>1, <2>1, <2>2
  <1>9. CASE Leaves(c)
    BY <1>0, <1>1, <1>9 DEF Leaves
  <1>10. QED
    BY <1>2, <1>3, <1>5, <1>6, <1>7, <1>8, <1>9, RequestSteps

\* A request keeps the types, and so does what it leaves underway.
LEMMA RequestKeepsTypes ==
    ASSUME ApiTyped, NEW c \in Clients, RequestStep(c) \/ LoseRequest(c)
    PROVE  ApiTyped'
  <1>1. Underway'
    <2>1. ASSUME NEW d \in Clients, req'[d] # Idle
          PROVE  /\ rows'[req'[d].job] # NoRow
                 /\ req'[d].step = "notify" => req'[d].kind # NoNotice
      <3>1. CASE d = c
        <4>1. req'[c] # Idle => /\ rows'[req'[c].job] # NoRow
                                /\ req'[c].step = "notify" => req'[c].kind # NoNotice
          BY RequestKeepsRows
        <4>2. QED
          BY <2>1, <3>1, <4>1
      <3>2. CASE d # c
        <4>1. req'[d] = req[d] /\ \A j \in Jobs : rows[j] # NoRow => rows'[j] # NoRow
          BY <3>2, RequestKeepsRows
        <4>2. req[d].job \in Jobs
          BY <2>1, <4>1, ServedRequest DEF ApiTyped, ApiTypeOK
        <4>3. QED
          BY <2>1, <4>1, <4>2 DEF ApiTyped, Underway
      <3>3. QED
        BY <3>1, <3>2
    <2>2. QED
      BY <2>1 DEF Underway
  <1>2. UNCHANGED <<checks, plan, clock>>
    BY InsertStep, LoadStep, RefreshStep
    DEF RequestStep, LoseRequest, CommitPatch, CommitActivation, CommitCancel, Notify, storeVars
  <1>3. requests' \in Nat
    <2>1. requests' = requests \/ requests' = requests + 1
      BY InsertStep, LoadStep, RefreshStep
      DEF RequestStep, LoseRequest, CommitPatch, CommitActivation, CommitCancel, Notify
    <2>2. QED
      BY <2>1 DEF ApiTyped, ApiTypeOK
  <1>4. byHand' \subseteq Jobs /\ unscheduled' \subseteq Jobs
    <2>1. req[c] # Idle => req[c].job \in Jobs
      BY ServedRequest DEF ApiTyped, ApiTypeOK
    <2>2. CASE UNCHANGED <<byHand, unscheduled>>
      BY <2>2 DEF ApiTyped, ApiTypeOK
    <2>3. CASE CommitPatch(c) /\ unscheduled' = unscheduled
      BY <2>1, <2>3 DEF CommitPatch, InStep, ApiTyped, ApiTypeOK
    <2>4. CASE CommitCancel(c) /\ byHand' = byHand
      BY <2>1, <2>4 DEF CommitCancel, InStep, ApiTyped, ApiTypeOK
    <2>5. QED
      BY <2>2, <2>3, <2>4, RequestSteps DEF Inserts, Loads, Refreshes, Leaves
  <1>5. mail' \in [Jobs -> Seq(Event)]
    <2>1. mail \in [Jobs -> Seq(Event)]
      BY DEF ApiTyped, ApiTypeOK, StoreTypeOK
    <2>2. CASE Notify(c)
      <3>1. req[c].job \in Jobs /\ Notice(req[c].kind) \in Event
        BY <2>2, ServedRequest
        DEF Notify, InStep, ApiTyped, ApiTypeOK, Underway, Served, Notice, Event, Maybe
      <3>2. PICK event : event = Notice(req[c].kind)
        OBVIOUS
      <3>3. QED
        BY <2>1, <2>2, <3>1, <3>2 DEF Notify, Emit
    <2>3. CASE mail' = mail
      BY <2>1, <2>3
    <2>4. QED
      BY <2>2, <2>3, RequestSteps DEF Inserts, Loads, Refreshes, Commits, LoseRequest, storeVars
  <1>6. QED
    BY <1>1, <1>2, <1>3, <1>4, <1>5, RequestKeepsRows DEF ApiTyped, ApiTypeOK, StoreTypeOK

\* The empty database.
LEMMA ApiInitTypes == StoreInit /\ RequestsInit => ApiTyped
  <1> SUFFICES ASSUME StoreInit, RequestsInit PROVE ApiTyped
    OBVIOUS
  <1>1. StoreTypeOK
    BY DEF StoreInit, StoreTypeOK, NoHistory, History, PlanStatus, Time
  <1>2. QED
    BY <1>1 DEF RequestsInit, ApiTyped, ApiTypeOK, Underway

\* Every step of the API, and time passing.
LEMMA ApiKeepsTypes == ApiTyped /\ [ApiNext]_<<storeVars, apiVars>> => ApiTyped'
  <1> SUFFICES ASSUME ApiTyped, [ApiNext]_<<storeVars, apiVars>> PROVE ApiTyped'
    OBVIOUS
  <1>1. CASE UNCHANGED <<storeVars, apiVars>>
    BY <1>1 DEF storeVars, apiVars, ApiTyped, ApiTypeOK, StoreTypeOK, Underway
  <1>2. CASE Tick /\ UNCHANGED apiVars
    BY <1>2 DEF Tick, apiVars, ApiTyped, ApiTypeOK, StoreTypeOK, Underway, Time
  <1>3. QED
    BY <1>1, <1>2, RequestKeepsTypes DEF ApiNext

\* Requests, rows and mail keep their types, for any number of clients.
THEOREM ApiTypeCorrect == ApiSpec => []ApiTypeOK
  <1>1. ApiInit => ApiTyped
    BY ApiInitTypes DEF ApiInit
  <1>2. ApiTyped => ApiTypeOK
    BY DEF ApiTyped
  <1>3. QED
    BY <1>1, <1>2, ApiKeepsTypes, PTL DEF ApiSpec

-----------------------------------------------------------------------------
(* What a request in progress is going to write. *)

\* An activation turns the pending job it read into a scheduled, active one; a
\* cancel writes the status and the schedule; no PATCH writes the schedule.
RequestIsStep ==
    \A c \in Clients : req[c] # Idle =>
        LET r == req[c]
        IN  /\ r.step = "patch" => r.mem.next_check_at = r.loaded.next_check_at
            /\ r.step = "activate" =>
                  /\ r.loaded.status \in Pending
                  /\ r.mem.status = "active"
                  /\ r.mem.next_check_at # None
            /\ r.step = "cancel" =>
                  r.mem = [r.loaded EXCEPT !.status = "cancelled", !.next_check_at = None]

\* Only the client that takes a step has a new request.
LEMMA RequestKeepsStep ==
    ASSUME ApiTyped, RequestIsStep, NEW c \in Clients, RequestStep(c) \/ LoseRequest(c)
    PROVE  RequestIsStep'
  <1>1. req \in [Clients -> Served \cup {Idle}]
    BY DEF ApiTyped, ApiTypeOK
  <1>2. ASSUME NEW r \in Served \cup {Idle}, Moves(c, r),
               r # Idle =>
                  /\ r.step = "patch" => r.mem.next_check_at = r.loaded.next_check_at
                  /\ r.step = "activate" =>
                        /\ r.loaded.status \in Pending
                        /\ r.mem.status = "active"
                        /\ r.mem.next_check_at # None
                  /\ r.step = "cancel" =>
                        r.mem = [r.loaded EXCEPT !.status = "cancelled", !.next_check_at = None]
        PROVE  RequestIsStep'
    <2>1. req'[c] = r /\ \A d \in Clients \ {c} : req'[d] = req[d]
      BY <1>1, <1>2 DEF Moves
    <2>2. ASSUME NEW d \in Clients \ {c}, req[d] # Idle
          PROVE  /\ req[d].step = "patch" =>
                       req[d].mem.next_check_at = req[d].loaded.next_check_at
                 /\ req[d].step = "activate" =>
                       /\ req[d].loaded.status \in Pending
                       /\ req[d].mem.status = "active"
                       /\ req[d].mem.next_check_at # None
                 /\ req[d].step = "cancel" =>
                       req[d].mem = [req[d].loaded EXCEPT !.status = "cancelled",
                                                          !.next_check_at = None]
      BY <2>2 DEF RequestIsStep
    <2>3. \A d \in Clients \ {c} : req'[d] = req[d] /\ (req'[d] # Idle => req[d] # Idle)
      BY <2>1
    <2> SUFFICES ASSUME NEW d \in Clients, req'[d] # Idle
                 PROVE  /\ req'[d].step = "patch" =>
                              req'[d].mem.next_check_at = req'[d].loaded.next_check_at
                        /\ req'[d].step = "activate" =>
                              /\ req'[d].loaded.status \in Pending
                              /\ req'[d].mem.status = "active"
                              /\ req'[d].mem.next_check_at # None
                        /\ req'[d].step = "cancel" =>
                              req'[d].mem = [req'[d].loaded EXCEPT !.status = "cancelled",
                                                                   !.next_check_at = None]
      BY DEF RequestIsStep
    <2>4. CASE d = c
      BY <1>2, <2>1, <2>4
    <2>5. CASE d # c
      BY <2>2, <2>3, <2>5
    <2>6. QED
      BY <2>4, <2>5
  <1>3. CASE Inserts(c)
    BY <1>2, <1>3 DEF Inserts
  <1>4. CASE Loads(c)
    BY <1>2, <1>4 DEF Loads
  <1>5. CASE Commits(c, "patch", "refresh")
    <2>1. PICK r \in Served : Moves(c, r) /\ r.step = "refresh"
      BY <1>5 DEF Commits
    <2>2. QED
      BY <1>2, <2>1
  <1>6. CASE Commits(c, "activate", "notify")
    <2>1. PICK r \in Served : Moves(c, r) /\ r.step = "notify"
      BY <1>6 DEF Commits
    <2>2. QED
      BY <1>2, <2>1
  <1>7. CASE Commits(c, "cancel", "over")
    <2>1. Moves(c, Idle)
      BY <1>7 DEF Commits
    <2>2. QED
      BY <1>2, <2>1
  <1>8. CASE Refreshes(c)
    <2>1. PICK r \in Served \cup {Idle} :
             /\ Moves(c, r)
             /\ r # Idle => /\ r.step = "activate" /\ r.loaded.status \in Pending
                            /\ r.mem.status = "active" /\ r.mem.next_check_at # None
      BY <1>8 DEF Refreshes
    <2>2. QED
      BY <1>2, <2>1
  <1>9. CASE Leaves(c)
    BY <1>2, <1>9 DEF Leaves
  <1>10. QED
    BY <1>3, <1>4, <1>5, <1>6, <1>7, <1>8, <1>9, RequestSteps

\* The API alone, requests and all.
ApiInv == ApiTyped /\ RequestIsStep

LEMMA ApiKeepsInv == ApiInv /\ [ApiNext]_<<storeVars, apiVars>> => ApiInv'
  <1> SUFFICES ASSUME ApiInv, [ApiNext]_<<storeVars, apiVars>> PROVE RequestIsStep'
    BY ApiKeepsTypes DEF ApiInv
  <1>1. CASE req' = req
    BY <1>1 DEF ApiInv, RequestIsStep
  <1>2. QED
    BY <1>1, RequestKeepsStep DEF ApiNext, ApiInv, apiVars

LEMMA ApiInitInv == ApiInit => ApiInv
  BY ApiInitTypes DEF ApiInit, ApiInv, RequestsInit, RequestIsStep

\* The columns a commit leaves.
LEMMA CommitColumns ==
    ASSUME ApiInv, NEW c \in Clients, NEW step, NEW next, Commits(c, step, next)
    PROVE  LET r == req[c]
               row == rows[r.job]
               new == rows'[r.job]
           IN  /\ r \in Served /\ r.job \in Jobs /\ row \in Row /\ row # NoRow
               /\ \A k \in Jobs : k # r.job => rows'[k] = rows[k]
               /\ step = "patch" =>
                     /\ new.next_check_at = row.next_check_at
                     /\ new.status = IF WritesStatus(r) THEN r.mem.status ELSE row.status
               /\ step = "activate" =>
                     /\ r.loaded.status \in Pending
                     /\ new.status = "active"
                     /\ r.loaded.next_check_at = None => new.next_check_at # None
               /\ step = "cancel" =>
                     /\ new.status = IF r.loaded.status = "cancelled" THEN row.status
                                     ELSE "cancelled"
                     /\ new.next_check_at = IF r.loaded.next_check_at = None
                                            THEN row.next_check_at ELSE None
                     /\ IsReady(new) <=> IsReady(row)
  <1> DEFINE r == req[c]
             row == rows[r.job]
             new == rows'[r.job]
  <1>1. /\ r \in Served /\ r.job \in Jobs /\ r.loaded \in Row /\ r.mem \in Row
        /\ row \in Row /\ row # NoRow /\ r # Idle /\ r.step = step
    BY ServedRequest
    DEF Commits, InStep, ApiInv, ApiTyped, Underway, ApiTypeOK, StoreTypeOK
  <1>2. new = Flush(row, r.loaded, r.mem) /\ \A k \in Jobs : k # r.job => rows'[k] = rows[k]
    BY <1>1 DEF Commits, ApiInv, ApiTyped, ApiTypeOK, StoreTypeOK
  <1>3. /\ new.status = IF r.mem.status = r.loaded.status THEN row.status ELSE r.mem.status
        /\ new.next_check_at = IF r.mem.next_check_at = r.loaded.next_check_at
                               THEN row.next_check_at ELSE r.mem.next_check_at
        /\ new.refundable = IF r.mem.refundable = r.loaded.refundable
                            THEN row.refundable ELSE r.mem.refundable
        /\ new.hotel_id = IF r.mem.hotel_id = r.loaded.hotel_id
                          THEN row.hotel_id ELSE r.mem.hotel_id
        /\ new.cancellation_deadline =
              IF r.mem.cancellation_deadline = r.loaded.cancellation_deadline
              THEN row.cancellation_deadline ELSE r.mem.cancellation_deadline
    BY <1>2 DEF Flush
  <1>4. /\ step = "patch" => r.mem.next_check_at = r.loaded.next_check_at
        /\ step = "activate" => /\ r.loaded.status \in Pending /\ r.mem.status = "active"
                                /\ r.mem.next_check_at # None
        /\ step = "cancel" =>
              r.mem = [r.loaded EXCEPT !.status = "cancelled", !.next_check_at = None]
    BY <1>1 DEF ApiInv, RequestIsStep
  <1>5. step = "cancel" =>
           /\ r.mem.status = "cancelled" /\ r.mem.next_check_at = None
           /\ r.mem.refundable = r.loaded.refundable
           /\ r.mem.hotel_id = r.loaded.hotel_id
           /\ r.mem.cancellation_deadline = r.loaded.cancellation_deadline
    BY <1>1, <1>4 DEF Row
  <1> HIDE DEF r, row, new
  <1>6. QED
    <2>1. step = "patch" =>
             /\ new.next_check_at = row.next_check_at
             /\ new.status = IF WritesStatus(r) THEN r.mem.status ELSE row.status
      BY <1>1, <1>3, <1>4 DEF WritesStatus
    <2>2. step = "activate" =>
             /\ r.loaded.status \in Pending
             /\ new.status = "active"
             /\ r.loaded.next_check_at = None => new.next_check_at # None
      BY <1>3, <1>4 DEF Pending
    <2>3. step = "cancel" =>
             /\ new.status = IF r.loaded.status = "cancelled" THEN row.status ELSE "cancelled"
             /\ new.next_check_at = IF r.loaded.next_check_at = None
                                    THEN row.next_check_at ELSE None
      BY <1>3, <1>5
    <2>4. step = "cancel" => (IsReady(new) <=> IsReady(row))
      BY <1>3, <1>5 DEF IsReady
    <2>5. QED
      BY <1>1, <1>2, <2>1, <2>2, <2>3, <2>4 DEF r, row, new

\* What a step of a request does to a row that is there.
LEMMA RequestRow ==
    ASSUME ApiInv, NEW c \in Clients, RequestStep(c) \/ LoseRequest(c),
           NEW j \in Jobs, rows[j] # NoRow
    PROVE  LET r == req[c]
               row == rows[j]
               new == rows'[j]
           IN  \/ new = row
               \/ /\ InStep(c, "patch") /\ r.job = j /\ CommitPatch(c)
                  /\ new.next_check_at = row.next_check_at
                  /\ new.status = IF WritesStatus(r) THEN r.mem.status ELSE row.status
               \/ /\ InStep(c, "activate") /\ r.job = j
                  /\ r.loaded.status \in Pending
                  /\ new.status = "active"
                  /\ r.loaded.next_check_at = None => new.next_check_at # None
               \/ /\ InStep(c, "cancel") /\ r.job = j /\ CommitCancel(c)
                  /\ new.status = IF r.loaded.status = "cancelled" THEN row.status
                                  ELSE "cancelled"
                  /\ new.next_check_at = IF r.loaded.next_check_at = None
                                         THEN row.next_check_at ELSE None
                  /\ IsReady(new) <=> IsReady(row)
  <1>0. ApiTyped
    BY DEF ApiInv
  <1>1. CASE Inserts(c) \/ Loads(c) \/ Refreshes(c) \/ Leaves(c)
    BY <1>0, <1>1 DEF Inserts, Loads, Refreshes, Leaves, ApiTyped, ApiTypeOK, StoreTypeOK
  <1>2. CASE CommitPatch(c) /\ Commits(c, "patch", "refresh")
    <2>1. InStep(c, "patch")
      BY <1>2 DEF Commits
    <2>2. QED
      BY <1>2, <2>1, CommitColumns
  <1>3. CASE Commits(c, "activate", "notify")
    <2>1. InStep(c, "activate")
      BY <1>3 DEF Commits
    <2>2. QED
      BY <1>3, <2>1, CommitColumns
  <1>4. CASE CommitCancel(c) /\ Commits(c, "cancel", "over")
    <2>1. InStep(c, "cancel")
      BY <1>4 DEF Commits
    <2>2. QED
      BY <1>4, <2>1, CommitColumns
  <1>5. QED
    BY <1>0, <1>1, <1>2, <1>3, <1>4, RequestSteps

-----------------------------------------------------------------------------
(* Cancelled for good, but for what was read before. *)

\* A request un-cancels a job only as OlderActivation or SetByClient say.
LEMMA RequestUncancels ==
    ASSUME ApiInv, NEW c \in Clients, RequestStep(c) \/ LoseRequest(c), NEW j \in Jobs,
           rows[j] # NoRow, rows[j].status = "cancelled", rows'[j].status # "cancelled"
    PROVE  OlderActivation(j) \/ SetByClient(j)
  <1>1. CASE /\ InStep(c, "patch") /\ req[c].job = j
             /\ rows'[j].status = IF WritesStatus(req[c]) THEN req[c].mem.status
                                  ELSE rows[j].status
    BY <1>1 DEF SetByClient, InStep
  <1>2. CASE /\ InStep(c, "activate") /\ req[c].job = j
             /\ req[c].loaded.status \in Pending
    BY <1>2 DEF OlderActivation
  <1>3. QED
    BY <1>1, <1>2, RequestRow

\* Cancel against PATCH, in any order of their reads and commits: update_job
\* reads the row again before it decides to activate, so only an activation
\* that had read the job as pending, or a client's own status, brings it back.
THEOREM CancelLostOnlyToOlderRequestAlways == ApiSpec => CancelLostOnlyToOlderRequest
  <1>1. ApiInv /\ [ApiNext]_<<storeVars, apiVars>> =>
           [\A j \in Jobs :
              rows[j] # NoRow /\ rows[j].status = "cancelled" /\ rows'[j].status # "cancelled"
                => OlderActivation(j) \/ SetByClient(j)]_<<storeVars, apiVars>>
    BY RequestUncancels DEF ApiNext, Tick
  <1>2. QED
    BY <1>1, ApiInitInv, ApiKeepsInv, PTL DEF ApiSpec, CancelLostOnlyToOlderRequest

-----------------------------------------------------------------------------
(* A pending job that has everything is on its way. *)

\* A request that is serving j on its way to the activation.
OnItsWay(c, j) == (InStep(c, "refresh") \/ InStep(c, "activate")) /\ req[c].job = j

\* A step makes a job ready only on its way to activating it, and drops it only
\* if it is not.
LEMMA RequestActivates ==
    ASSUME ApiInv, ReadyIsActivated, NEW c \in Clients, RequestStep(c)
    PROVE  ReadyIsActivated'
  <1> DEFINE Waiting(j) == rows[j] # NoRow /\ rows[j].status \in Pending /\ IsReady(rows[j])
  <1>0. /\ rows \in [Jobs -> Row \cup {NoRow}] /\ req \in [Clients -> Served \cup {Idle}]
        /\ NoRow \notin Row /\ Idle \notin Served
    BY StoreAssumption, JobApiAssumption DEF ApiInv, ApiTyped, ApiTypeOK, StoreTypeOK
  <1>1. SUFFICES ASSUME NEW j \in Jobs, Waiting(j)' PROVE \E d \in Clients : OnItsWay(d, j)'
    BY DEF ReadyIsActivated, OnItsWay
  <1>2. Waiting(j) => \E d \in Clients : OnItsWay(d, j)
    BY DEF ReadyIsActivated, OnItsWay
  <1>3. ASSUME NEW r \in Served \cup {Idle}, Moves(c, r)
        PROVE  /\ req'[c] = r
               /\ \A d \in Clients \ {c} : OnItsWay(d, j) => OnItsWay(d, j)'
    BY <1>0, <1>3 DEF Moves, OnItsWay, InStep
  <1>4. CASE Inserts(c)
    <2>1. PICK k \in Jobs, row \in Row, r \in Served :
             /\ req[c] = Idle /\ Moves(c, r)
             /\ rows[k] = NoRow /\ rows' = [rows EXCEPT ![k] = row]
             /\ row.status \in Pending => ~IsReady(row)
      BY <1>4 DEF Inserts, Pending
    <2>2. Waiting(j)
      BY <1>0, <1>1, <2>1
    <2>3. PICK d \in Clients : OnItsWay(d, j)
      BY <1>2, <2>2
    <2>4. d # c
      BY <2>1, <2>3 DEF OnItsWay, InStep
    <2>5. QED
      BY <1>3, <2>1, <2>3, <2>4
  <1>5. CASE Loads(c)
    <2>1. rows' = rows /\ req[c] = Idle /\ \E r \in Served : Moves(c, r)
      BY <1>5 DEF Loads
    <2>2. PICK d \in Clients : OnItsWay(d, j)
      BY <1>1, <1>2, <2>1
    <2>3. d # c
      BY <2>1, <2>2 DEF OnItsWay, InStep
    <2>4. QED
      BY <1>3, <2>1, <2>2, <2>3
  <1>6. CASE Commits(c, "patch", "refresh")
    <2>1. PICK r \in Served : Moves(c, r) /\ r.step = "refresh" /\ r.job = req[c].job
      BY <1>6 DEF Commits
    <2>2. InStep(c, "patch") /\ \A k \in Jobs : k # req[c].job => rows'[k] = rows[k]
      BY <1>6, CommitColumns DEF Commits
    <2>3. CASE j = req[c].job
      BY <1>0, <1>3, <2>1, <2>3 DEF OnItsWay, InStep
    <2>4. CASE j # req[c].job
      <3>1. PICK d \in Clients : OnItsWay(d, j)
        BY <1>1, <1>2, <2>2, <2>4
      <3>2. d # c
        BY <2>2, <3>1 DEF OnItsWay, InStep
      <3>3. QED
        BY <1>3, <2>1, <3>1, <3>2
    <2>5. QED
      BY <2>3, <2>4
  <1>7. CASE Refreshes(c)
    <2>1. PICK r \in Served \cup {Idle} :
             /\ Moves(c, r)
             /\ IF rows[req[c].job].status \in Pending /\ IsReady(rows[req[c].job])
                THEN r # Idle /\ r.step = "activate" /\ r.job = req[c].job
                ELSE r = Idle
      BY <1>7 DEF Refreshes
    <2>2. rows' = rows /\ InStep(c, "refresh")
      BY <1>7 DEF Refreshes
    <2>3. CASE j = req[c].job
      BY <1>0, <1>1, <1>3, <2>1, <2>2, <2>3 DEF OnItsWay, InStep
    <2>4. CASE j # req[c].job
      <3>1. PICK d \in Clients : OnItsWay(d, j)
        BY <1>1, <1>2, <2>2
      <3>2. d # c
        BY <2>4, <3>1 DEF OnItsWay
      <3>3. QED
        BY <1>3, <2>1, <3>1, <3>2
    <2>5. QED
      BY <2>3, <2>4
  <1>8. CASE Commits(c, "activate", "notify")
    <2>1. PICK r \in Served : Moves(c, r)
      BY <1>8 DEF Commits
    <2>2. /\ rows'[req[c].job].status = "active"
          /\ \A k \in Jobs : k # req[c].job => rows'[k] = rows[k]
      BY <1>8, CommitColumns
    <2>3. j # req[c].job
      BY <1>1, <2>2 DEF Pending
    <2>4. PICK d \in Clients : OnItsWay(d, j)
      BY <1>1, <1>2, <2>2, <2>3
    <2>5. d # c
      BY <2>3, <2>4 DEF OnItsWay
    <2>6. QED
      BY <1>3, <2>1, <2>4, <2>5
  <1>9. CASE Commits(c, "cancel", "over")
    <2>1. Moves(c, Idle) /\ InStep(c, "cancel")
      BY <1>9 DEF Commits
    <2>2. /\ rows'[req[c].job].status \in {rows[req[c].job].status, "cancelled"}
          /\ IsReady(rows'[req[c].job]) <=> IsReady(rows[req[c].job])
          /\ rows[req[c].job] # NoRow
          /\ \A k \in Jobs : k # req[c].job => rows'[k] = rows[k]
      BY <1>9, CommitColumns
    <2>3. Waiting(j)
      BY <1>1, <2>2 DEF Pending
    <2>4. PICK d \in Clients : OnItsWay(d, j)
      BY <1>2, <2>3
    <2>5. d # c
      BY <2>1, <2>4 DEF OnItsWay, InStep
    <2>6. QED
      BY <1>3, <2>1, <2>4, <2>5
  <1>10. CASE Notify(c) /\ Leaves(c)
    <2>1. Moves(c, Idle) /\ rows' = rows /\ InStep(c, "notify")
      BY <1>10 DEF Leaves, Notify
    <2>2. PICK d \in Clients : OnItsWay(d, j)
      BY <1>1, <1>2, <2>1
    <2>3. d # c
      BY <2>1, <2>2 DEF OnItsWay, InStep
    <2>4. QED
      BY <1>3, <2>1, <2>2, <2>3
  <1>11. QED
    BY <1>4, <1>5, <1>6, <1>7, <1>8, <1>9, <1>10, RequestSteps DEF ApiInv

\* A pending job that has everything is on its way to being activated, however
\* the PATCHes that supplied it overlap: activate_if_ready runs on the row as
\* it is after the commit, so the last of them sees what all of them wrote.
THEOREM ReadyIsActivatedAlways == ApiSpec => []ReadyIsActivated
  <1>1. ApiInit => ReadyIsActivated
    BY DEF ApiInit, StoreInit, ReadyIsActivated
  <1>2. ApiInv /\ ReadyIsActivated /\ [ApiNext]_<<storeVars, apiVars>> => ReadyIsActivated'
    <2> SUFFICES ASSUME ApiInv, ReadyIsActivated, [ApiNext]_<<storeVars, apiVars>>
                 PROVE  ReadyIsActivated'
      OBVIOUS
    <2>1. CASE UNCHANGED <<rows, req>>
      BY <2>1 DEF ReadyIsActivated, InStep
    <2>2. QED
      BY <2>1, RequestActivates DEF ApiNext, Tick, storeVars, apiVars
  <1>3. QED
    BY <1>1, <1>2, ApiInitInv, ApiKeepsInv, PTL DEF ApiSpec

-----------------------------------------------------------------------------
(* What is monitored is scheduled. *)

\* A row whose status and schedule go together.
Agrees(row) ==
    /\ row.status \in Monitored => row.next_check_at # None
    /\ row.status \in Pending => row.next_check_at = None

\* The jobs the claim leaves out.
Excused == byHand \cup unscheduled

\* Why the next check is never lost: an activation read the job unscheduled, so
\* its UPDATE does write the next check.
ScheduleIsKept ==
    \A j \in Jobs \ Excused :
        /\ rows[j] # NoRow => Agrees(rows[j])
        /\ \A c \in Clients : InStep(c, "activate") /\ req[c].job = j =>
              req[c].loaded.next_check_at = None

\* No step takes an excuse back, and what excuses a job is noted.
LEMMA RequestExcuses ==
    ASSUME ApiInv, NEW c \in Clients, RequestStep(c) \/ LoseRequest(c)
    PROVE  /\ Excused \subseteq Excused' /\ byHand \subseteq byHand'
           /\ CommitPatch(c) /\ WritesStatus(req[c]) => req[c].job \in byHand'
           /\ CommitCancel(c) /\ OnlyUnschedules(req[c]) => req[c].job \in unscheduled'
  <1>1. byHand \subseteq byHand' /\ unscheduled \subseteq unscheduled'
    <2>1. ApiTyped
      BY DEF ApiInv
    <2>2. QED
      BY <2>1, RequestSteps DEF CommitPatch, CommitCancel, Inserts, Loads, Refreshes, Leaves
  <1>2. QED
    BY <1>1 DEF CommitPatch, CommitCancel, Excused

\* What a step of a request leaves of a row that agrees, agrees.
LEMMA RequestAgrees ==
    ASSUME ApiInv, ScheduleIsKept, NEW c \in Clients, RequestStep(c) \/ LoseRequest(c),
           NEW j \in Jobs \ Excused', rows'[j] # NoRow
    PROVE  Agrees(rows'[j])
  <1>0. /\ j \in Jobs /\ j \notin Excused
        /\ CommitPatch(c) /\ WritesStatus(req[c]) => req[c].job # j
        /\ CommitCancel(c) /\ OnlyUnschedules(req[c]) => req[c].job # j
    BY RequestExcuses DEF Excused
  <1>1. CASE rows[j] = NoRow
    <2>1. Inserts(c)
      <3>1. ApiTyped
        BY DEF ApiInv
      <3>2. ASSUME NEW step, NEW next, Commits(c, step, next) PROVE FALSE
        <4>1. req[c].job \in Jobs /\ rows[req[c].job] # NoRow
              /\ \A k \in Jobs : k # req[c].job => rows'[k] = rows[k]
          BY <3>2, CommitColumns
        <4>2. QED
          BY <1>0, <1>1, <4>1
      <3>3. QED
        BY <1>1, <3>1, <3>2, RequestSteps DEF Loads, Refreshes, Leaves
    <2>2. PICK row \in Row :
             /\ rows'[j] = row
             /\ row.status \in {"active", "pending_hotel", "pending_info"}
             /\ row.next_check_at = None <=> row.status # "active"
      BY <1>1, <2>1 DEF Inserts, ApiInv, ApiTyped, ApiTypeOK, StoreTypeOK
    <2>3. QED
      BY <2>2 DEF Agrees, Monitored, Pending
  <1>2. CASE rows[j] # NoRow
    <2>1. Agrees(rows[j])
      BY <1>0, <1>2 DEF ScheduleIsKept
    <2>2. CASE /\ InStep(c, "patch") /\ req[c].job = j /\ CommitPatch(c)
               /\ rows'[j].next_check_at = rows[j].next_check_at
               /\ rows'[j].status = IF WritesStatus(req[c]) THEN req[c].mem.status
                                    ELSE rows[j].status
      BY <1>0, <2>1, <2>2 DEF Agrees
    <2>3. CASE /\ InStep(c, "activate") /\ req[c].job = j
               /\ rows'[j].status = "active"
               /\ req[c].loaded.next_check_at = None => rows'[j].next_check_at # None
      BY <1>0, <2>3 DEF ScheduleIsKept, Agrees, Pending
    <2>4. CASE /\ InStep(c, "cancel") /\ req[c].job = j /\ CommitCancel(c)
               /\ rows'[j].status = IF req[c].loaded.status = "cancelled" THEN rows[j].status
                                    ELSE "cancelled"
               /\ rows'[j].next_check_at = IF req[c].loaded.next_check_at = None
                                           THEN rows[j].next_check_at ELSE None
      <3>1. req[c].loaded.status = "cancelled" => req[c].loaded.next_check_at = None
        BY <1>0, <2>4 DEF OnlyUnschedules, InStep
      <3>2. CASE req[c].loaded.status = "cancelled"
        BY <2>1, <2>4, <3>1, <3>2 DEF Agrees
      <3>3. CASE req[c].loaded.status # "cancelled"
        BY <2>4, <3>3 DEF Agrees, Monitored, Pending
      <3>4. QED
        BY <3>2, <3>3
    <2>5. QED
      BY <1>2, <2>1, <2>2, <2>3, <2>4, RequestRow
  <1>3. QED
    BY <1>1, <1>2

\* Every step of a request keeps status and schedule together.
LEMMA RequestKeepsSchedule ==
    ASSUME ApiInv, ScheduleIsKept, NEW c \in Clients, RequestStep(c) \/ LoseRequest(c)
    PROVE  ScheduleIsKept'
  <1>0. /\ ApiTyped /\ Excused \subseteq Excused'
        /\ req \in [Clients -> Served \cup {Idle}] /\ Idle \notin Served
    BY RequestExcuses, JobApiAssumption DEF ApiInv, ApiTyped, ApiTypeOK
  <1>1. ASSUME NEW j \in Jobs \ Excused', NEW d \in Clients, InStep(d, "activate")',
               req'[d].job = j
        PROVE  req'[d].loaded.next_check_at = None
    <2>1. j \in Jobs /\ j \notin Excused
      BY <1>0
    <2>2. CASE d # c
      <3>1. req'[d] = req[d]
        BY <1>0, <2>2, RequestKeepsRows
      <3>2. QED
        BY <1>1, <2>1, <3>1 DEF ScheduleIsKept, InStep
    <2>3. CASE d = c
      <3>1. ASSUME NEW r \in Served \cup {Idle}, Moves(c, r)
            PROVE  r # Idle /\ r.step = "activate" /\ r.job = j /\ req'[c] = r
        BY <1>0, <1>1, <2>3, <3>1 DEF Moves, InStep
      <3>2. CASE Refreshes(c)
        <4>1. PICK r \in Served \cup {Idle} :
                 /\ Moves(c, r)
                 /\ r # Idle => /\ rows[req[c].job].status \in Pending
                                /\ r.job = req[c].job /\ r.loaded = rows[req[c].job]
          BY <3>2 DEF Refreshes
        <4>2. r # Idle /\ r.job = j /\ req'[c] = r
          BY <3>1, <4>1
        <4>3. req[c].job = j /\ rows[j].status \in Pending /\ r.loaded = rows[j]
          BY <4>1, <4>2
        <4>4. rows[j] # NoRow
          BY <1>0, <3>2, <4>3 DEF ApiTyped, Underway, Refreshes, InStep
        <4>5. QED
          BY <2>1, <2>3, <4>2, <4>3, <4>4 DEF ScheduleIsKept, Agrees
      <3>3. CASE Inserts(c)
        BY <3>1, <3>3 DEF Inserts
      <3>4. CASE Loads(c)
        BY <3>1, <3>4 DEF Loads
      <3>5. CASE Leaves(c)
        BY <3>1, <3>5 DEF Leaves
      <3>6. ASSUME NEW step, NEW next \in {"refresh", "notify", "over"}, Commits(c, step, next)
            PROVE  FALSE
        BY <3>1, <3>6 DEF Commits
      <3>7. QED
        BY <1>0, <3>2, <3>3, <3>4, <3>5, <3>6, RequestSteps
    <2>4. QED
      BY <2>2, <2>3
  <1>2. QED
    BY <1>1, RequestAgrees DEF ScheduleIsKept

\* However requests overlap, a monitored job has a next check, unless a client
\* set its status or a late second cancel took only its schedule: activate and
\* create_job write status and next_check_at in one UPDATE.
THEOREM MonitoredIsScheduledApi == ApiSpec => []MonitoredIsScheduled
  <1>1. ApiInit => ScheduleIsKept
    BY DEF ApiInit, StoreInit, RequestsInit, ScheduleIsKept, InStep
  <1>2. ApiInv /\ ScheduleIsKept /\ [ApiNext]_<<storeVars, apiVars>> => ScheduleIsKept'
    <2> SUFFICES ASSUME ApiInv, ScheduleIsKept, [ApiNext]_<<storeVars, apiVars>>
                 PROVE  ScheduleIsKept'
      OBVIOUS
    <2>1. CASE UNCHANGED <<rows, req, byHand, unscheduled>>
      BY <2>1 DEF ScheduleIsKept, InStep, Excused
    <2>2. QED
      BY <2>1, RequestKeepsSchedule DEF ApiNext, Tick, storeVars, apiVars
  <1>3. ScheduleIsKept => MonitoredIsScheduled
    BY DEF ScheduleIsKept, Agrees, Excused, MonitoredIsScheduled
  <1>4. QED
    BY <1>1, <1>2, <1>3, ApiInitInv, ApiKeepsInv, PTL DEF ApiSpec

=============================================================================

---------------------------- MODULE DeadlineClock ----------------------------
(***************************************************************************)
(* The worker against the wall clock, with the real hours of the cadence   *)
(* and of the deadline guard.  run_forever makes a pass every quarter of   *)
(* an hour, so here every hour sees a pass before the next one begins.     *)
(* The user may PATCH the deadline at any moment.  History variables count *)
(* what went wrong and when a job's deadline or hotel last changed.        *)
(***************************************************************************)
EXTENDS Scheduler

CONSTANTS
    MovedTo,         \* deadlines a PATCH may set
    MoveHours,       \* bound: the hours at which a PATCH may come
    MaxMoves,        \* bound on the PATCHes
    MaxTrouble       \* bound on the mishaps

ASSUME DeadlineClockAssumption ==
    /\ MovedTo \subseteq Time
    /\ MoveHours \subseteq Time
    /\ MaxMoves \in Nat
    /\ MaxTrouble \in Nat

VARIABLES
    lastPass,    \* the hour of the last pass that ended
    since,       \* history: since[j], when j's deadline or hotel last changed, or None
    moves,       \* PATCHes so far (bound only)
    trouble      \* history: sends refused, checks that raised, passes lost

clockVars == <<lastPass, since, moves, trouble>>
deadlineVars == <<schedVars, clockVars>>

-----------------------------------------------------------------------------

Mishap == trouble < MaxTrouble /\ trouble' = trouble + 1

SomeDue == \E j \in Jobs : Due(rows[j], clock)

\* (A pass that finds nothing due changes nothing and is left out.)
Begin(w) ==
    /\ lastPass # clock
    /\ SomeDue
    /\ StartPass(w)
    /\ UNCHANGED clockVars

\* A job is processed and what was to be sent was sent.
Handle(w, j) ==
    \/ StayUnresolved(w, j) \/ StayQuiet(w, j)
    \/ (EndMonitoring(w, j) \/ RaiseDropAlert(w, j) \/ RaiseDeadlineAlert(w, j)) /\ mail' # mail

\* A job is processed, but Klaviyo refuses or the price source raises.
Mishandle(w, j) ==
    \/ /\ EndMonitoring(w, j) \/ RaiseDropAlert(w, j) \/ RaiseDeadlineAlert(w, j)
       /\ mail' = mail
       /\ Mishap
    \/ CheckRaises(w, j) /\ Mishap

Work(w, j) ==
    /\ (Handle(w, j) /\ UNCHANGED trouble) \/ Mishandle(w, j)
    /\ UNCHANGED <<lastPass, since, moves>>

Found(j) == rows[j].hotel_id = None /\ rows'[j].hotel_id # None

Finish(w) ==
    /\ CommitPass(w)
    /\ lastPass' = clock
    /\ since' = [j \in Jobs |-> IF Found(j) THEN clock ELSE since[j]]
    /\ UNCHANGED <<moves, trouble>>

\* The pass is lost; the next one comes an hour later at the latest.
Lose(w) ==
    /\ Crash(w)
    /\ Mishap
    /\ lastPass' = clock
    /\ UNCHANGED <<since, moves>>

\* PATCH /jobs/{id} with a cancellation_deadline, and nothing else: neither
\* next_check_at nor deadline_alert_sent_at moves with it.
MoveDeadline(j) ==
    /\ clock \in MoveHours
    /\ moves < MaxMoves
    /\ moves' = moves + 1
    /\ rows[j].status \in Monitored
    /\ \E deadline \in MovedTo :
          rows' = [rows EXCEPT ![j].cancellation_deadline = deadline]
    /\ since' = [since EXCEPT ![j] = clock]
    /\ UNCHANGED <<checks, plan, clock, mail, sessionVars, crashes, lastPass, trouble>>

\* No hour ends before its pass.  (The clock stops with the last job.)
TimePasses ==
    /\ \E j \in Jobs : rows[j].status \in Monitored
    /\ SomeDue => lastPass = clock
    /\ \A w \in Workers : passNow[w] = None
    /\ Tick
    /\ UNCHANGED <<sessionVars, crashes, clockVars>>

WorkerRuns(w) == Begin(w) \/ (\E j \in Jobs : Work(w, j)) \/ Finish(w)

ClockInit ==
    /\ FreshRows
    /\ checks = [j \in Jobs |-> NoHistory]
    /\ plan = [u \in Users |-> "trialing"]
    /\ clock = 0
    /\ mail = [j \in Jobs |-> <<>>]
    /\ SessionInit
    /\ lastPass = None
    /\ since = [j \in Jobs |-> None]
    /\ moves = 0
    /\ trouble = 0

ClockNext ==
    \/ \E w \in Workers : WorkerRuns(w) \/ Lose(w)
    \/ \E j \in Jobs : MoveDeadline(j)
    \/ TimePasses

ClockSpec == ClockInit /\ [][ClockNext]_deadlineVars

-----------------------------------------------------------------------------
(* Properties. *)

MaxJitter == CHOOSE x \in Jitters : \A y \in Jitters : y <= x

Later(a, b) == IF a > b THEN a ELSE b

\* The guard opens GuardHours before the deadline.
Opens(j) == Later(0, rows[j].cancellation_deadline - GuardHours)

\* By when the owner of j must have heard: one final-window interval after the
\* guard opens (one daily interval after the deadline or the hotel changed, if
\* that is later), and one more interval for each mishap.
HeardBy(j) ==
    LET final == FourTimesDaily + MaxJitter
    IN  Later(Opens(j) + final, IF since[j] = None THEN 0 ELSE since[j] + Daily + MaxJitter)
            + final * trouble

Heard(j) == Has(mail[j], "DeadlineApproaching") \/ Has(mail[j], "PriceDropFound")

\* The hours fit together: cadences shorten towards the deadline, each early
\* enough before the guard opens to make up for what it is longer than the last,
\* and there is a longest jitter.  With the code's 24, 12 and 6 hours, 14 and 3
\* days, it is so for every guard of up to 66 hours.
HoursFit ==
    /\ MaxJitter \in Jitters /\ \A x \in Jitters : x <= MaxJitter
    /\ RetryHours <= Daily
    /\ FourTimesDaily <= TwiceDaily /\ TwiceDaily <= Daily
    /\ TwiceDaily - FourTimesDaily <= NearHours - GuardHours
    /\ Daily - FourTimesDaily <= FarHours - GuardHours

\* Free cancellation ends before the stay does.
DeadlinesPrecedeCheckOut ==
    \A j \in Jobs, deadline \in Deadlines \cup MovedTo : deadline <= CheckOut[j]

\* No deadline passes in silence: a priceable job's owner hears, of the deadline
\* or of a drop, by HeardBy, unless the deadline comes first.
InTime ==
    \A j \in Jobs :
        /\ rows[j].status \in Monitored
        /\ rows[j].cancellation_deadline # None
        /\ rows[j].hotel_id # None
        /\ HeardBy(j) < clock
        /\ clock < rows[j].cancellation_deadline
        => Heard(j)

\* The deadline of the copy a pass works on, not of the row as it now is, is over.
LoadedAsOver(w, j) ==
    /\ loaded[w][j] # NoRow
    /\ loaded[w][j].cancellation_deadline # None
    /\ loaded[w][j].cancellation_deadline <= clock

\* Monitoring is not given up early: a job expires only when its stay or the
\* deadline it now has is over.  The one exception is a PATCH that moved the
\* deadline within the hour, while a pass held a row whose deadline was over:
\* that pass decides on the row as it loaded it, and nothing reopens the job.
EndsOnlyWhenOver ==
    [][\A j \in Jobs :
          rows[j].status # "expired" /\ rows'[j].status = "expired" =>
            \/ CheckOut[j] <= clock
            \/ rows[j].cancellation_deadline # None /\ rows[j].cancellation_deadline <= clock
            \/ /\ since[j] = clock
               /\ \E w \in Workers : LoadedAsOver(w, j)]_deadlineVars

\* Why: no hour ends in mid-pass, and the deadline a session works with is the
\* row's, unless it moved within the hour.
SessionIsFresh(w, j) ==
    LET row == mem[w][j]
    IN  /\ passNow[w] = clock
        /\ row.cancellation_deadline = loaded[w][j].cancellation_deadline
        /\ row.cancellation_deadline = rows[j].cancellation_deadline \/ since[j] = clock
        /\ row.status = "expired" => HasEnded(j, row, clock)

SessionsAreFresh ==
    /\ since \in [Jobs -> Maybe(Time)]
    /\ \A j \in Jobs : rows[j] # NoRow
    /\ \A w \in Workers, j \in Jobs : mem[w][j] # NoRow => SessionIsFresh(w, j)

=============================================================================

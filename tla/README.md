# HotelSave: verification project

TLA+ models of HotelSave (app/): the service that watches a refundable hotel booking,
emails its owner when the same room gets cheaper, warns before the free-cancellation
deadline, and wraps up when it is over. Paths below are relative to `src/`.

## Inventory

| Part | Code | State it keeps | Operations |
|---|---|---|---|
| Polling worker | `app/scheduler/worker.py` | none of its own; a database session for the length of a pass | `run_once` (select, process each job, commit), `process_job` |
| Store | `app/models.py`, `app/database.py` | `monitoring_jobs`, `price_checks`, `users` | SQLAlchemy sessions: load, change in memory, commit the changed columns |
| Klaviyo client | `app/services/klaviyo.py` | the user's mailbox, on the other side | `emit_event`: accepted, refused, or accepted with the answer lost |
| Jobs API | `app/routers/jobs.py`, `app/services/lifecycle.py` | a session per request | POST, PATCH (then refresh, then activation), DELETE |
| Inbound mail | `app/routers/inbound.py`, `app/services/email_inbound/` | the mail provider's retries, on the other side | the webhook: answer 200 whatever came of the email |
| Ingestion | `app/services/ingestion.py` | a session per webhook | invite a stranger, refuse, or create a job active, waiting for a hotel, or waiting for a deadline |
| Accounts | `app/routers/auth.py` | `users` | register, log in |
| Billing | `app/routers/billing.py`, `app/services/stripe_service.py` | `users.plan_status`; Stripe's retries, on the other side | checkout, the Stripe webhook |
| Matching | `app/services/matching.py` | none | which rate is the same product, which price is a drop |
| LiteAPI source | `app/services/price_source/liteapi.py` | none | resolve a hotel, turn a reply into candidates |
| Parser | `app/services/parser/` | none | a booking, or None |
| Rebook links, other sources, site | | | not modelled, see the end |

The parts meet only in the database and in the user's mailbox. Nothing locks: a pass reads
its jobs once, works for minutes and commits once at the end, while requests of the same
users run in other threads and another worker (a cron start, the old container of a deploy)
may be in its own pass. Emails leave during the pass, before the commit.

What is hard, and what makes each part correct:

- *Worker*: what the rows say the user was told must be true of the mail, whatever fails in
  between; the figures on a row must be those of the price history; after the wrap-up,
  silence; monitoring must end, and not before its time; no deadline may pass in silence.
  Sends fail, answers get lost, sources raise, processes die, deadlines move.
- *Overlapping sessions*: a commit writes the columns a session changed over whatever the row
  has become. PATCH and DELETE against a pass, PATCH against PATCH, pass against pass.
- *API*: a job that has everything is activated, a monitored job is scheduled, a cancelled
  job stays cancelled.
- *Inbox*: no email is repeated but for a mishap, and none is lost to one.
- *Accounts*: of several who register one address, the one who was told so has the account.
- *Matching and source*: a drop is reported when, and only when, the reply holds a rate no
  worse than the booking, board included, whose full price, all of it in one currency, is
  below the original by the floor.

`PROJECT.json` lists the hazards with their lines.

## Modules

| Module | Models | State | Steps |
|---|---|---|---|
| `Matching` | `matching.py` | none | operators; the drop floor in exact hundredths |
| `LiteApiQuote` | `liteapi.py` `check`, then matching | the booking, the rates read, the candidates, the decision | `ReadRate`, `ReadRaises`, `Decide` |
| `HotelLookup` | `liteapi.py` `resolve_hotel`, and who accepts its answer | none | operators, used by `Inbox` |
| `Store` | the tables, the commit, `emit_event`, the clock | `rows`, `checks`, `plan`, `clock`, `mail` | `Flush`, `Emit`, `Tick` |
| `Scheduler` | `worker.py` | per worker: `passNow`, `todo`, `loaded`, `mem`, `added`, `planSeen` | `StartPass`, `SkipPaused`, one action per way `process_job` can go, `CommitPass`, `Crash` |
| `AlertPromise` | what the user is promised | `told`, `last`, `warned`, `ended` | `TellDrop`, `Warn`, `WrapUp` |
| `DeadlineClock` | `Scheduler` against the hours of the day | `lastPass`; history `since`, `trouble` | `Begin`, `Work`, `Finish`, `Lose`, `MoveDeadline`, `TimePasses` |
| `JobApi` | `jobs.py`, `lifecycle.py`, the jobs of `ingestion.py` | `req` per client; history `byHand`, `unscheduled` | each request cut at its read, commit, refresh and event |
| `HotelSave` | worker, API and the Stripe webhook (`billing.py`, `stripe_service.py`) on one store | the above | interleaving of the above, `StripeWebhook` |
| `Accounts` | `auth.py` | `accounts`, `visit` | `LookUpEmail`, `InsertUser` |
| `Inbox` | `inbound.py`, `postmark.py`, `ingestion.py` in full, on `Accounts` and `HotelLookup` | `email`, `serving`, `jobs`, `told`; history `announced`, `refused`, `unparsed`, `lost` | `Forward`, `Post`, one action per outcome and per call, `EmitEvent`, `Answer`, `GiveUp`, `Raises`, `Die` |
| `SchedulerProofs`, `PassProofs`, `AloneProofs` | | | theorems about `Scheduler`: of any number of workers, and of one |
| `DeadlineProofs`, `JobApiProofs`, `HotelSaveProofs`, `InboxProofs`, `QuoteProofs` | | | theorems about `DeadlineClock`, `JobApi`, `HotelSave`, `Inbox` with `Accounts`, and `LiteApiQuote` with `Matching` |
| `MC*` | | | values of the constants |

`AlertPromise` is implemented by `Scheduler` under the mapping that reads its variables off
the user's mail: how many emails of each kind, and the price in the latest about a drop
(`Promise`, `KeepsPromise`).

How the models correspond to the code:

- A *session* is `loaded` (rows as selected) and `mem` (rows with the pass's changes);
  `Flush` writes the columns that differ, as SQLAlchemy's UPDATE does. One pass is
  `StartPass`, then one action per due job in any order (the query has no ORDER BY), then
  `CommitPass`. `autoflush` is off, so nothing is written before that commit.
- One job is one step. It touches only the session, the mail and the lookups, so
  interleaving finer than that shows other sessions nothing but the email; the clock of the
  step is the pass's `passNow`. The alert branches of `process_job` are exclusive (a
  standing drop suppresses the deadline guard), so each is an action that includes the
  check before it and the rescheduling after it.
- An exception after resolution (`CheckRaises`) keeps what was already assigned and leaves
  the schedule alone, as the `try` in `run_once` does.
- `Crash` is a process that dies, or a commit that fails; the mail stays.
- `drop_alert_sent` and `deadline_alert_sent` stand for the two `..._at` columns being set;
  `checks[j]` is the number of price_checks rows and the set of prices in them.
- One unit of time is an hour in meaning. In `deadline` it is one: cadence, guard and retry
  have the code's values. In the other runs it is the shortest cadence.
  `Emit`'s `lost_ack` is an `httpx` timeout after Klaviyo took the event.
- `run_forever` makes a pass every quarter of an hour. `DeadlineClock` keeps of this that
  every hour with a due job sees a pass end before the next begins, and leaves out passes
  that find nothing due. A refused send, a source that raises and a lost pass are mishaps,
  and counted.
- A PATCH request is `BeginPatch` (read, assign), `CommitPatch`, `RefreshPatched` (refresh
  and decide), `CommitActivation`, `Notify`. Its inputs are the columns some decision reads:
  hotel, refundable, deadline, status. Two history variables: `byHand`, the jobs whose status
  a client wrote itself, and `unscheduled`, the jobs a cancel had read as cancelled already
  but scheduled, so that `next_check_at` is all its UPDATE writes. `DeadlineClock` has the PATCH of a monitored job's deadline as one
  step, `MoveDeadline`: its commit is the one thing the worker sees of it.
- `Inbox` is `JobApi`'s `IngestEmail` in detail, with what precedes it. A server looks the
  sender up (`Post`), reads the email (`ParseFails`, `RefuseNonRefundable`, `CommitJob`),
  emits the event, answers. Klaviyo accepts the event (`told`, and `announced` if it is about
  a job) or refuses it (`refused`); ingestion does not look at the result and answers 200
  either way. An exception of the database or of the parser's client is a 500 (`Raises`); a
  process may die at any step (`Die`). What the provider does is the provider's: `Forward`,
  `GiveUp` (it stopped waiting, the server has not) and the matching of an answer to a post.
  `lost` counts the mishaps of an email: given up, died, raised.
- An address is a mailbox and whether it is written with capitals: registration and login
  compare as written, `parse_postmark` lower-cases. What happens in a mailbox's domain
  (`EmailStr` normalises it) does not matter.
- `StripeWebhook` is the write of `billing.py:56-63`: a status of Stripe's own, mapped by
  `PlanOf`, becomes the plan, in whatever order the events arrive. The webhook finds its user by
  `users.stripe_customer_id`, which no code fills: as the program stands it finds nobody
  and answers 200. The model has the write as it will be with the column filled, because a
  plan that changes under a running pass is what the worker has to cope with then.
- `HotelLookup` has a catalogue of what LiteAPI's search yields for the name; the search is
  fuzzy, so a hotel in it may bear another name, and what is taken without asking is the
  only hit, not the only hotel of that name. A country that is no code ("Italia") is
  treated like none. LiteAPI's limit of ten hits changes neither count nor confidence.
- A room name is the set of tier words in it; fees of a rate are records; boundaries are the
  cancellation times that parse. `mixedStamps` says that some carry an offset and some do
  not, which makes Python's `min` raise.

A definition named `X_Something` placed before `X` is a mutant: `X` with a plausible bug,
kept to show that a property notices it.

## Runs

| Run | Question | Bounds |
|---|---|---|
| `worker` | Do the emails keep the promise? Is the reassurance complete? | 1 worker, 1 job, 5 offers (within the floor, a drop, one not deeper, one deeper with and without link), no or one of two deadlines, 8 clock values, refused sends, a raising source |
| `worker_crash` | Are rows true after crashes and lost answers? | 1 worker, 3 offers (a drop, one no deeper, one deeper), one crash, refused and mis-acknowledged sends |
| `worker_overlap` | ... with two passes overlapping? The proofs' invariant. | 2 workers (symmetric), 2 offers, one deadline, refused sends |
| `worker_ends` | Does monitoring end? | as above with fairness, a crash, a raising source |
| `deadline` | Does every owner hear before the deadline, even one that was moved? Does no job end early? | 1 worker, 1 offer, the code's hours, a stay of 100 hours, a deadline at 80 or none, moved once to 60 or 90, at hour 26 or 80; two mishaps, one of them a crash |
| `api` | Are jobs activated, scheduled, cancelled for good? | 2 clients, 2 hotels, 4 requests, PATCH may set `active`, refused sends, no crash |
| `hotelsave` | What does a pass do to what users send meanwhile, and a request to what the pass recorded? | 1 worker, 1 client, 3 requests, 1 Stripe event ("unpaid"), lost requests, refused sends, no lost pass |
| `accounts` | Is an email repeated, or lost? Is an account taken over? | 1 mailbox (2 spellings), 2 visitors, 1 email of 14 contents, 2 servers, 2 mishaps, refused prompts, 4 hotels in 3 cities |
| `quote` | Is a drop found exactly when it is there? | 2 rates of about 70, 36 bookings |
| `hotelsave_cancel`, `quote_currency`, `api_asked` | the disagreements below | small |

Why the bounds suffice. Jobs meet only through their user's plan and the commit of a pass,
so one job shows every interleaving of sessions on a row. The offers contain
one price on each side of every comparison in the code: the floor against the original, the
floor against the last alert, with and without a link. The clock runs past the check-out,
so every run reaches the wrap-up, its retry and the passes after it. The thresholds of the cadence
keep their order, so all three cadences occur. In `deadline` the two moving hours are one
before the guard opens and one on which the old deadline ends, and the new deadlines lie on
either side of the old. Three or four requests are a creation and every pair
or triple of concurrent edits. Two servers and one email are the only way two ingestions can
disturb each other, two mishaps leave three posts of it, of which two overlap, and two visitors
are a race for one address. Two rates are enough for each to win or lose against the other; more
only repeat the loop. `api`, `accounts`, `deadline` and `quote` stop at their bounds, hence `CHECK_DEADLOCK FALSE`.

The single-worker properties `HistoryAgrees`, `RecordDeepens`, `QuietAfterWrapUp`,
`ReassuranceIsComplete` and `KeepsPromise` do not hold of overlapping workers: both may alert from the same row, the
later commit may raise a lowest price again, and counts are lost. `worker_overlap` checks
what remains true. `KeepsPromise` also needs sends that are not mis-acknowledged and no
crash in mid-pass, since either repeats an email. The API-side properties leave aside jobs
whose status a client set itself (`byHand`, `SetByClient`): that path schedules nothing.
`MonitoredIsScheduled` also leaves aside `unscheduled`. The proof of it found the case, with
three requests open at once: two activations and a cancel have read a pending job; the first
activation commits, then the cancel, which changes the status but not `next_check_at`, since
that was empty when it read the row; a second cancel reads (cancelled, scheduled); the second
activation commits (active); the second cancel's UPDATE has only `next_check_at` to clear.
The job is left active and never polled. TLC shows it on `api.cfg` with three clients, one hotel,
five requests, no clock and no status in a PATCH, once `unscheduled` is taken out of the property;
with it the same instance passes (2.8 million states).
`hotelsave` needs one client, since the pairs of requests are `api`'s. `AlertsAreReal` leaves aside
an "expired" that a client wrote; `NoAlertTwice` leaves out the wrap-up, because an activation that
read the job before it expired brings it back, to be wrapped up again.

Four properties state an exception the code makes necessary:

- `InTime` gives the owner one final-window interval after the guard opens, one more per
  mishap (an alert that was not delivered is tried again only after the full cadence), and
  one daily interval after a change of the deadline or a late resolution, because a PATCH
  does not move `next_check_at`. A deadline nearer than that may pass in silence.
- `EndsOnlyWhenOver` allows one case: the deadline was moved within the hour, and a pass
  held a copy of the row whose deadline was over. That pass wraps the job up all the same.
- `PatchSurvivesPass` allows two: a pass that loaded a job without a hotel writes the hotel it
  resolved, over one the user may have picked meanwhile; and a status for which the owner
  was mailed is written over whatever the status has become, a cancel included (the first
  disagreement below). Everything else a PATCH or a DELETE set stays.
- `CrashLosesNoEmail` says that a crash or an exception costs no email. It does not say that the
  sender was told: a prompt that Klaviyo refused and an email the parser failed on are
  answered 200 and never tried again, so both count as settled.

Fairness (`LiveSpec`, `worker_ends` only): weak fairness of each worker's own steps, because
`run_forever` loops without end and a pass is a finite loop with time-outs on every call;
weak fairness of time. Nothing is assumed of sends or sources in general; in that run
they may raise each time, and a crash costs one pass. Refused sends are left out there: a
Klaviyo that refuses forever does keep the wrap-up from ever being delivered.

### Disagreements between the code and its texts

1. `hotelsave_cancel`: DELETE during a pass is undone by the pass's commit.
2. `quote_currency`: prices in EUR are compared with, and quoted in, the booking's currency. By
   default it is the deadline email that quotes one, as the best price seen; an alert for a
   drop without a rebook link is held back unless `require_rebook_url_for_alerts` is off.
3. `api_asked`: a forwarded booking that lacks both its hotel and its deadline is asked for
   the hotel only; once the user supplies it, the job waits for a deadline nobody asks for.

Others are visible in the models but have no run of their own. For the last four the one
property to state would repeat a definition of the model:

- A drop alert goes out again when the pass that sent it dies before its commit.
- A pass decides on the clock it read at its start, so an alert of a long pass may leave after
  the window closed; and "the next pass retries" an undelivered alert only after the full
  cadence, which `InTime` accounts for.
- The plan never follows Stripe, although `docs/spec.md:366` has it ("Map Stripe subscription
  status → `User.plan_status`"): no code fills the column `billing.py:57` looks for.
- A booking's country given by name ("Italia") is no code, so the deployment's country is
  searched, although `render.yaml:42-44` says that "The booking's own country always wins".
  The parser is not asked for a code (`claude.py:16-36`).
- The sender is lower-cased, an account's address is not: an owner who registered with
  capitals is invited to sign up, although `docs/spec.md:161` matches "by from-address".
- A prompt that Klaviyo refused, and an email on which the parser failed, are answered 200: the
  user is not asked, the email not posted again, and the job, if there is one, waits.

## Proofs

`SchedulerProofs` is about `Scheduler` with any sets of workers, jobs, users, hotels and
offers, any cadence, clock bound and number of crashes. It uses the assumptions of `Matching`,
`Store` and `Scheduler` on the constants (the floor and prices are naturals, `None` and `NoRow`
are no values, the offers have prices) and nothing else.

- `TypeCorrect`: `Spec => []TypeOK`. One lemma per action; the six ways a job is processed
  share `ProcessKeepsTypes`. `TypeOK` includes that a session's memory and its loaded rows
  have the same jobs, which the other proof needs.
- `HonestRecords`: `Spec => []RecordsAreHonest`, the inductive invariant.
- `ToldIsTrueAlways`: `Spec => []ToldIsTrue`, from it.

`ToldIsTrue` speaks of committed rows only and is not inductive: a commit takes columns from
a session's copy and columns from the row, which another session may have changed since it
was loaded. Mixing is harmless for `deadline_alert_sent` and the status, each of which is
backed by mail on its own. For a drop it is not: `drop_alert_sent` is a claim about
`lowest_alerted_price`, another column. `RecordsAreHonest` therefore says that in every
copy, loaded, changed or committed, the two columns are set together, that each claim is
backed by mail, and that a job loaded as alerted is still alerted in the table. `FlushHonest`
is the heart: a column-wise commit of one honest copy over another is honest. `EmitGrows`
and `HonestGrows` say that mail is never taken back.

`PassProofs` says in one lemma, `JobEffect`, what processing a job comes to, whichever of
the six ways it goes: one group of columns at a time (`SamePolicy`, `Counts`, `Reschedules`,
`Tells`). Everything further down uses that instead of the six actions.

- `ChecksNotOverstatedAlways`, for any number of workers. Each commit writes a count and
  prices that its session computed from an old row, and the last one wins.
  `FiguresAreBacked` says what saves it: every copy claims at most what is recorded,
  or about to be recorded by the session that holds it (`SessionBacked`), so that whichever
  columns a commit takes from which copy, the result claims no more. `AddedIsLoaded` is
  needed besides: only jobs a session loaded have a check to insert.

`AloneProofs` is about one worker (`OneWorker`, one looping process, as in `render.yaml`), with any
failures, crashes and lost answers. All of it rests on `LoadedIsCurrent`: the row is still
what the session loaded, so a commit writes the session's copy (`CommitWritesCopies`).

- `HistoryAgreesAlone`, from `FiguresAgree`: a copy agrees with the history *together with*
  the check its session will insert (`Recorded`, `Found`). A crash drops both.
- `QuietAfterWrapUpAlone`, from `WrappedUpIsOver`: an accepted wrap-up means that the job has
  ended by the clock. The row need not say so, its commit or its acknowledgement may be lost;
  but then every later pass sees an ended job and can only wrap it up again.
- `RecordDeepensAlone`, from `SessionDeepens`, and honesty: a row without an alert has no
  threshold to loosen.
- `ReassuranceIsCompleteAlone`, from `FiguresAgree` at the step that sends the email.
- `KeepsPromiseAlone`: the refinement `Spec => Promise!PromiseSpec`, initial states to initial
  states and every step to a step or a stutter. It needs `NothingLost` (no lost
  acknowledgement, no crash): with either the code does repeat an email, and the promise is
  broken. The invariant is `RecordsAreExact`: the copy from which the next decision is taken
  counts the warnings and wrap-ups in the mail exactly and holds the price of the latest
  drop. The mapping counts emails, so the proof has a few facts on `Times` and `LatestPrice`
  of a longer box.

`DeadlineProofs` is about `DeadlineClock` and adds its assumptions on the bounds.

- `EndsOnlyWhenOverAlways`: `ClockSpec => EndsOnlyWhenOver`. A pass that ends a job decided on
  its own copy of the row, so the property needs `SessionsAreFresh`: no hour ends in mid-pass
  (`passNow` is the clock), no pass changes a deadline, and the deadline a session works with
  is the row's unless a PATCH came within the hour. Types are inherited: `ClockStep` shows
  that every step of the clock is a step of `Scheduler` or a PATCH of a deadline.
- `InTimeAlways`: `ClockSpec => []InTime`, for any number of workers, mishaps and PATCHes.
  `InTime` says nothing of the schedule, which is all that keeps it true. `ClockInv` does:
  a job whose owner still waits comes due by `HeardBy` (`OnTime`); if the hour's pass has
  ended and left it due, a mishap has made room for one hour more; no job is scheduled
  further ahead than the longest interval (`WithinADay`), which is what a changed deadline
  gets; and a session took its jobs because they were due, and leaves each with a check in
  time unless a mishap or a change within the hour excuses it (`SessionInTime`), so that a
  commit of several sessions one after the other keeps it. `CadenceInTime` is the arithmetic:
  the next check, whatever the cadence and the jitter, comes within the final interval of the
  hour the guard opens. That is not so for any settings, hence the hypotheses `HoursFit` (the
  cadences shorten, and each early enough before the guard) and `DeadlinesPrecedeCheckOut`
  (the code does not check it; a job whose stay ends before its deadline is wrapped up
  without a warning). With the code's intervals `HoursFit` holds of every guard of up to 66
  hours; the default is 48. TLC evaluates both for the instance of the run.

`JobApiProofs` is about `JobApi` with any number of clients, `HotelSaveProofs` about the
composition with any number of workers, clients and Stripe events. Both see a request through
the column groups it writes (`CommitColumns`, `RequestRow`).

- `ApiTypeCorrect`; it needs `Underway`, that the row of a request in progress is there.
- `ReadyIsActivatedAlways`: whoever completes a row is on the way to refresh and to see it
  complete; whoever takes a part away again commits, and refreshes, later still.
- `CancelLostOnlyToOlderRequestAlways`, `CancelLostOnlyToOlderSessionAlways`: from
  `RequestIsStep`, what a request in each step may have changed, and for a pass from
  `SessionIsPass`: it writes a status only to a row it loaded as monitored.
- `MonitoredIsScheduledApi`, `MonitoredIsScheduledAlways`: status and next check are two
  columns, and a commit may take one from each of two sessions. `ScheduleIsKept` and
  `SessionsReschedule` say why the two stay together: an activation read the job unscheduled,
  so its UPDATE has both; a pass that writes a status writes a next check that differs from
  the one it loaded; and nothing that a session loaded as monitored is pending again.
- `PatchSurvivesPassAlways`: the columns of a session that only users write are as loaded, so
  the commit leaves them out (`CommitSparesPolicy`). For the status it takes
  `StatusIsNews`: a session whose copy has another status than it loaded has mailed the owner
  the email of that status, and mail is never taken back by a request, a crash or another pass.
- `AlertRecordStaysAlways`: from `RequestsSpareRecord` (what a request writes has the columns of
  the record as it loaded them) and `SessionsStillTell` (what a session loaded as told is told in
  its copy and in the row). A commit then has nothing to write back to "not told".
- `AlertsAreRealAlways`, the honesty of the rows without the worker having the table to itself.
  `RecordsAreHonest` is false here: a client may write "expired". `CopiesAreReal` therefore
  separates what only passes write (`IsTold`) from the status (`IsWrappedUp`), and follows each
  through loaded rows, copies and commits.
- `NoAlertTwiceAlways`: it needs one worker (`OneWorker`, for which the module extends
  `AloneProofs`) that loses neither an answer nor a pass (`WorkerLosesNothing`), since
  either makes the code repeat an alert. Requests may die and the clock and the webhook do as they
  like. `LoadedIsCurrent` is false beside requests; `MailIsAccounted` keeps the part of it that a
  decision uses: the copy from which the next alert is decided accounts for every alert in
  the mail, and the row it will be committed to has the record as it was loaded.

`QuoteProofs` is about `LiteApiQuote` and `Matching`: replies of any length, any fees, rooms,
boards and prices. `AllIn` is the sum over the fees the code does not skip, and the property's
`Payable` runs through the reply fee after fee; that they agree for every list of fees
(`FeesAddUp`) takes an induction, and so does that the rules pick a cheapest eligible candidate
wherever it stands (`BestIsCheapest`). The library's induction rules cannot be used (see
below); the proofs take a least counterexample instead, by the well-foundedness of the
naturals (`LeastNatural`, `NoneIsFirst`).

- `NothingMissedAlways`: `Spec => []NothingMissed`, without further hypothesis.
- `NoPhantomDropAlways`: `Spec => []NoPhantomDrop` if every room name carries one tier
  (`OneTierEach`). "No worse" is all five rules of `matching.py`, board included, read off
  the raw rate; `OneCurrency` keeps a fee in another currency from being added at face value.
  Without `OneTierEach` the claim is false: the code takes the first tier word of its
  list, so a "penthouse junior suite" passes for a penthouse.

`InboxProofs` is about `Inbox`, with the whole of `Accounts` under it: any mailboxes,
visitors, emails and servers (finitely many), any catalogue, any number of mishaps.
The assumptions are `Inbox`'s, `Accounts`' and `HotelLookup`'s on the constants.

- `InboxTypeCorrect`: `InboxSpec => []InboxTypeOK`, one lemma per action.
- `RegisteredCanLoginAlways`: the unique index is what carries it. An account once made
  keeps its password, and the visitor in step "created" is the one who made it.
- `RepostedOnlyIfLostAlways`: `RepostedOnlyIfLost` compares posts and jobs with mishaps
  and is not inductive: nothing in it says why an email is posted again. `PostsAccounted`
  does: a waiting email had a mishap with every post, any other with all but the last,
  and the jobs made of it together with the servers that are still reading it are no more
  than its posts. The second half needs the cardinality of a set that grows and shrinks by
  one server; those are the facts from the library about finite sets.
- `CrashLosesNoEmailAlways`: needs `AnswersAreSettled`: no server gets as far as answering before
  the sender was told of the email, Klaviyo refused to tell, or the parser failed on it. The
  second half counts: the jobs of an email are no more than the announcements accepted, the
  refusals, the mishaps and the servers about to announce one.

Only model-checked: `MonitoringEnds`, which is liveness under fairness, and the three
violations. Of the other properties of the runs each is a theorem, under the hypotheses named
above. Not proved are the facts about unbounded data that no property needs, such as that
the lookup's filter, or the hour arithmetic, computes what Python's does.

## Not modelled

What a text says (the parser's regular expressions, or a language model), the choice among
the bodies of an email, a payload without a sender, the tokens of the webhooks and of users, password hashing, the order
of Stripe's events and their signatures, checkout, rebook URLs, the site, the mock, the stub and the defunct price source: no
shared state and no decision of the parts above. PATCH of room, board, occupancy and
location. Schema migrations and the scripts that try out an API by hand.

## Plan

Done: all modules and runs above, 27 theorems. What would come next, in this order:

1. *Prove more of the composition.* With one worker, `HistoryAgrees` in `HotelSave`, and what of
   `QuietAfterWrapUp` survives there.
2. *Extend the models.* A Stripe customer that code links to its user, once there is such code,
   with the property that the plan follows the subscription. PATCH of the product columns,
   with the property that a price on a row was found for the product on the row; two jobs of
   one user whose plan changes in mid-pass.
3. *Runs.* The hours of `deadline` with two jobs, once a faster instance is found.

-------------------------------- MODULE Inbox --------------------------------
(***************************************************************************)
(* From a forwarded email to a job: the provider's webhook                 *)
(* (app/routers/inbound.py), the sender's account and the outcomes of      *)
(* process_inbound_email (app/services/ingestion.py) with the calls it     *)
(* makes in between.  The provider posts an email again until it has seen  *)
(* a 200; a server may die, raise, or answer after the provider gave up.   *)
(* This is JobApi's IngestEmail in detail, together with what precedes it. *)
(***************************************************************************)
EXTENDS Accounts, HotelLookup

CONSTANTS
    Messages,        \* emails
    Servers,         \* requests served at a time
    Idle,
    Bookings,        \* [country, city, refundable, deadline] an email may state
    MaxLost          \* bound on mishaps, per email

VARIABLES
    email,           \* email[m]: state at the provider, sender, booking, posts so far
    serving,         \* serving[s]: the post s is serving, or Idle
    jobs,            \* jobs[m]: jobs made from m
    told,            \* told[m]: events to its sender that Klaviyo accepted
    announced,       \* history: those of them that were about a job
    refused,         \* history: events to its sender that Klaviyo refused
    unparsed,        \* history: emails the parser once failed on
    lost             \* history: mishaps of m: a post the provider gave up, a
                     \* server that died or raised on it

mailVars == <<told, announced, refused>>
inboxVars == <<email, serving, jobs, mailVars, unparsed, lost>>
serviceVars == <<accountVars, inboxVars>>

\* "waiting": the provider will post it; "posted": it waits for the answer.
EmailStates == {"waiting", "posted", "answered"}

Events == {"ForwardedWithoutAccount", "RefundableConfirmationNeeded", "HotelResolutionNeeded",
           "CancellationDeadlineNeeded", "BookingMonitored"}

\* The events that tell the sender of a job.
JobEvents == {"HotelResolutionNeeded", "CancellationDeadlineNeeded", "BookingMonitored"}

\* A sent email: what it states, and how often it was posted.
EmailRecord == [state : EmailStates, posts : Nat, booking : Bookings, from : Address]

\* What a server does with the nth post of an email: read it, tell the sender,
\* answer the provider.  (event is what step "tell" emits.)
Serving == [msg : Messages, post : Nat, step : {"read", "tell", "answer"}, event : Events]

Job == [hotel : Catalogue \cup {None}, candidates : SUBSET Catalogue]

ASSUME InboxAssumption ==
    /\ \A b \in Bookings : {b.refundable, b.deadline} \subseteq BOOLEAN
    /\ IsFiniteSet(Servers)
    /\ MaxLost \in Nat
    /\ Idle \notin Serving

-----------------------------------------------------------------------------
(* The provider, outside the code. *)

Forward(m, box, capitals) ==
    /\ email[m].state = "unsent"
    /\ \E booking \in Bookings :
          email' = [email EXCEPT ![m] =
                      [state |-> "waiting", posts |-> 0, booking |-> booking,
                       from |-> [box |-> box, capitals |-> capitals]]]
    /\ UNCHANGED <<accountVars, serving, jobs, mailVars, unparsed, lost>>

\* No answer in time: it will be posted again.
GiveUp(m) ==
    /\ email[m].state = "posted"
    /\ lost[m] < MaxLost
    /\ lost' = [lost EXCEPT ![m] = @ + 1]
    /\ email' = [email EXCEPT ![m].state = "waiting"]
    /\ UNCHANGED <<accountVars, serving, jobs, mailVars, unparsed>>

-----------------------------------------------------------------------------
(* The webhook. *)

\* The sender's address, in lower case whatever the email says.
Sender(from) == [from EXCEPT !.capitals = FALSE]

Sent(m) == email[m].state # "unsent"

Step(s, step) == serving[s] # Idle /\ serving[s].step = step

Post(s, m) ==
    /\ email[m].state = "waiting"
    /\ serving[s] = Idle
    /\ email' = [email EXCEPT ![m] = [@ EXCEPT !.state = "posted", !.posts = email[m].posts + 1]]
    /\ serving' = [serving EXCEPT ![s] =
                     [msg |-> m, post |-> email'[m].posts,
                      step |-> IF HasAccount(Sender(email[m].from)) THEN "read" ELSE "tell",
                      event |-> "ForwardedWithoutAccount"]]
    /\ UNCHANGED <<accountVars, jobs, mailVars, unparsed, lost>>

\* The parser answers None: its call failed, or it found no booking.
ParseFails(s) ==
    /\ Step(s, "read")
    /\ unparsed' = unparsed \cup {serving[s].msg}
    /\ serving' = [serving EXCEPT ![s].step = "answer"]
    /\ UNCHANGED <<accountVars, email, jobs, mailVars, lost>>

\* Mutant: an event no Klaviyo flow listens to.
RefuseNonRefundable_Unlisted(s) ==
    /\ Step(s, "read")
    /\ ~email[serving[s].msg].booking.refundable
    /\ serving' = [serving EXCEPT ![s].step = "tell", ![s].event = "NotRefundable"]
    /\ UNCHANGED <<accountVars, email, jobs, mailVars, unparsed, lost>>

RefuseNonRefundable(s) ==
    /\ Step(s, "read")
    /\ ~email[serving[s].msg].booking.refundable
    /\ serving' = [serving EXCEPT ![s].step = "tell", ![s].event = "RefundableConfirmationNeeded"]
    /\ UNCHANGED <<accountVars, email, jobs, mailVars, unparsed, lost>>

\* The lookup may raise: then nothing is found.
CommitJob(s) ==
    LET m == serving[s].msg
        booking == email[m].booking
    IN  /\ Step(s, "read")
        /\ booking.refundable
        /\ \E hits \in {Hits(booking.country, booking.city), {}} :
              LET hotel == Accepted(hits)
                  event == IF hotel = None THEN "HotelResolutionNeeded"
                           ELSE IF ~booking.deadline THEN "CancellationDeadlineNeeded"
                           ELSE "BookingMonitored"
              IN  /\ jobs' = [jobs EXCEPT ![m] =
                                Append(@, [hotel |-> hotel, candidates |-> PickList(hits)])]
                  /\ serving' = [serving EXCEPT ![s].step = "tell", ![s].event = event]
        /\ UNCHANGED <<accountVars, email, mailVars, unparsed, lost>>

\* Klaviyo accepts the event or refuses it; ingestion goes on either way.
EmitEvent(s) ==
    LET m == serving[s].msg
    IN  /\ Step(s, "tell")
        /\ \/ /\ told' = [told EXCEPT ![m] = @ + 1]
              /\ announced' = IF serving[s].event \in JobEvents
                              THEN [announced EXCEPT ![m] = @ + 1] ELSE announced
              /\ refused' = refused
           \/ /\ refused' = [refused EXCEPT ![m] = @ + 1]
              /\ UNCHANGED <<told, announced>>
        /\ serving' = [serving EXCEPT ![s].step = "answer"]
        /\ UNCHANGED <<accountVars, email, jobs, unparsed, lost>>

\* The provider still waits for the answer to the post s serves.
Awaited(s) ==
    LET m == serving[s].msg
    IN  email[m].state = "posted" /\ email[m].posts = serving[s].post

\* Mutant: an unknown sender is answered with an error.
Answer_ErrorForStrangers(s) ==
    LET m == serving[s].msg
    IN  /\ Step(s, "answer")
        /\ email' = IF ~Awaited(s) THEN email
                    ELSE [email EXCEPT ![m].state =
                            IF serving[s].event = "ForwardedWithoutAccount" /\ m \notin unparsed
                            THEN "waiting" ELSE "answered"]
        /\ serving' = [serving EXCEPT ![s] = Idle]
        /\ UNCHANGED <<accountVars, jobs, mailVars, unparsed, lost>>

\* 200, whatever came of the email.
Answer(s) ==
    LET m == serving[s].msg
    IN  /\ Step(s, "answer")
        /\ email' = IF Awaited(s) THEN [email EXCEPT ![m].state = "answered"] ELSE email
        /\ serving' = [serving EXCEPT ![s] = Idle]
        /\ UNCHANGED <<accountVars, jobs, mailVars, unparsed, lost>>

\* The post s serves gets no 200: the provider will post the email again.
NoAnswer(s) ==
    LET m == serving[s].msg
    IN  /\ lost[m] < MaxLost
        /\ lost' = [lost EXCEPT ![m] = @ + 1]
        /\ email' = IF Awaited(s) THEN [email EXCEPT ![m].state = "waiting"] ELSE email
        /\ serving' = [serving EXCEPT ![s] = Idle]
        /\ UNCHANGED <<accountVars, jobs, mailVars, unparsed>>

\* Mutant: "always returns 200", exceptions included.
Raises_Answered(s) ==
    LET m == serving[s].msg
    IN  /\ Step(s, "read") \/ Step(s, "tell")
        /\ lost[m] < MaxLost
        /\ lost' = [lost EXCEPT ![m] = @ + 1]
        /\ email' = IF Awaited(s) THEN [email EXCEPT ![m].state = "answered"] ELSE email
        /\ serving' = [serving EXCEPT ![s] = Idle]
        /\ UNCHANGED <<accountVars, jobs, mailVars, unparsed>>

\* The database or the parser's client raises, before the commit or after it;
\* nothing catches it: a 500.
Raises(s) == (Step(s, "read") \/ Step(s, "tell")) /\ NoAnswer(s)

\* The process dies, at any step.
Die(s) == serving[s] # Idle /\ NoAnswer(s)

-----------------------------------------------------------------------------

InboxInit ==
    /\ AccountsInit
    /\ email = [m \in Messages |-> [state |-> "unsent"]]
    /\ serving = [s \in Servers |-> Idle]
    /\ jobs = [m \in Messages |-> <<>>]
    /\ told = [m \in Messages |-> 0]
    /\ announced = [m \in Messages |-> 0]
    /\ refused = [m \in Messages |-> 0]
    /\ unparsed = {}
    /\ lost = [m \in Messages |-> 0]

ServerStep(s) ==
    \/ \E m \in Messages : Post(s, m)
    \/ ParseFails(s) \/ RefuseNonRefundable(s) \/ CommitJob(s)
    \/ EmitEvent(s) \/ Answer(s) \/ Raises(s) \/ Die(s)

InboxNext ==
    \/ AccountsNext /\ UNCHANGED inboxVars
    \/ \E m \in Messages :
          \/ \E box \in Boxes, capitals \in BOOLEAN : Forward(m, box, capitals)
          \/ GiveUp(m)
    \/ \E s \in Servers : ServerStep(s)

InboxSpec == InboxInit /\ [][InboxNext]_serviceVars

-----------------------------------------------------------------------------
(* Properties. *)

EmailTypeOK == email \in [Messages -> [state : {"unsent"}] \cup EmailRecord]

MailTypeOK ==
    /\ jobs \in [Messages -> Seq(Job)]
    /\ told \in [Messages -> Nat]
    /\ announced \in [Messages -> Nat]
    /\ refused \in [Messages -> Nat]
    /\ unparsed \subseteq Messages
    /\ lost \in [Messages -> Nat]

ServedWasSent ==
    /\ serving \in [Servers -> Serving \cup {Idle}]
    /\ \A s \in Servers : serving[s] # Idle => Sent(serving[s].msg)

\* Every variable keeps its type, and what is served was sent.
InboxTypeOK == AccountsTypeOK /\ EmailTypeOK /\ MailTypeOK /\ ServedWasSent

\* An email is posted again only because of a mishap: no outcome of the
\* ingestion, a stranger's email, a booking that cannot be monitored or a prompt
\* that Klaviyo refused included, makes the provider retry, and so repeat the
\* job.  (The docstring of app/routers/inbound.py.)
RepostedOnlyIfLost ==
    \A m \in Messages : Sent(m) =>
        /\ email[m].posts <= 1 + lost[m]
        /\ Len(jobs[m]) <= 1 + lost[m]

\* Why: a waiting email had a mishap with every post so far, any other with
\* all but the last; and a post yields one job at most, so the jobs and the
\* servers still reading the email are no more than its posts.
Reading(m) == {s \in Servers : Step(s, "read") /\ serving[s].msg = m}

Accounted(m) ==
    /\ Sent(m) =>
          /\ email[m].posts <= lost[m] + (IF email[m].state = "waiting" THEN 0 ELSE 1)
          /\ Len(jobs[m]) + Cardinality(Reading(m)) <= email[m].posts
    /\ ~Sent(m) => jobs[m] = <<>>

PostsAccounted == \A m \in Messages : Accounted(m)

\* The sender was told of m, Klaviyo refused to, or the parser failed on it.
Settled(m) == told[m] > 0 \/ refused[m] > 0 \/ m \in unparsed

\* The servers about to tell the sender of a job.
Announcing(m) ==
    {s \in Servers : /\ Step(s, "tell") /\ serving[s].msg = m
                     /\ serving[s].event \in JobEvents}

Announced(m) ==
    Len(jobs[m]) <= announced[m] + refused[m] + lost[m] + Cardinality(Announcing(m))

\* No email vanishes in a crash: a server that dies or raises between the
\* commit and the prompt has not answered, so the email comes again, and it is
\* answered for good only after its sender was told of it, or Klaviyo refused to
\* tell, or the parser failed.  (Those two are answered like any outcome, and
\* nothing makes up for them.)  And of the jobs made from it at most one for each
\* refusal and each mishap is left that its sender was never told of.
CrashLosesNoEmail ==
    \A m \in Messages :
        /\ email[m].state = "answered" => Settled(m)
        /\ Announced(m)

\* Why: no server gets as far as the answer otherwise.
AnswersAreSettled == \A s \in Servers : Step(s, "answer") => Settled(serving[s].msg)

=============================================================================

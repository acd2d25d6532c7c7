----------------------------- MODULE InboxProofs -----------------------------
(***************************************************************************)
(* Proofs about the accounts and the inbox, for any number of visitors,    *)
(* mailboxes, emails and servers, and any catalogue of hotels.             *)
(***************************************************************************)
EXTENDS Inbox, FiniteSetTheorems, TLAPS

(* Types. *)

\* The accounts' own steps keep the types.
LEMMA AccountsStep ==
    ASSUME AccountsTypeOK, AccountsNext PROVE AccountsTypeOK'
  <1> USE DEF AccountsTypeOK
  <1>1. ASSUME NEW v \in Visitors, LookUpEmail(v) PROVE AccountsTypeOK'
    <2>1. PICK e \in Address :
             visit' = [visit EXCEPT ![v] =
                         [step |-> IF HasAccount(e) THEN "conflict" ELSE "insert", email |-> e]]
      BY <1>1 DEF LookUpEmail
    <2>2. visit' \in [Visitors -> [step : {"new"}] \cup [step : VisitSteps, email : Address]]
      BY <2>1 DEF VisitSteps
    <2>3. QED
      BY <1>1, <2>2 DEF LookUpEmail
  <1>2. ASSUME NEW v \in Visitors, InsertUser(v) PROVE AccountsTypeOK'
    <2>1. visit[v] \in [step : VisitSteps, email : Address]
      BY <1>2 DEF InsertUser
    <2>2. accounts' \in [Address -> Visitors \cup {NoAccount}]
      BY <1>2, <2>1 DEF InsertUser
    <2>3. visit' \in [Visitors -> [step : {"new"}] \cup [step : VisitSteps, email : Address]]
      <3>1. PICK step \in VisitSteps :
               visit' = [visit EXCEPT ![v] = [visit[v] EXCEPT !.step = step]]
        BY <1>2 DEF InsertUser, VisitSteps
      <3>2. [visit[v] EXCEPT !.step = step] \in [step : VisitSteps, email : Address]
        BY <2>1
      <3>3. QED
        BY <3>1, <3>2
    <2>4. QED
      BY <2>2, <2>3
  <1>3. QED
    BY <1>1, <1>2 DEF AccountsNext

\* A sent email has all its columns.
LEMMA SentEmail ==
    ASSUME InboxTypeOK, NEW m \in Messages, Sent(m)
    PROVE  email[m] \in EmailRecord
  BY DEF InboxTypeOK, EmailTypeOK, Sent, EmailRecord

\* Only the state of a sent email changes: the types and what is sent stay.
LEMMA EmailMoves ==
    ASSUME InboxTypeOK, NEW m \in Messages, NEW state \in EmailStates, Sent(m),
           email' = [email EXCEPT ![m].state = state]
    PROVE  /\ EmailTypeOK'
           /\ \A n \in Messages : Sent(n) => Sent(n)'
  <1>1. email[m] \in EmailRecord
    BY SentEmail
  <1>2. [email[m] EXCEPT !.state = state] \in EmailRecord
    BY <1>1 DEF EmailRecord
  <1>3. email' = [email EXCEPT ![m] = [email[m] EXCEPT !.state = state]]
    OBVIOUS
  <1>4. EmailTypeOK'
    BY <1>2, <1>3 DEF InboxTypeOK, EmailTypeOK, EmailRecord
  <1>5. state # "unsent"
    BY DEF EmailStates
  <1>6. \A n \in Messages : Sent(n) => Sent(n)'
    BY <1>1, <1>2, <1>3, <1>5 DEF Sent, EmailRecord, InboxTypeOK, EmailTypeOK
  <1>7. QED
    BY <1>4, <1>6

\* A server moves on with the post it serves.
LEMMA ServingMoves ==
    ASSUME InboxTypeOK, NEW s \in Servers, serving[s] # Idle,
           NEW step \in {"read", "tell", "answer"}, NEW event \in Events
    PROVE  /\ serving[s] \in Serving
           /\ [serving[s] EXCEPT !.step = step] \in Serving
           /\ [serving[s] EXCEPT !.step = step, !.event = event] \in Serving
  <1>1. serving[s] \in Serving
    BY DEF InboxTypeOK, ServedWasSent
  <1>2. QED
    BY <1>1 DEF Serving

\* What the lookup finds, it finds in the catalogue.
LEMMA AcceptedType ==
    ASSUME NEW hits \in SUBSET Catalogue
    PROVE  Accepted(hits) \in Catalogue \cup {None} /\ PickList(hits) \in SUBSET Catalogue
  <1>1. CASE Cardinality(hits) = 1
    <2>1. IsFiniteSet(hits)
      BY HotelLookupAssumption, FS_Subset
    <2>2. \E h : hits = {h}
      BY <1>1, <2>1, FS_Singleton
    <2>3. QED
      BY <2>2 DEF Accepted, PickList
  <1>2. CASE Cardinality(hits) # 1
    BY <1>2 DEF Accepted, PickList
  <1>3. QED
    BY <1>1, <1>2

\* Steps of the inbox leave the accounts alone.
LEMMA AccountsFrame ==
    ASSUME AccountsTypeOK, UNCHANGED accountVars
    PROVE  AccountsTypeOK'
  BY DEF AccountsTypeOK, accountVars

\* The provider's steps.
LEMMA ForwardType ==
    ASSUME InboxTypeOK, NEW m \in Messages, NEW box \in Boxes, NEW capitals \in BOOLEAN,
           Forward(m, box, capitals)
    PROVE  InboxTypeOK'
  <1>1. PICK booking \in Bookings :
           email' = [email EXCEPT ![m] =
                       [state |-> "waiting", posts |-> 0, booking |-> booking,
                        from |-> [box |-> box, capitals |-> capitals]]]
    BY DEF Forward
  <1>2. EmailTypeOK'
    BY <1>1 DEF InboxTypeOK, EmailTypeOK, EmailRecord, EmailStates, Address
  <1>3. \A n \in Messages : Sent(n) => Sent(n)'
    BY <1>1 DEF Sent, InboxTypeOK, EmailTypeOK
  <1>4. UNCHANGED <<serving, jobs, mailVars, unparsed, lost>>
    BY DEF Forward
  <1>5. ServedWasSent' /\ MailTypeOK'
    BY <1>3, <1>4 DEF InboxTypeOK, ServedWasSent, MailTypeOK, Serving, mailVars
  <1>6. AccountsTypeOK'
    BY AccountsFrame DEF Forward, InboxTypeOK
  <1>7. QED
    BY <1>2, <1>5, <1>6 DEF InboxTypeOK

\* An email that is to be posted again.
LEMMA GiveUpType ==
    ASSUME InboxTypeOK, NEW m \in Messages, GiveUp(m)
    PROVE  InboxTypeOK'
  <1>1. Sent(m)
    BY DEF GiveUp, Sent
  <1>2. EmailTypeOK' /\ \A n \in Messages : Sent(n) => Sent(n)'
    BY <1>1, EmailMoves DEF GiveUp, EmailStates
  <1>3. ServedWasSent'
    BY <1>2 DEF GiveUp, InboxTypeOK, ServedWasSent, Serving
  <1>4. MailTypeOK'
    BY DEF GiveUp, InboxTypeOK, MailTypeOK, mailVars
  <1>5. AccountsTypeOK'
    BY AccountsFrame DEF GiveUp, InboxTypeOK
  <1>6. QED
    BY <1>2, <1>3, <1>4, <1>5 DEF InboxTypeOK

\* The server's steps.
LEMMA PostType ==
    ASSUME InboxTypeOK, NEW s \in Servers, NEW m \in Messages, Post(s, m)
    PROVE  InboxTypeOK'
  <1>1. Sent(m)
    BY DEF Post, Sent
  <1>2. email[m] \in EmailRecord
    BY <1>1, SentEmail
  <1> DEFINE record == [email[m] EXCEPT !.state = "posted", !.posts = email[m].posts + 1]
  <1>3. record \in EmailRecord /\ email' = [email EXCEPT ![m] = record]
    <2>1. record \in EmailRecord
      <3>1. \A n \in Nat : [email[m] EXCEPT !.state = "posted", !.posts = n] \in EmailRecord
        BY <1>2 DEF EmailRecord, EmailStates
      <3>2. email[m].posts + 1 \in Nat
        BY <1>2 DEF EmailRecord
      <3>3. QED
        BY <3>1, <3>2
    <2>2. email' = [email EXCEPT ![m] = record]
      BY DEF Post
    <2>3. QED
      BY <2>1, <2>2
  <1>4. EmailTypeOK'
    BY <1>3 DEF InboxTypeOK, EmailTypeOK
  <1>5. record.state = "posted"
    BY <1>2, <1>3 DEF EmailRecord
  <1>6. \A n \in Messages : Sent(n) => Sent(n)'
    BY <1>3, <1>5 DEF Sent, InboxTypeOK, EmailTypeOK
  <1>7. Sent(m)'
    BY <1>1, <1>6
  <1>8. PICK served \in Serving : served.msg = m /\ serving' = [serving EXCEPT ![s] = served]
    <2> DEFINE served == [msg |-> m, post |-> email'[m].posts,
                          step |-> IF HasAccount(Sender(email[m].from)) THEN "read" ELSE "tell",
                          event |-> "ForwardedWithoutAccount"]
    <2>1. email'[m].posts \in Nat
      BY <1>3 DEF InboxTypeOK, EmailTypeOK, EmailRecord
    <2>2. served \in Serving
      BY <2>1 DEF Serving, Events
    <2>3. serving' = [serving EXCEPT ![s] = served] /\ served.msg = m
      BY DEF Post
    <2>4. QED
      BY <2>2, <2>3
  <1>9. ServedWasSent'
    BY <1>6, <1>7, <1>8 DEF InboxTypeOK, ServedWasSent, Serving
  <1>10. MailTypeOK'
    BY DEF Post, InboxTypeOK, MailTypeOK, mailVars
  <1>11. AccountsTypeOK'
    BY AccountsFrame DEF Post, InboxTypeOK
  <1>12. QED
    BY <1>4, <1>9, <1>10, <1>11 DEF InboxTypeOK

\* A server that moves on without touching the emails.
LEMMA MovesOn ==
    ASSUME InboxTypeOK, NEW s \in Servers, serving[s] # Idle,
           NEW served \in Serving, served.msg = serving[s].msg,
           serving' = [serving EXCEPT ![s] = served], UNCHANGED email
    PROVE  EmailTypeOK' /\ ServedWasSent'
  <1>1. EmailTypeOK'
    BY DEF InboxTypeOK, EmailTypeOK
  <1>2. ServedWasSent'
    BY DEF InboxTypeOK, ServedWasSent, Sent
  <1>3. QED
    BY <1>1, <1>2

\* An email that does not parse.
LEMMA ParseFailsType ==
    ASSUME InboxTypeOK, NEW s \in Servers, ParseFails(s)
    PROVE  InboxTypeOK'
  <1>1. serving[s] \in Serving /\ serving[s] # Idle
    BY DEF ParseFails, Step, InboxTypeOK, ServedWasSent
  <1> DEFINE served == [serving[s] EXCEPT !.step = "answer"]
  <1>2. served \in Serving /\ served.msg = serving[s].msg
    BY <1>1 DEF Serving
  <1>3. EmailTypeOK' /\ ServedWasSent'
    BY <1>1, <1>2, MovesOn DEF ParseFails
  <1>4. MailTypeOK'
    BY <1>1 DEF ParseFails, InboxTypeOK, MailTypeOK, Serving, mailVars
  <1>5. AccountsTypeOK'
    BY AccountsFrame DEF ParseFails, InboxTypeOK
  <1>6. QED
    BY <1>3, <1>4, <1>5 DEF InboxTypeOK

\* A booking that cannot be monitored.
LEMMA RefuseType ==
    ASSUME InboxTypeOK, NEW s \in Servers, RefuseNonRefundable(s)
    PROVE  InboxTypeOK'
  <1>1. serving[s] \in Serving /\ serving[s] # Idle
    BY DEF RefuseNonRefundable, Step, InboxTypeOK, ServedWasSent
  <1> DEFINE served == [serving[s] EXCEPT !.step = "tell", !.event = "RefundableConfirmationNeeded"]
  <1>2. served \in Serving /\ served.msg = serving[s].msg
    BY <1>1 DEF Serving, Events
  <1>3. serving' = [serving EXCEPT ![s] = served] /\ UNCHANGED email
    BY DEF RefuseNonRefundable
  <1>4. EmailTypeOK' /\ ServedWasSent'
    BY <1>1, <1>2, <1>3, MovesOn
  <1>5. MailTypeOK'
    BY DEF RefuseNonRefundable, InboxTypeOK, MailTypeOK, mailVars
  <1>6. AccountsTypeOK'
    BY AccountsFrame DEF RefuseNonRefundable, InboxTypeOK
  <1>7. QED
    BY <1>4, <1>5, <1>6 DEF InboxTypeOK

\* What a commit adds, and what the server says next.
LEMMA CommitJobAdds ==
    ASSUME InboxTypeOK, NEW s \in Servers, CommitJob(s)
    PROVE  \E job \in Job, event \in JobEvents,
              hits \in {Hits(email[serving[s].msg].booking.country,
                             email[serving[s].msg].booking.city), {}} :
              /\ job = [hotel |-> Accepted(hits), candidates |-> PickList(hits)]
              /\ jobs' = [jobs EXCEPT ![serving[s].msg] = Append(@, job)]
              /\ serving' = [serving EXCEPT ![s].step = "tell", ![s].event = event]
  <1> DEFINE m == serving[s].msg
  <1>1. PICK hits \in {Hits(email[m].booking.country, email[m].booking.city), {}} :
           LET hotel == Accepted(hits)
               event == IF hotel = None THEN "HotelResolutionNeeded"
                        ELSE IF ~email[m].booking.deadline THEN "CancellationDeadlineNeeded"
                        ELSE "BookingMonitored"
           IN  /\ jobs' = [jobs EXCEPT ![m] =
                             Append(@, [hotel |-> hotel, candidates |-> PickList(hits)])]
               /\ serving' = [serving EXCEPT ![s].step = "tell", ![s].event = event]
    BY DEF CommitJob
  <1>2. hits \in SUBSET Catalogue
    BY DEF Hits
  <1>3. [hotel |-> Accepted(hits), candidates |-> PickList(hits)] \in Job
    BY <1>2, AcceptedType DEF Job
  <1>4. QED
    BY <1>1, <1>3 DEF JobEvents

\* A job, with what was found of its hotel.
LEMMA CommitJobType ==
    ASSUME InboxTypeOK, NEW s \in Servers, CommitJob(s)
    PROVE  InboxTypeOK'
  <1> DEFINE m == serving[s].msg
  <1>1. serving[s] \in Serving /\ serving[s] # Idle
    BY DEF CommitJob, Step, InboxTypeOK, ServedWasSent
  <1>2. PICK job \in Job, event \in Events :
           /\ jobs' = [jobs EXCEPT ![m] = Append(@, job)]
           /\ serving' = [serving EXCEPT ![s].step = "tell", ![s].event = event]
    BY CommitJobAdds DEF JobEvents, Events
  <1> DEFINE served == [serving[s] EXCEPT !.step = "tell", !.event = event]
  <1>3. served \in Serving /\ served.msg = serving[s].msg
    BY <1>1 DEF Serving
  <1>4. serving' = [serving EXCEPT ![s] = served] /\ UNCHANGED email
    BY <1>2 DEF CommitJob
  <1>5. EmailTypeOK' /\ ServedWasSent'
    BY <1>1, <1>3, <1>4, MovesOn
  <1>6. MailTypeOK'
    <2>1. m \in Messages
      BY <1>1 DEF Serving
    <2>2. Append(jobs[m], job) \in Seq(Job)
      BY <2>1 DEF InboxTypeOK, MailTypeOK
    <2>3. QED
      BY <1>2, <2>1, <2>2 DEF CommitJob, InboxTypeOK, MailTypeOK, mailVars
  <1>7. AccountsTypeOK'
    BY AccountsFrame DEF CommitJob, InboxTypeOK
  <1>8. QED
    BY <1>5, <1>6, <1>7 DEF InboxTypeOK

\* An event for the sender.
LEMMA EmitEventType ==
    ASSUME InboxTypeOK, NEW s \in Servers, EmitEvent(s)
    PROVE  InboxTypeOK'
  <1>1. serving[s] \in Serving /\ serving[s] # Idle
    BY DEF EmitEvent, Step, InboxTypeOK, ServedWasSent
  <1> DEFINE served == [serving[s] EXCEPT !.step = "answer"]
  <1>2. served \in Serving /\ served.msg = serving[s].msg
    BY <1>1 DEF Serving
  <1>3. EmailTypeOK' /\ ServedWasSent'
    BY <1>1, <1>2, MovesOn DEF EmitEvent
  <1>4. MailTypeOK'
    <2>1. serving[s].msg \in Messages
      BY <1>1 DEF Serving
    <2>2. UNCHANGED <<jobs, unparsed, lost>>
      BY DEF EmitEvent
    <2>3. \A counter \in [Messages -> Nat] :
             [counter EXCEPT ![serving[s].msg] = @ + 1] \in [Messages -> Nat]
      BY <2>1
    <2>4. told' \in [Messages -> Nat] /\ announced' \in [Messages -> Nat]
          /\ refused' \in [Messages -> Nat]
      BY <2>3 DEF EmitEvent, InboxTypeOK, MailTypeOK
    <2>5. QED
      BY <2>2, <2>4 DEF InboxTypeOK, MailTypeOK
  <1>5. AccountsTypeOK'
    BY AccountsFrame DEF EmitEvent, InboxTypeOK
  <1>6. QED
    BY <1>3, <1>4, <1>5 DEF InboxTypeOK

\* A server is done with its post, one way or the other.
LEMMA GetsFree ==
    ASSUME InboxTypeOK, NEW s \in Servers, serving[s] # Idle, NEW state \in EmailStates,
           \/ UNCHANGED email
           \/ email' = [email EXCEPT ![serving[s].msg].state = state],
           serving' = [serving EXCEPT ![s] = Idle]
    PROVE  EmailTypeOK' /\ ServedWasSent'
  <1>1. serving[s].msg \in Messages /\ Sent(serving[s].msg)
    BY DEF InboxTypeOK, ServedWasSent, Serving
  <1>2. EmailTypeOK' /\ \A n \in Messages : Sent(n) => Sent(n)'
    <2>1. CASE UNCHANGED email
      BY <2>1 DEF InboxTypeOK, EmailTypeOK, Sent
    <2>2. CASE email' = [email EXCEPT ![serving[s].msg].state = state]
      BY <1>1, <2>2, EmailMoves
    <2>3. QED
      BY <2>1, <2>2
  <1>3. ServedWasSent'
    BY <1>2 DEF InboxTypeOK, ServedWasSent, Serving
  <1>4. QED
    BY <1>2, <1>3

\* The 200.
LEMMA AnswerType ==
    ASSUME InboxTypeOK, NEW s \in Servers, Answer(s)
    PROVE  InboxTypeOK'
  <1>1. EmailTypeOK' /\ ServedWasSent'
    BY GetsFree DEF Answer, Step, EmailStates
  <1>2. MailTypeOK'
    BY DEF Answer, InboxTypeOK, MailTypeOK, mailVars
  <1>3. AccountsTypeOK'
    BY AccountsFrame DEF Answer, InboxTypeOK
  <1>4. QED
    BY <1>1, <1>2, <1>3 DEF InboxTypeOK

\* No answer.
LEMMA NoAnswerType ==
    ASSUME InboxTypeOK, NEW s \in Servers, serving[s] # Idle, NoAnswer(s)
    PROVE  InboxTypeOK'
  <1>1. EmailTypeOK' /\ ServedWasSent'
    BY GetsFree DEF NoAnswer, EmailStates
  <1>2. MailTypeOK'
    BY DEF NoAnswer, InboxTypeOK, MailTypeOK, ServedWasSent, Serving, mailVars
  <1>3. AccountsTypeOK'
    BY AccountsFrame DEF NoAnswer, InboxTypeOK
  <1>4. QED
    BY <1>1, <1>2, <1>3 DEF InboxTypeOK

\* A server that dies or raises was serving, and gives no answer.
LEMMA Unanswered ==
    ASSUME NEW s \in Servers, Raises(s) \/ Die(s)
    PROVE  serving[s] # Idle /\ NoAnswer(s)
  BY DEF Raises, Die, Step

\* Steps of the accounts leave the inbox alone.
LEMMA InboxFrame ==
    ASSUME InboxTypeOK, UNCHANGED inboxVars
    PROVE  EmailTypeOK' /\ ServedWasSent' /\ MailTypeOK'
  BY DEF InboxTypeOK, inboxVars, mailVars, EmailTypeOK, ServedWasSent, MailTypeOK, Sent

\* Every step keeps the types.
LEMMA InboxTypeStep ==
    ASSUME InboxTypeOK, [InboxNext]_serviceVars PROVE InboxTypeOK'
  <1>1. CASE AccountsNext /\ UNCHANGED inboxVars
    BY <1>1, AccountsStep, InboxFrame DEF InboxTypeOK
  <1>2. CASE UNCHANGED serviceVars
    <2>1. UNCHANGED accountVars /\ UNCHANGED inboxVars
      BY <1>2 DEF serviceVars
    <2>2. AccountsTypeOK'
      BY <2>1, AccountsFrame DEF InboxTypeOK
    <2>3. QED
      BY <2>1, <2>2, InboxFrame DEF InboxTypeOK
  <1>3. ASSUME NEW m \in Messages, NEW box \in Boxes, NEW capitals \in BOOLEAN,
               Forward(m, box, capitals)
        PROVE  InboxTypeOK'
    BY <1>3, ForwardType
  <1>4. ASSUME NEW m \in Messages, GiveUp(m) PROVE InboxTypeOK'
    BY <1>4, GiveUpType
  <1>5. ASSUME NEW s \in Servers, ServerStep(s) PROVE InboxTypeOK'
    BY <1>5, PostType, ParseFailsType, RefuseType, CommitJobType, EmitEventType,
       AnswerType, Unanswered, NoAnswerType DEF ServerStep
  <1>6. QED
    BY <1>1, <1>2, <1>3, <1>4, <1>5 DEF InboxNext

\* The types hold at first.
LEMMA InboxTypeInit == ASSUME InboxInit PROVE InboxTypeOK
  <1>1. AccountsTypeOK
    BY DEF InboxInit, AccountsInit, AccountsTypeOK
  <1>2. EmailTypeOK
    BY DEF InboxInit, EmailTypeOK
  <1>3. MailTypeOK
    BY DEF InboxInit, MailTypeOK
  <1>4. ServedWasSent
    BY DEF InboxInit, ServedWasSent
  <1>5. QED
    BY <1>1, <1>2, <1>3, <1>4 DEF InboxTypeOK

\* Every variable of the accounts and the inbox keeps its type.
THEOREM InboxTypeCorrect == InboxSpec => []InboxTypeOK
  <1>1. InboxInit => InboxTypeOK
    BY InboxTypeInit
  <1>2. InboxTypeOK /\ [InboxNext]_serviceVars => InboxTypeOK'
    BY InboxTypeStep
  <1>3. QED
    BY <1>1, <1>2, PTL DEF InboxSpec

-----------------------------------------------------------------------------
(* Registration. *)

\* An account, once there, keeps its password.
LEMMA PasswordsStay ==
    ASSUME AccountsTypeOK, AccountsNext, NEW e \in Address, HasAccount(e)
    PROVE  accounts'[e] = accounts[e]
  BY DEF AccountsNext, LookUpEmail, InsertUser, AccountsTypeOK, HasAccount

\* Accounts move on, and who could log in still can.
LEMMA RegistrationStep ==
    ASSUME AccountsTypeOK, RegisteredCanLogin, AccountsNext
    PROVE  RegisteredCanLogin'
  <1> SUFFICES ASSUME NEW v \in Visitors, visit'[v].step = "created"
               PROVE  CanLogin(visit[v].email, v)'
    BY DEF RegisteredCanLogin
  <1>1. CASE visit[v].step = "created" /\ visit'[v] = visit[v]
    <2>1. visit[v].email \in Address
      BY <1>1 DEF AccountsTypeOK
    <2>2. CanLogin(visit[v].email, v)
      BY <1>1 DEF RegisteredCanLogin
    <2>3. QED
      BY <1>1, <2>1, <2>2, PasswordsStay DEF CanLogin, HasAccount
  <1>2. CASE InsertUser(v)
    <2>1. visit[v].email \in Address
      BY <1>2 DEF InsertUser, AccountsTypeOK
    <2>2. visit'[v].email = visit[v].email /\ ~HasAccount(visit[v].email)
      BY <1>2 DEF InsertUser, AccountsTypeOK
    <2>3. accounts'[visit[v].email] = v
      BY <1>2, <2>1, <2>2 DEF InsertUser, AccountsTypeOK
    <2>4. QED
      BY <2>2, <2>3, AccountsAssumption DEF CanLogin, HasAccount
  <1>3. visit'[v] = visit[v] \/ InsertUser(v)
    <2>1. ASSUME NEW u \in Visitors, LookUpEmail(u) PROVE visit'[v] = visit[v]
      <3>1. CASE u = v
        BY <3>1, <2>1 DEF LookUpEmail, AccountsTypeOK
      <3>2. CASE u # v
        BY <3>2, <2>1 DEF LookUpEmail, AccountsTypeOK
      <3>3. QED
        BY <3>1, <3>2
    <2>2. ASSUME NEW u \in Visitors, InsertUser(u), u # v PROVE visit'[v] = visit[v]
      BY <2>2 DEF InsertUser, AccountsTypeOK
    <2>3. QED
      BY <2>1, <2>2 DEF AccountsNext
  <1>4. QED
    BY <1>1, <1>2, <1>3

\* Whoever is told their account was created can log in to it, however many
\* visitors register the same address at the same time.
THEOREM RegisteredCanLoginAlways == InboxSpec => []RegisteredCanLogin
  <1>1. InboxInit => RegisteredCanLogin
    BY DEF InboxInit, AccountsInit, RegisteredCanLogin
  <1>2. InboxTypeOK /\ RegisteredCanLogin /\ [InboxNext]_serviceVars => RegisteredCanLogin'
    <2> SUFFICES ASSUME InboxTypeOK, RegisteredCanLogin, [InboxNext]_serviceVars
                 PROVE  RegisteredCanLogin'
      OBVIOUS
    <2>1. CASE AccountsNext
      BY <2>1, RegistrationStep DEF InboxTypeOK
    <2>2. CASE UNCHANGED accountVars
      BY <2>2 DEF accountVars, RegisteredCanLogin, CanLogin, HasAccount
    <2>3. AccountsNext \/ UNCHANGED accountVars
      BY DEF InboxNext, Forward, GiveUp, ServerStep, Post, ParseFails, RefuseNonRefundable,
         CommitJob, EmitEvent, Answer, Raises, Die, NoAnswer, serviceVars
    <2>4. QED
      BY <2>1, <2>2, <2>3
  <1>3. QED
    BY <1>1, <1>2, InboxTypeCorrect, PTL DEF InboxSpec

-----------------------------------------------------------------------------
(* Posts and jobs. *)

\* The servers that read an email are finitely many.
LEMMA ReadingFinite ==
    ASSUME NEW m PROVE IsFiniteSet(Reading(m)) /\ Cardinality(Reading(m)) \in Nat
  <1>1. Reading(m) \in SUBSET Servers
    BY DEF Reading
  <1>2. IsFiniteSet(Reading(m))
    BY <1>1, FS_Subset, InboxAssumption
  <1>3. QED
    BY <1>2, FS_CardinalityType

\* An email stays accounted for if no new post or job comes, and it waits again
\* only after a mishap.
LEMMA AccountKept ==
    ASSUME InboxTypeOK, InboxTypeOK', PostsAccounted, NEW n \in Messages,
           ~Sent(n) => email'[n] = email[n],
           Sent(n) => /\ Sent(n)'
                      /\ email'[n].posts = email[n].posts
                      /\ \/ email'[n].state = "waiting" => email[n].state = "waiting"
                         \/ lost'[n] = lost[n] + 1,
           jobs'[n] = jobs[n],
           lost'[n] = lost[n] \/ lost'[n] = lost[n] + 1,
           Reading(n)' \subseteq Reading(n)
    PROVE  Accounted(n)'
  <1>1. IsFiniteSet(Reading(n)) /\ Cardinality(Reading(n)) \in Nat
    BY ReadingFinite
  <1>2. IsFiniteSet(Reading(n)') /\ Cardinality(Reading(n)') <= Cardinality(Reading(n))
    BY <1>1, FS_Subset
  <1>3. Cardinality(Reading(n)') \in Nat
    BY <1>2, FS_CardinalityType
  <1>4. lost[n] \in Nat /\ Len(jobs[n]) \in Nat
    BY DEF InboxTypeOK, MailTypeOK
  <1>5. CASE Sent(n)
    <2>1. email[n].posts \in Nat
      BY <1>5, SentEmail DEF EmailRecord
    <2>2. /\ email[n].posts <= lost[n] + (IF email[n].state = "waiting" THEN 0 ELSE 1)
          /\ Len(jobs[n]) + Cardinality(Reading(n)) <= email[n].posts
      BY <1>5 DEF PostsAccounted, Accounted
    <2>3. Len(jobs'[n]) + Cardinality(Reading(n)') <= email'[n].posts
      BY <1>1, <1>2, <1>3, <1>4, <1>5, <2>1, <2>2
    <2>4. email'[n].posts <= lost'[n] + (IF email'[n].state = "waiting" THEN 0 ELSE 1)
      <3>1. CASE lost'[n] = lost[n] + 1
        BY <1>4, <1>5, <2>1, <2>2, <3>1
      <3>2. CASE lost'[n] = lost[n] /\ (email'[n].state = "waiting" => email[n].state = "waiting")
        BY <1>4, <1>5, <2>1, <2>2, <3>2
      <3>3. QED
        BY <1>4, <1>5, <3>1, <3>2
    <2>5. QED
      BY <1>5, <2>3, <2>4 DEF Accounted
  <1>6. CASE ~Sent(n)
    <2>1. ~Sent(n)' /\ jobs'[n] = <<>>
      BY <1>6 DEF Sent, PostsAccounted, Accounted
    <2>2. QED
      BY <2>1 DEF Accounted
  <1>7. QED
    BY <1>5, <1>6

\* A new email: nothing has been made of it.
LEMMA ForwardAccounted ==
    ASSUME InboxTypeOK, InboxTypeOK', PostsAccounted, NEW m \in Messages,
           NEW box \in Boxes, NEW capitals \in BOOLEAN, Forward(m, box, capitals)
    PROVE  PostsAccounted'
  <1> SUFFICES ASSUME NEW n \in Messages PROVE Accounted(n)'
    BY DEF PostsAccounted
  <1>1. UNCHANGED <<serving, jobs, lost>> /\ Reading(n)' = Reading(n)
    BY DEF Forward, Reading, Step
  <1>2. CASE n # m
    <2>1. email'[n] = email[n]
      BY <1>2 DEF Forward
    <2>2. QED
      BY <1>1, <2>1, AccountKept DEF Sent
  <1>3. CASE n = m
    <2>1. ~Sent(m)
      BY DEF Forward, Sent
    <2>2. email'[m].posts = 0 /\ email'[m].state = "waiting"
      BY DEF Forward, InboxTypeOK, EmailTypeOK
    <2>3. jobs'[m] = <<>> /\ Len(jobs'[m]) = 0
      BY <1>1, <2>1 DEF PostsAccounted, Accounted
    <2>4. Reading(m)' = {}
      BY <1>1, <1>3, <2>1 DEF Reading, Step, InboxTypeOK, ServedWasSent
    <2>5. Cardinality(Reading(m)') = 0
      BY <2>4, FS_EmptySet
    <2>6. lost'[m] \in Nat
      BY DEF InboxTypeOK, MailTypeOK
    <2>7. QED
      BY <1>3, <2>2, <2>3, <2>5, <2>6 DEF Accounted, Sent
  <1>4. QED
    BY <1>2, <1>3

\* The provider gives up: one more mishap, no post more.
LEMMA GiveUpAccounted ==
    ASSUME InboxTypeOK, InboxTypeOK', PostsAccounted, NEW m \in Messages, GiveUp(m)
    PROVE  PostsAccounted'
  <1> SUFFICES ASSUME NEW n \in Messages PROVE Accounted(n)'
    BY DEF PostsAccounted
  <1>1. UNCHANGED <<serving, jobs>> /\ Reading(n)' = Reading(n)
    BY DEF GiveUp, Reading, Step
  <1>2. Sent(m)
    BY DEF GiveUp, Sent
  <1>3. email[m] \in EmailRecord
    BY <1>2, SentEmail
  <1>4. email'[m].posts = email[m].posts /\ email'[m].state = "waiting"
    BY <1>3 DEF GiveUp, InboxTypeOK, EmailTypeOK, EmailRecord
  <1>5. n # m => email'[n] = email[n] /\ lost'[n] = lost[n]
    BY DEF GiveUp
  <1>6. lost'[m] = lost[m] + 1
    BY DEF GiveUp, InboxTypeOK, MailTypeOK, mailVars
  <1>7. Sent(n) => Sent(n)'
    BY <1>4, <1>5 DEF Sent
  <1>8. QED
    BY <1>1, <1>2, <1>4, <1>5, <1>6, <1>7, AccountKept

\* One more post, one more server that may read.
LEMMA PostAccounted ==
    ASSUME InboxTypeOK, InboxTypeOK', PostsAccounted, NEW s \in Servers,
           NEW m \in Messages, Post(s, m)
    PROVE  PostsAccounted'
  <1> SUFFICES ASSUME NEW n \in Messages PROVE Accounted(n)'
    BY DEF PostsAccounted
  <1>1. UNCHANGED <<jobs, lost>>
    BY DEF Post
  <1>2. serving'[s] # Idle /\ serving'[s].msg = m
    <2>1. serving'[s].msg = m
      BY DEF Post, InboxTypeOK, ServedWasSent
    <2>2. serving'[s] # Idle
      <3>1. email'[m].posts \in Nat
        <4>1. Sent(m)'
          BY DEF Post, Sent, InboxTypeOK, EmailTypeOK, EmailRecord
        <4>2. QED
          BY <4>1 DEF InboxTypeOK, EmailTypeOK, EmailRecord, Sent
      <3>2. serving'[s] \in Serving
        BY <3>1 DEF Post, Serving, Events, InboxTypeOK, ServedWasSent
      <3>3. QED
        BY <3>2, InboxAssumption
    <2>3. QED
      BY <2>1, <2>2
  <1>3. \A t \in Servers \ {s} : serving'[t] = serving[t]
    BY DEF Post, InboxTypeOK, ServedWasSent
  <1>4. CASE n # m
    <2>1. email'[n] = email[n]
      BY <1>4 DEF Post, InboxTypeOK, EmailTypeOK
    <2>2. Reading(n)' \subseteq Reading(n)
      BY <1>2, <1>3, <1>4 DEF Reading, Step
    <2>3. QED
      BY <1>1, <2>1, <2>2, AccountKept DEF Sent
  <1>5. CASE n = m
    <2>1. Sent(m) /\ email[m].state = "waiting"
      BY DEF Post, Sent
    <2>2. email[m] \in EmailRecord
      BY <2>1, SentEmail
    <2>3. email'[m].posts = email[m].posts + 1 /\ email'[m].state = "posted"
      BY <2>2 DEF Post, InboxTypeOK, EmailTypeOK, EmailRecord
    <2>4. Reading(m)' \in SUBSET (Reading(m) \cup {s})
      BY <1>3 DEF Reading, Step
    <2>5. IsFiniteSet(Reading(m)) /\ Cardinality(Reading(m)) \in Nat
      BY ReadingFinite
    <2>6. /\ IsFiniteSet(Reading(m) \cup {s})
          /\ Cardinality(Reading(m) \cup {s}) <= Cardinality(Reading(m)) + 1
      BY <2>5, FS_AddElement
    <2>7. IsFiniteSet(Reading(m)') /\ Cardinality(Reading(m)') <= Cardinality(Reading(m) \cup {s})
      BY <2>4, <2>6, FS_Subset
    <2>8. Cardinality(Reading(m)') \in Nat /\ Cardinality(Reading(m) \cup {s}) \in Nat
      BY <2>6, <2>7, FS_CardinalityType
    <2>9. /\ email[m].posts <= lost[m]
          /\ Len(jobs[m]) + Cardinality(Reading(m)) <= email[m].posts
      <3>1. lost[m] \in Nat
        BY DEF InboxTypeOK, MailTypeOK
      <3>2. QED
        BY <2>1, <3>1 DEF PostsAccounted, Accounted
    <2>10. lost[m] \in Nat /\ Len(jobs[m]) \in Nat /\ email[m].posts \in Nat
      <3>1. jobs[m] \in Seq(Job) /\ lost[m] \in Nat
        BY DEF InboxTypeOK, MailTypeOK
      <3>2. Len(jobs[m]) \in Nat
        BY <3>1
      <3>3. QED
        BY <2>2, <3>1, <3>2 DEF EmailRecord
    <2>11. Len(jobs'[m]) + Cardinality(Reading(m)') <= email'[m].posts
      BY <1>1, <2>3, <2>5, <2>6, <2>7, <2>8, <2>9, <2>10
    <2>12. email'[m].posts <= lost'[m] + 1
      BY <1>1, <2>3, <2>9, <2>10
    <2>13. QED
      BY <1>5, <2>3, <2>11, <2>12 DEF Accounted, Sent
  <1>6. QED
    BY <1>4, <1>5

\* A server that stops reading, or never did, reads no other email.
LEMMA NoMoreReading ==
    ASSUME NEW s \in Servers, NEW n,
           \A t \in Servers \ {s} : serving'[t] = serving[t],
           serving'[s] = Idle \/ serving'[s].step # "read"
    PROVE  Reading(n)' \subseteq Reading(n) /\ s \notin Reading(n)'
  BY DEF Reading, Step

\* The steps of a server that neither take a post nor commit a job.
LEMMA QuietAccounted ==
    ASSUME InboxTypeOK, InboxTypeOK', PostsAccounted, NEW s \in Servers,
           ParseFails(s) \/ RefuseNonRefundable(s) \/ EmitEvent(s)
    PROVE  PostsAccounted'
  <1> SUFFICES ASSUME NEW n \in Messages PROVE Accounted(n)'
    BY DEF PostsAccounted
  <1>1. UNCHANGED <<email, jobs, lost>>
    BY DEF ParseFails, RefuseNonRefundable, EmitEvent
  <1>2. \A t \in Servers \ {s} : serving'[t] = serving[t]
    BY DEF ParseFails, RefuseNonRefundable, EmitEvent, InboxTypeOK, ServedWasSent
  <1>3. serving'[s].step # "read"
    <2>1. serving[s] \in Serving
      BY DEF ParseFails, RefuseNonRefundable, EmitEvent, Step, InboxTypeOK, ServedWasSent
    <2>2. CASE ParseFails(s)
      BY <2>1, <2>2 DEF ParseFails, Serving, InboxTypeOK, ServedWasSent
    <2>3. CASE RefuseNonRefundable(s)
      <3>1. serving'[s] = [serving[s] EXCEPT !.step = "tell", !.event = "RefundableConfirmationNeeded"]
        BY <2>3 DEF RefuseNonRefundable, InboxTypeOK, ServedWasSent
      <3>2. QED
        BY <2>1, <3>1 DEF Serving
    <2>4. CASE EmitEvent(s)
      BY <2>1, <2>4 DEF EmitEvent, Serving, InboxTypeOK, ServedWasSent
    <2>5. QED
      BY <2>2, <2>3, <2>4
  <1>4. Reading(n)' \subseteq Reading(n)
    BY <1>2, <1>3, NoMoreReading
  <1>5. QED
    BY <1>1, <1>4, AccountKept DEF Sent

\* A job takes the place of the server that was reading.
LEMMA CommitJobAccounted ==
    ASSUME InboxTypeOK, InboxTypeOK', PostsAccounted, NEW s \in Servers, CommitJob(s)
    PROVE  PostsAccounted'
  <1> SUFFICES ASSUME NEW n \in Messages PROVE Accounted(n)'
    BY DEF PostsAccounted
  <1> DEFINE m == serving[s].msg
  <1>1. serving[s] \in Serving /\ s \in Reading(m) /\ m \in Messages /\ Sent(m)
    BY DEF CommitJob, Step, Reading, Serving, InboxTypeOK, ServedWasSent
  <1>2. PICK job \in Job, event \in Events :
           /\ jobs' = [jobs EXCEPT ![m] = Append(@, job)]
           /\ serving' = [serving EXCEPT ![s].step = "tell", ![s].event = event]
    BY CommitJobAdds DEF JobEvents, Events
  <1>3. serving'[s] = [serving[s] EXCEPT !.step = "tell", !.event = event]
    BY <1>2 DEF InboxTypeOK, ServedWasSent
  <1>4. serving'[s].step # "read"
    BY <1>1, <1>3 DEF Serving
  <1>5. \A t \in Servers \ {s} : serving'[t] = serving[t]
    BY <1>2 DEF InboxTypeOK, ServedWasSent
  <1>6. Reading(n)' \subseteq Reading(n) /\ s \notin Reading(n)'
    BY <1>4, <1>5, NoMoreReading
  <1>7. UNCHANGED <<email, lost>>
    BY DEF CommitJob
  <1>8. CASE n # m
    <2>1. jobs'[n] = jobs[n]
      BY <1>2, <1>8 DEF InboxTypeOK, MailTypeOK
    <2>2. QED
      BY <1>6, <1>7, <2>1, AccountKept DEF Sent
  <1>9. CASE n = m
    <2>1. Reading(n)' \in SUBSET (Reading(n) \ {s})
      BY <1>6
    <2>2. IsFiniteSet(Reading(n)) /\ Cardinality(Reading(n)) \in Nat
      BY ReadingFinite
    <2>3. /\ IsFiniteSet(Reading(n) \ {s})
          /\ Cardinality(Reading(n) \ {s}) = Cardinality(Reading(n)) - 1
      BY <1>1, <1>9, <2>2, FS_RemoveElement
    <2>4. IsFiniteSet(Reading(n)') /\ Cardinality(Reading(n)') <= Cardinality(Reading(n) \ {s})
      BY <2>1, <2>3, FS_Subset
    <2>5. Cardinality(Reading(n)') \in Nat
      BY <2>4, FS_CardinalityType
    <2>6. jobs'[n] = Append(jobs[n], job) /\ jobs[n] \in Seq(Job)
      BY <1>2, <1>9 DEF InboxTypeOK, MailTypeOK
    <2>7. Len(jobs'[n]) = Len(jobs[n]) + 1 /\ Len(jobs[n]) \in Nat
      BY <2>6
    <2>8. email[n].posts \in Nat
      BY <1>1, <1>9, SentEmail DEF EmailRecord
    <2>9. /\ email[n].posts <= lost[n] + (IF email[n].state = "waiting" THEN 0 ELSE 1)
          /\ Len(jobs[n]) + Cardinality(Reading(n)) <= email[n].posts
      BY <1>1, <1>9 DEF PostsAccounted, Accounted
    <2>10. Len(jobs'[n]) + Cardinality(Reading(n)') <= email'[n].posts
      BY <1>7, <2>2, <2>3, <2>4, <2>5, <2>7, <2>8, <2>9
    <2>11. Sent(n)'
      BY <1>1, <1>7, <1>9 DEF Sent
    <2>12. QED
      BY <1>7, <2>9, <2>10, <2>11 DEF Accounted
  <1>10. QED
    BY <1>8, <1>9

\* A server answers or does not: a post that was awaited is answered, or lost.
LEMMA FreedAccounted ==
    ASSUME InboxTypeOK, InboxTypeOK', PostsAccounted, NEW s \in Servers,
           serving[s] # Idle, Answer(s) \/ NoAnswer(s)
    PROVE  PostsAccounted'
  <1> SUFFICES ASSUME NEW n \in Messages PROVE Accounted(n)'
    BY DEF PostsAccounted
  <1> DEFINE m == serving[s].msg
  <1>1. serving[s] \in Serving /\ m \in Messages /\ Sent(m)
    BY DEF Serving, InboxTypeOK, ServedWasSent
  <1>2. serving'[s] = Idle /\ \A t \in Servers \ {s} : serving'[t] = serving[t]
    BY DEF Answer, NoAnswer, InboxTypeOK, ServedWasSent
  <1>3. Reading(n)' \subseteq Reading(n)
    BY <1>2, NoMoreReading
  <1>4. UNCHANGED jobs
    BY DEF Answer, NoAnswer
  <1>5. email[m] \in EmailRecord
    BY <1>1, SentEmail
  <1>6. CASE n # m
    <2>1. email'[n] = email[n] /\ lost'[n] = lost[n]
      BY <1>6 DEF Answer, NoAnswer, InboxTypeOK, EmailTypeOK, MailTypeOK
    <2>2. QED
      BY <1>3, <1>4, <2>1, AccountKept DEF Sent
  <1>7. CASE n = m
    <2>1. CASE Answer(s)
      <3>1. lost'[n] = lost[n]
        BY <2>1 DEF Answer
      <3>2. email'[n] = email[n] \/ email'[n] = [email[n] EXCEPT !.state = "answered"]
        BY <1>1, <1>7, <2>1 DEF Answer, InboxTypeOK, EmailTypeOK
      <3>3. /\ Sent(n)'
            /\ email'[n].posts = email[n].posts
            /\ email'[n].state = "waiting" => email[n].state = "waiting"
        BY <1>1, <1>5, <1>7, <3>2 DEF Sent, EmailRecord
      <3>4. QED
        BY <1>1, <1>3, <1>4, <1>7, <3>1, <3>3, AccountKept
    <2>2. CASE NoAnswer(s)
      <3>1. lost'[n] = lost[n] + 1
        BY <1>1, <1>7, <2>2 DEF NoAnswer, InboxTypeOK, MailTypeOK
      <3>2. email'[n] = email[n] \/ email'[n] = [email[n] EXCEPT !.state = "waiting"]
        BY <1>1, <1>7, <2>2 DEF NoAnswer, InboxTypeOK, EmailTypeOK
      <3>3. Sent(n)' /\ email'[n].posts = email[n].posts
        BY <1>1, <1>5, <1>7, <3>2 DEF Sent, EmailRecord
      <3>4. QED
        BY <1>1, <1>3, <1>4, <1>7, <3>1, <3>3, AccountKept
    <2>3. QED
      BY <2>1, <2>2
  <1>8. QED
    BY <1>6, <1>7

\* Every step of the service.
LEMMA AccountedStep ==
    ASSUME InboxTypeOK, InboxTypeOK', PostsAccounted, [InboxNext]_serviceVars
    PROVE  PostsAccounted'
  <1>1. CASE UNCHANGED inboxVars
    BY <1>1 DEF inboxVars, PostsAccounted, Accounted, Sent, Reading, Step
  <1>2. ASSUME NEW m \in Messages, NEW box \in Boxes, NEW capitals \in BOOLEAN,
               Forward(m, box, capitals)
        PROVE  PostsAccounted'
    BY <1>2, ForwardAccounted
  <1>3. ASSUME NEW m \in Messages, GiveUp(m) PROVE PostsAccounted'
    BY <1>3, GiveUpAccounted
  <1>4. ASSUME NEW s \in Servers, ServerStep(s) PROVE PostsAccounted'
    BY <1>4, PostAccounted, QuietAccounted, CommitJobAccounted, Unanswered, FreedAccounted
       DEF ServerStep, Answer, Step
  <1>5. QED
    BY <1>1, <1>2, <1>3, <1>4 DEF InboxNext, serviceVars

\* For any number of servers and mishaps, the provider posts an email again,
\* and a second job comes of it, only after a mishap.
THEOREM RepostedOnlyIfLostAlways == InboxSpec => []RepostedOnlyIfLost
  <1>1. InboxInit => PostsAccounted
    BY DEF InboxInit, PostsAccounted, Accounted, Sent
  <1>2. InboxTypeOK /\ InboxTypeOK' /\ PostsAccounted /\ [InboxNext]_serviceVars
           => PostsAccounted'
    BY AccountedStep
  <1>3. InboxTypeOK /\ PostsAccounted => RepostedOnlyIfLost
    <2> SUFFICES ASSUME InboxTypeOK, PostsAccounted, NEW m \in Messages, Sent(m)
                 PROVE  email[m].posts <= 1 + lost[m] /\ Len(jobs[m]) <= 1 + lost[m]
      BY DEF RepostedOnlyIfLost
    <2>1. lost[m] \in Nat /\ Len(jobs[m]) \in Nat
      BY DEF InboxTypeOK, MailTypeOK
    <2>2. email[m].posts \in Nat
      BY SentEmail DEF EmailRecord
    <2>3. Cardinality(Reading(m)) \in Nat
      BY ReadingFinite
    <2>4. QED
      BY <2>1, <2>2, <2>3 DEF PostsAccounted, Accounted
  <1>4. QED
    BY <1>1, <1>2, <1>3, InboxTypeCorrect, PTL DEF InboxSpec

-----------------------------------------------------------------------------
(* Answers and announcements. *)

\* Two finite sets, the first at most one element ahead of the second.
LEMMA OneApart ==
    ASSUME NEW A, NEW B, NEW x, IsFiniteSet(A), IsFiniteSet(B), A \subseteq B \cup {x}
    PROVE  /\ Cardinality(A) \in Nat /\ Cardinality(B) \in Nat
           /\ Cardinality(A) <= Cardinality(B) + 1
           /\ (x \in A => x \in B) => Cardinality(A) <= Cardinality(B)
           /\ x \notin A /\ x \in B => Cardinality(A) + 1 <= Cardinality(B)
  <1>1. Cardinality(A) \in Nat /\ Cardinality(B) \in Nat
    BY FS_CardinalityType
  <1>2. Cardinality(A) <= Cardinality(B) + 1
    <2>1. /\ IsFiniteSet(B \cup {x})
          /\ Cardinality(B \cup {x}) = IF x \in B THEN Cardinality(B) ELSE Cardinality(B) + 1
      BY FS_AddElement
    <2>2. Cardinality(A) <= Cardinality(B \cup {x})
      BY <2>1, FS_Subset
    <2>3. QED
      BY <1>1, <2>1, <2>2
  <1>3. ASSUME x \in A => x \in B PROVE Cardinality(A) <= Cardinality(B)
    <2>1. A \subseteq B
      BY <1>3
    <2>2. QED
      BY <2>1, FS_Subset
  <1>4. ASSUME x \notin A, x \in B PROVE Cardinality(A) + 1 <= Cardinality(B)
    <2>1. A \subseteq B \ {x}
      BY <1>4
    <2>2. IsFiniteSet(B \ {x}) /\ Cardinality(B \ {x}) = Cardinality(B) - 1
      BY <1>4, FS_RemoveElement
    <2>3. Cardinality(A) <= Cardinality(B \ {x})
      BY <2>1, <2>2, FS_Subset
    <2>4. QED
      BY <1>1, <2>2, <2>3
  <1>5. QED
    BY <1>1, <1>2, <1>3, <1>4

\* One server's step changes the number of those announcing by at most one.
LEMMA AnnouncingCounted ==
    ASSUME NEW s \in Servers, NEW m, \A t \in Servers \ {s} : serving'[t] = serving[t]
    PROVE  /\ Cardinality(Announcing(m)) \in Nat
           /\ Cardinality(Announcing(m)') \in Nat
           /\ Cardinality(Announcing(m)) <= Cardinality(Announcing(m)') + 1
           /\ (s \in Announcing(m) => s \in Announcing(m)')
                 => Cardinality(Announcing(m)) <= Cardinality(Announcing(m)')
           /\ s \notin Announcing(m) /\ s \in Announcing(m)'
                 => Cardinality(Announcing(m)) + 1 <= Cardinality(Announcing(m)')
  <1>1. Announcing(m) \in SUBSET Servers /\ Announcing(m)' \in SUBSET Servers
    BY DEF Announcing
  <1>2. IsFiniteSet(Announcing(m)) /\ IsFiniteSet(Announcing(m)')
    BY <1>1, FS_Subset, InboxAssumption
  <1>3. Announcing(m) \subseteq Announcing(m)' \cup {s}
    BY DEF Announcing, Step
  <1>4. QED
    BY <1>2, <1>3, OneApart

\* What stands against the jobs of an email that are nobody's any more.
Paid(m) == announced[m] + refused[m] + lost[m]

LEMMA PaidType ==
    ASSUME InboxTypeOK, InboxTypeOK', NEW m \in Messages
    PROVE  /\ announced[m] \in Nat /\ refused[m] \in Nat /\ lost[m] \in Nat /\ told[m] \in Nat
           /\ Paid(m) \in Nat /\ Paid(m)' \in Nat
  BY DEF InboxTypeOK, MailTypeOK, Paid

\* A job stays announced if nothing changes, if one more event or mishap pays
\* for a server that stops announcing, or if a new job brings its server.
LEMMA AnnouncedKept ==
    ASSUME InboxTypeOK, InboxTypeOK', NEW m \in Messages, Announced(m), NEW s \in Servers,
           \A t \in Servers \ {s} : serving'[t] = serving[t],
           \/ /\ jobs'[m] = jobs[m] /\ Paid(m)' = Paid(m)
              /\ s \in Announcing(m) => s \in Announcing(m)'
           \/ /\ jobs'[m] = jobs[m] /\ Paid(m)' = Paid(m) + 1
           \/ /\ Len(jobs'[m]) = Len(jobs[m]) + 1 /\ Paid(m)' = Paid(m)
              /\ s \notin Announcing(m) /\ s \in Announcing(m)'
    PROVE  Announced(m)'
  <1> DEFINE now == Cardinality(Announcing(m))
             next == Cardinality(Announcing(m)')
  <1>1. /\ Len(jobs[m]) \in Nat /\ Len(jobs'[m]) \in Nat
        /\ Paid(m) \in Nat /\ Paid(m)' \in Nat
    <2>1. jobs[m] \in Seq(Job) /\ jobs'[m] \in Seq(Job)
      BY DEF InboxTypeOK, MailTypeOK
    <2>2. Paid(m) \in Nat /\ Paid(m)' \in Nat
      BY PaidType
    <2>3. QED
      BY <2>1, <2>2
  <1>2. /\ now \in Nat /\ next \in Nat /\ now <= next + 1
        /\ (s \in Announcing(m) => s \in Announcing(m)') => now <= next
        /\ s \notin Announcing(m) /\ s \in Announcing(m)' => now + 1 <= next
    BY AnnouncingCounted
  <1>3. Len(jobs[m]) <= Paid(m) + now
    BY DEF Announced, Paid
  <1>4. Len(jobs'[m]) <= Paid(m)' + next
    <2>1. CASE jobs'[m] = jobs[m] /\ Paid(m)' = Paid(m) /\ now <= next
      <3> HIDE DEF now, next
      <3> QED
        BY <1>1, <1>2, <1>3, <2>1
    <2>2. CASE jobs'[m] = jobs[m] /\ Paid(m)' = Paid(m) + 1
      <3> HIDE DEF now, next
      <3> QED
        BY <1>1, <1>2, <1>3, <2>2
    <2>3. CASE Len(jobs'[m]) = Len(jobs[m]) + 1 /\ Paid(m)' = Paid(m) /\ now + 1 <= next
      <3> HIDE DEF now, next
      <3> QED
        BY <1>1, <1>2, <1>3, <2>3
    <2>4. QED
      BY <1>2, <2>1, <2>2, <2>3
  <1>5. QED
    BY <1>4 DEF Announced, Paid

\* What a server tells next: the parts of the proof that differ by step.
LEMMA Steps ==
    ASSUME InboxTypeOK, NEW s \in Servers, serving[s] # Idle,
           NEW step \in {"read", "tell", "answer"}, NEW event \in Events,
           \/ serving' = [serving EXCEPT ![s].step = step]
           \/ serving' = [serving EXCEPT ![s].step = step, ![s].event = event]
    PROVE  /\ serving'[s].step = step /\ serving'[s].msg = serving[s].msg
           /\ serving'[s] # Idle
           /\ \A t \in Servers \ {s} : serving'[t] = serving[t]
           /\ serving' = [serving EXCEPT ![s].step = step, ![s].event = event]
                 => serving'[s].event = event
  <1>1. serving[s] \in Serving
    BY DEF InboxTypeOK, ServedWasSent
  <1>2. \/ serving'[s] = [serving[s] EXCEPT !.step = step]
        \/ serving'[s] = [serving[s] EXCEPT !.step = step, !.event = event]
    BY DEF InboxTypeOK, ServedWasSent
  <1>3. serving'[s] \in Serving /\ serving'[s].step = step /\ serving'[s].msg = serving[s].msg
    BY <1>1, <1>2 DEF Serving
  <1>4. \A t \in Servers \ {s} : serving'[t] = serving[t]
    BY DEF InboxTypeOK, ServedWasSent
  <1>5. ASSUME serving' = [serving EXCEPT ![s].step = step, ![s].event = event]
        PROVE  serving'[s].event = event
    <2>1. serving'[s] = [serving[s] EXCEPT !.step = step, !.event = event]
      BY <1>5 DEF InboxTypeOK, ServedWasSent
    <2>2. QED
      BY <1>1, <2>1 DEF Serving
  <1>6. QED
    BY <1>3, <1>4, <1>5, InboxAssumption

AnsweredInv == CrashLosesNoEmail /\ AnswersAreSettled

\* What keeps both halves: the announcements of every email, the settled stay
\* settled, and a new answer, at a server or at the provider, is of a settled one.
LEMMA AnsweredKept ==
    ASSUME AnsweredInv,
           \A m \in Messages : Announced(m)',
           \A m \in Messages : Settled(m) => Settled(m)',
           \A m \in Messages :
               email'[m].state = "answered" => email[m].state = "answered" \/ Settled(m)',
           \A t \in Servers : Step(t, "answer")' =>
               \/ Step(t, "answer") /\ serving'[t] = serving[t] /\ serving[t].msg \in Messages
               \/ Settled(serving[t].msg)'
    PROVE  AnsweredInv'
  <1>1. CrashLosesNoEmail'
    BY DEF AnsweredInv, CrashLosesNoEmail
  <1>2. AnswersAreSettled'
    <2> SUFFICES ASSUME NEW t \in Servers, Step(t, "answer")'
                 PROVE  Settled(serving[t].msg)'
      BY DEF AnswersAreSettled
    <2>1. CASE Step(t, "answer") /\ serving'[t] = serving[t] /\ serving[t].msg \in Messages
      BY <2>1 DEF AnsweredInv, AnswersAreSettled, Settled
    <2>2. QED
      BY <2>1
  <1>3. QED
    BY <1>1, <1>2 DEF AnsweredInv

\* The provider's steps.
LEMMA ProviderAnswered ==
    ASSUME InboxTypeOK, InboxTypeOK', AnsweredInv, NEW m \in Messages,
           GiveUp(m) \/ (\E box \in Boxes, capitals \in BOOLEAN : Forward(m, box, capitals))
    PROVE  AnsweredInv'
  <1>1. UNCHANGED <<serving, jobs, told, announced, refused, unparsed>>
    BY DEF Forward, GiveUp, mailVars
  <1>2. ASSUME NEW n \in Messages PROVE Announced(n)'
    <2>1. lost[n] \in Nat /\ lost'[n] \in Nat /\ lost[n] <= lost'[n]
      <3>1. lost \in [Messages -> Nat]
        BY DEF InboxTypeOK, MailTypeOK
      <3>2. lost' = lost \/ lost' = [lost EXCEPT ![m] = lost[m] + 1]
        BY DEF Forward, GiveUp
      <3>3. QED
        BY <3>1, <3>2
    <2>2. Announcing(n)' = Announcing(n)
      BY <1>1 DEF Announcing, Step
    <2>3. IsFiniteSet(Announcing(n)) /\ Cardinality(Announcing(n)) \in Nat
      <3>1. Announcing(n) \in SUBSET Servers
        BY DEF Announcing
      <3>2. QED
        BY <3>1, FS_Subset, FS_CardinalityType, InboxAssumption
    <2>4. Len(jobs[n]) \in Nat /\ announced[n] \in Nat /\ refused[n] \in Nat
      BY DEF InboxTypeOK, MailTypeOK
    <2>5. Len(jobs[n]) <= announced[n] + refused[n] + lost[n] + Cardinality(Announcing(n))
      BY DEF AnsweredInv, CrashLosesNoEmail, Announced
    <2>6. QED
      BY <1>1, <2>1, <2>2, <2>3, <2>4, <2>5 DEF Announced
  <1>3. ASSUME NEW n \in Messages, email'[n].state = "answered"
        PROVE  email[n].state = "answered"
    <2>1. CASE GiveUp(m)
      <3>1. email[m] \in EmailRecord
        BY <2>1, SentEmail DEF GiveUp, Sent
      <3>2. email' = [email EXCEPT ![m] = [email[m] EXCEPT !.state = "waiting"]]
        BY <2>1 DEF GiveUp
      <3>3. email'[m].state = "waiting"
        BY <3>1, <3>2 DEF EmailRecord, InboxTypeOK, EmailTypeOK
      <3>4. QED
        BY <1>3, <3>2, <3>3 DEF InboxTypeOK, EmailTypeOK
    <2>2. CASE \E box \in Boxes, capitals \in BOOLEAN : Forward(m, box, capitals)
      BY <1>3, <2>2 DEF Forward, InboxTypeOK, EmailTypeOK
    <2>3. QED
      BY <2>1, <2>2
  <1>4. \A n \in Messages : Settled(n) => Settled(n)'
    BY <1>1 DEF Settled
  <1>5. \A t \in Servers : Step(t, "answer")' =>
            Step(t, "answer") /\ serving'[t] = serving[t] /\ serving[t].msg \in Messages
    BY <1>1 DEF Step, InboxTypeOK, ServedWasSent, Serving
  <1>6. QED
    BY <1>2, <1>3, <1>4, <1>5, AnsweredKept

\* A post is taken: no one answers for it yet.
LEMMA PostAnswered ==
    ASSUME InboxTypeOK, InboxTypeOK', AnsweredInv, NEW s \in Servers, NEW m \in Messages,
           Post(s, m)
    PROVE  AnsweredInv'
  <1>1. UNCHANGED <<jobs, told, announced, refused, unparsed, lost>>
    BY DEF Post, mailVars
  <1>2. /\ serving[s] = Idle
        /\ serving'[s].step # "answer"
        /\ \A t \in Servers \ {s} : serving'[t] = serving[t]
    BY DEF Post, InboxTypeOK, ServedWasSent
  <1>3. ASSUME NEW n \in Messages PROVE Announced(n)'
    <2>1. s \notin Announcing(n)
      BY <1>2 DEF Announcing, Step
    <2>2. QED
      BY <1>1, <1>2, <2>1, AnnouncedKept DEF AnsweredInv, CrashLosesNoEmail, Paid
  <1>4. ASSUME NEW n \in Messages, email'[n].state = "answered"
        PROVE  email[n].state = "answered"
    <2>1. email[m] \in EmailRecord
      BY SentEmail DEF Post, Sent
    <2>2. email'[m].state = "posted"
      BY <2>1 DEF Post, InboxTypeOK, EmailTypeOK, EmailRecord
    <2>3. n # m => email'[n] = email[n]
      BY DEF Post, InboxTypeOK, EmailTypeOK
    <2>4. QED
      BY <1>4, <2>2, <2>3
  <1>5. \A n \in Messages : Settled(n) => Settled(n)'
    BY <1>1 DEF Settled
  <1>6. \A t \in Servers : Step(t, "answer")' =>
            Step(t, "answer") /\ serving'[t] = serving[t] /\ serving[t].msg \in Messages
    BY <1>2 DEF Step, InboxTypeOK, ServedWasSent, Serving
  <1>7. QED
    BY <1>3, <1>4, <1>5, <1>6, AnsweredKept

\* A server that has read an email without making a job: it answers what the
\* parser failed on, and goes on to tell of a refusal.
LEMMA ReadAnswered ==
    ASSUME InboxTypeOK, InboxTypeOK', AnsweredInv, NEW s \in Servers,
           ParseFails(s) \/ RefuseNonRefundable(s)
    PROVE  AnsweredInv'
  <1>1. UNCHANGED <<email, jobs, told, announced, refused, lost>>
    BY DEF ParseFails, RefuseNonRefundable, mailVars
  <1>2. serving[s] # Idle /\ serving[s].step = "read" /\ serving[s].msg \in Messages
    BY DEF ParseFails, RefuseNonRefundable, Step, InboxTypeOK, ServedWasSent, Serving
  <1>3. /\ serving'[s].msg = serving[s].msg
        /\ \A t \in Servers \ {s} : serving'[t] = serving[t]
        /\ serving'[s].step = "answer" => ParseFails(s)
    <2>1. CASE ParseFails(s)
      <3>1. serving' = [serving EXCEPT ![s].step = "answer"]
        BY <2>1 DEF ParseFails
      <3>2. "BookingMonitored" \in Events
        BY DEF Events
      <3>3. QED
        BY <1>2, <2>1, <3>1, <3>2, Steps
    <2>2. CASE RefuseNonRefundable(s)
      <3>1. serving' = [serving EXCEPT ![s].step = "tell",
                                       ![s].event = "RefundableConfirmationNeeded"]
        BY <2>2 DEF RefuseNonRefundable
      <3>2. "RefundableConfirmationNeeded" \in Events
        BY DEF Events
      <3>3. serving'[s].step = "tell" /\ serving'[s].msg = serving[s].msg
            /\ \A t \in Servers \ {s} : serving'[t] = serving[t]
        BY <1>2, <3>1, <3>2, Steps
      <3>4. QED
        BY <3>3
    <2>3. QED
      BY <2>1, <2>2
  <1>4. ASSUME NEW n \in Messages PROVE Announced(n)'
    <2>1. s \notin Announcing(n)
      BY <1>2 DEF Announcing, Step
    <2>2. QED
      BY <1>1, <1>3, <2>1, AnnouncedKept DEF AnsweredInv, CrashLosesNoEmail, Paid
  <1>5. \A n \in Messages : Settled(n) => Settled(n)'
    BY <1>1 DEF Settled, ParseFails, RefuseNonRefundable
  <1>6. ASSUME NEW t \in Servers, Step(t, "answer")'
        PROVE  \/ Step(t, "answer") /\ serving'[t] = serving[t] /\ serving[t].msg \in Messages
               \/ Settled(serving[t].msg)'
    <2>1. CASE t = s
      BY <1>3, <1>6, <2>1 DEF ParseFails, Settled, Step
    <2>2. CASE t # s
      BY <1>3, <1>6, <2>2 DEF Step, InboxTypeOK, ServedWasSent, Serving
    <2>3. QED
      BY <2>1, <2>2
  <1>7. \A n \in Messages : email'[n].state = "answered" => email[n].state = "answered"
    BY <1>1
  <1>8. QED
    BY <1>4, <1>5, <1>6, <1>7, AnsweredKept

\* A job is made, and its server will tell of it.
LEMMA CommitJobAnswered ==
    ASSUME InboxTypeOK, InboxTypeOK', AnsweredInv, NEW s \in Servers, CommitJob(s)
    PROVE  AnsweredInv'
  <1> DEFINE m == serving[s].msg
  <1>1. UNCHANGED <<email, told, announced, refused, unparsed, lost>>
    BY DEF CommitJob, mailVars
  <1>2. serving[s] # Idle /\ serving[s].step = "read" /\ m \in Messages
    BY DEF CommitJob, Step, InboxTypeOK, ServedWasSent, Serving
  <1>3. PICK job \in Job, event \in JobEvents :
           /\ jobs' = [jobs EXCEPT ![m] = Append(@, job)]
           /\ serving' = [serving EXCEPT ![s].step = "tell", ![s].event = event]
    BY CommitJobAdds
  <1>4. /\ serving'[s].step = "tell" /\ serving'[s].msg = m /\ serving'[s] # Idle
        /\ serving'[s].event \in JobEvents
        /\ \A t \in Servers \ {s} : serving'[t] = serving[t]
    <2>1. event \in Events
      BY DEF JobEvents, Events
    <2>2. QED
      BY <1>2, <1>3, <2>1, Steps
  <1>5. ASSUME NEW n \in Messages PROVE Announced(n)'
    <2>1. s \notin Announcing(n)
      BY <1>2 DEF Announcing, Step
    <2>2. Announced(n)
      BY DEF AnsweredInv, CrashLosesNoEmail
    <2>3. CASE n # m
      <3>1. jobs'[n] = jobs[n]
        BY <1>3, <2>3 DEF InboxTypeOK, MailTypeOK
      <3>2. QED
        BY <1>1, <1>4, <2>1, <2>2, <3>1, AnnouncedKept DEF Paid
    <2>4. CASE n = m
      <3>1. jobs'[n] = Append(jobs[n], job) /\ jobs[n] \in Seq(Job)
        BY <1>3, <2>4 DEF InboxTypeOK, MailTypeOK
      <3>2. Len(jobs'[n]) = Len(jobs[n]) + 1
        BY <3>1
      <3>3. s \in Announcing(n)'
        BY <1>4, <2>4 DEF Announcing, Step
      <3>4. QED
        BY <1>1, <1>4, <2>1, <2>2, <3>2, <3>3, AnnouncedKept DEF Paid
    <2>5. QED
      BY <2>3, <2>4
  <1>6. \A n \in Messages : Settled(n) => Settled(n)'
    BY <1>1 DEF Settled
  <1>7. \A t \in Servers : Step(t, "answer")' =>
            Step(t, "answer") /\ serving'[t] = serving[t] /\ serving[t].msg \in Messages
    BY <1>4 DEF Step, InboxTypeOK, ServedWasSent, Serving
  <1>8. \A n \in Messages : email'[n].state = "answered" => email[n].state = "answered"
    BY <1>1
  <1>9. QED
    BY <1>5, <1>6, <1>7, <1>8, AnsweredKept

\* The event is accepted or refused: one more of either, one server fewer to
\* announce.
LEMMA EmitEventAnswered ==
    ASSUME InboxTypeOK, InboxTypeOK', AnsweredInv, NEW s \in Servers, EmitEvent(s)
    PROVE  AnsweredInv'
  <1>0. PICK m \in Messages : m = serving[s].msg
    BY DEF EmitEvent, Step, InboxTypeOK, ServedWasSent, Serving
  <1>1. UNCHANGED <<email, jobs, unparsed, lost>>
    BY DEF EmitEvent
  <1>2. serving[s] # Idle /\ m \in Messages /\ serving[s].event \in Events
    BY <1>0 DEF EmitEvent, Step, InboxTypeOK, ServedWasSent, Serving
  <1>3. serving'[s].msg = m /\ \A t \in Servers \ {s} : serving'[t] = serving[t]
    <2>1. serving' = [serving EXCEPT ![s].step = "answer"]
      BY DEF EmitEvent
    <2>2. QED
      BY <1>0, <1>2, <2>1, Steps
  <1>4. \A n \in Messages :
           /\ told'[n] = told[n] \/ told'[n] = told[n] + 1
           /\ refused'[n] = refused[n] \/ refused'[n] = refused[n] + 1
           /\ n # m => announced'[n] = announced[n] /\ refused'[n] = refused[n]
    BY <1>0 DEF EmitEvent, InboxTypeOK, MailTypeOK
  <1>5. \/ /\ refused'[m] = refused[m] + 1 /\ announced'[m] = announced[m]
        \/ /\ told'[m] = told[m] + 1 /\ refused'[m] = refused[m]
           /\ announced'[m] = IF serving[s].event \in JobEvents
                              THEN announced[m] + 1 ELSE announced[m]
    BY <1>0 DEF EmitEvent, InboxTypeOK, MailTypeOK
  <1>6. ASSUME NEW n \in Messages PROVE Announced(n)'
    <2>1. Announced(n)
      BY DEF AnsweredInv, CrashLosesNoEmail
    <2>2. CASE n # m
      <3>1. s \notin Announcing(n)
        BY <1>0, <2>2 DEF Announcing
      <3>2. Paid(n)' = Paid(n)
        BY <1>1, <1>4, <2>2 DEF Paid
      <3>3. QED
        BY <1>1, <1>3, <2>1, <3>1, <3>2, AnnouncedKept
    <2>3. CASE n = m
      <3>1. /\ announced[n] \in Nat /\ refused[n] \in Nat /\ lost[n] \in Nat
        BY PaidType
      <3>2. \/ Paid(n)' = Paid(n) + 1
            \/ Paid(n)' = Paid(n) /\ serving[s].event \notin JobEvents
        BY <1>1, <1>5, <2>3, <3>1 DEF Paid
      <3>3. serving[s].event \notin JobEvents => s \notin Announcing(n)
        BY DEF Announcing
      <3>4. QED
        BY <1>1, <1>3, <2>1, <3>2, <3>3, AnnouncedKept
    <2>4. QED
      BY <2>2, <2>3
  <1>7. \A n \in Messages : told[n] \in Nat /\ refused[n] \in Nat
    BY PaidType
  <1>8. Settled(m)'
    BY <1>5, <1>7 DEF Settled
  <1>9. \A n \in Messages : Settled(n) => Settled(n)'
    BY <1>1, <1>4, <1>7 DEF Settled
  <1>10. ASSUME NEW t \in Servers, Step(t, "answer")'
         PROVE  \/ Step(t, "answer") /\ serving'[t] = serving[t] /\ serving[t].msg \in Messages
                \/ Settled(serving[t].msg)'
    <2>1. CASE t = s
      BY <1>0, <1>3, <1>8, <2>1 DEF Settled
    <2>2. CASE t # s
      BY <1>3, <1>10, <2>2 DEF Step, InboxTypeOK, ServedWasSent, Serving
    <2>3. QED
      BY <2>1, <2>2
  <1>11. \A n \in Messages : email'[n].state = "answered" => email[n].state = "answered"
    BY <1>1
  <1>12. QED
    BY <1>6, <1>9, <1>10, <1>11, AnsweredKept

\* A server answers, or dies or raises: one more mishap.
LEMMA FreedAnswered ==
    ASSUME InboxTypeOK, InboxTypeOK', AnsweredInv, NEW s \in Servers,
           serving[s] # Idle, Answer(s) \/ NoAnswer(s)
    PROVE  AnsweredInv'
  <1>0. PICK m \in Messages : m = serving[s].msg
    BY DEF InboxTypeOK, ServedWasSent, Serving
  <1>1. UNCHANGED <<jobs, told, announced, refused, unparsed>>
    BY DEF Answer, NoAnswer, mailVars
  <1>2. serving[s] # Idle /\ m \in Messages /\ Sent(m)
    BY <1>0 DEF InboxTypeOK, ServedWasSent, Serving
  <1>3. serving'[s] = Idle /\ \A t \in Servers \ {s} : serving'[t] = serving[t]
    BY DEF Answer, NoAnswer, InboxTypeOK, ServedWasSent
  <1>4. ASSUME NEW n \in Messages PROVE Announced(n)'
    <2>1. Announced(n)
      BY DEF AnsweredInv, CrashLosesNoEmail
    <2>2. CASE Answer(s)
      <3>1. s \notin Announcing(n) /\ lost'[n] = lost[n]
        BY <1>0, <2>2 DEF Answer, Announcing, Step
      <3>2. QED
        BY <1>1, <1>3, <2>1, <3>1, AnnouncedKept DEF Paid
    <2>3. CASE NoAnswer(s) /\ n # m
      <3>1. s \notin Announcing(n) /\ lost'[n] = lost[n]
        BY <1>0, <2>3 DEF NoAnswer, Announcing, InboxTypeOK, MailTypeOK
      <3>2. QED
        BY <1>1, <1>3, <2>1, <3>1, AnnouncedKept DEF Paid
    <2>4. CASE NoAnswer(s) /\ n = m
      <3>1. lost'[n] = lost[n] + 1
        BY <1>0, <2>4 DEF NoAnswer, InboxTypeOK, MailTypeOK
      <3>2. announced[n] \in Nat /\ refused[n] \in Nat /\ lost[n] \in Nat
        BY PaidType
      <3>3. Paid(n)' = Paid(n) + 1
        BY <1>1, <3>1, <3>2 DEF Paid
      <3>4. QED
        BY <1>1, <1>3, <2>1, <3>3, AnnouncedKept
    <2>5. QED
      BY <2>2, <2>3, <2>4
  <1>5. ASSUME NEW n \in Messages, email'[n].state = "answered"
        PROVE  email[n].state = "answered" \/ Settled(n)'
    <2>1. email[m] \in EmailRecord
      BY <1>2, SentEmail
    <2>2. CASE Answer(s)
      <3>1. Settled(m)'
        BY <1>0, <1>1, <2>2 DEF Answer, AnsweredInv, AnswersAreSettled, Settled
      <3>2. n # m => email'[n] = email[n]
        BY <1>0, <2>2 DEF Answer, InboxTypeOK, EmailTypeOK
      <3>3. QED
        BY <1>5, <3>1, <3>2
    <2>3. CASE NoAnswer(s)
      <3>1. \/ email' = email
            \/ email' = [email EXCEPT ![m] = [email[m] EXCEPT !.state = "waiting"]]
        BY <1>0, <2>3 DEF NoAnswer
      <3>2. QED
        BY <1>0, <1>2, <1>5, <2>1, <3>1 DEF EmailRecord, InboxTypeOK, EmailTypeOK
    <2>4. QED
      BY <2>2, <2>3
  <1>6. \A n \in Messages : Settled(n) => Settled(n)'
    BY <1>1 DEF Settled
  <1>7. \A t \in Servers : Step(t, "answer")' =>
            Step(t, "answer") /\ serving'[t] = serving[t] /\ serving[t].msg \in Messages
    BY <1>3 DEF Step, InboxTypeOK, ServedWasSent, Serving
  <1>8. QED
    BY <1>4, <1>5, <1>6, <1>7, AnsweredKept

\* Every step of the service.
LEMMA AnsweredStep ==
    ASSUME InboxTypeOK, InboxTypeOK', AnsweredInv, [InboxNext]_serviceVars
    PROVE  AnsweredInv'
  <1>1. CASE UNCHANGED inboxVars
    BY <1>1 DEF inboxVars, mailVars, AnsweredInv, CrashLosesNoEmail, AnswersAreSettled, Announced,
                Settled, Announcing, Step
  <1>2. ASSUME NEW m \in Messages, NEW box \in Boxes, NEW capitals \in BOOLEAN,
               Forward(m, box, capitals)
        PROVE  AnsweredInv'
    BY <1>2, ProviderAnswered
  <1>3. ASSUME NEW m \in Messages, GiveUp(m) PROVE AnsweredInv'
    BY <1>3, ProviderAnswered
  <1>4. ASSUME NEW s \in Servers, ServerStep(s) PROVE AnsweredInv'
    BY <1>4, PostAnswered, ReadAnswered, CommitJobAnswered, EmitEventAnswered,
       Unanswered, FreedAnswered DEF ServerStep, Answer, Step
  <1>5. QED
    BY <1>1, <1>2, <1>3, <1>4 DEF InboxNext, serviceVars

\* However many servers serve, die, raise or answer late: an email answered for
\* good was told of, refused or failed to parse, and every job is announced, about
\* to be, or matched by a refusal or a mishap.
THEOREM CrashLosesNoEmailAlways == InboxSpec => []CrashLosesNoEmail
  <1>1. ASSUME InboxInit PROVE AnsweredInv
    <2>1. ASSUME NEW m \in Messages PROVE Announced(m)
      <3>1. Announcing(m) = {}
        BY <1>1 DEF InboxInit, Announcing, Step
      <3>2. Cardinality(Announcing(m)) = 0
        BY <3>1, FS_EmptySet
      <3>3. jobs[m] = <<>> /\ announced[m] = 0 /\ refused[m] = 0 /\ lost[m] = 0
        BY <1>1 DEF InboxInit
      <3>4. QED
        BY <3>2, <3>3 DEF Announced
    <2>2. \A m \in Messages : email[m].state # "answered"
      BY <1>1 DEF InboxInit
    <2>3. AnswersAreSettled
      BY <1>1 DEF InboxInit, AnswersAreSettled, Step
    <2>4. QED
      BY <2>1, <2>2, <2>3 DEF AnsweredInv, CrashLosesNoEmail
  <1>2. InboxTypeOK /\ InboxTypeOK' /\ AnsweredInv /\ [InboxNext]_serviceVars => AnsweredInv'
    BY AnsweredStep
  <1>3. AnsweredInv => CrashLosesNoEmail
    BY DEF AnsweredInv
  <1>4. QED
    BY <1>1, <1>2, <1>3, InboxTypeCorrect, PTL DEF InboxSpec

=============================================================================

------------------------------ MODULE AloneProofs ------------------------------
(***************************************************************************)
(* What holds of the worker when no two passes overlap: a single worker,   *)
(* whatever fails, crashes or is mis-acknowledged.                         *)
(***************************************************************************)
EXTENDS PassProofs, FiniteSetTheorems

\* The deployment of render.yaml: one process that loops.
OneWorker == \A v, w \in Workers : v = w

\* The row is what the session loaded, for no one else writes it.
LoadedIsCurrent ==
    \A w \in Workers, j \in Jobs : mem[w][j] # NoRow => loaded[w][j] = rows[j]

\* What processing job j does to the session, and what it leaves alone.
LEMMA ProcessFrame ==
    ASSUME TypeOK, NEW w \in Workers, NEW j \in Jobs, NEW row \in Row, Process(w, j, row)
    PROVE  /\ UNCHANGED <<rows, checks, clock, passNow, loaded>>
           /\ mem[w][j] \in Row /\ mem[w][j] # NoRow /\ rows[j] \in Row
           /\ j \in todo[w] /\ j \notin todo'[w]
           /\ mem'[w][j] = row
           /\ \A v \in Workers, k \in Jobs : v # w \/ k # j => mem'[v][k] = mem[v][k]
           /\ \A v \in Workers, k \in Jobs : k \in todo'[v] => k \in todo[v]
  <1>1. /\ UNCHANGED <<rows, checks, clock, passNow, loaded>>
        /\ j \in todo[w]
        /\ todo' = [todo EXCEPT ![w] = todo[w] \ {j}]
        /\ mem' = [mem EXCEPT ![w] = [mem[w] EXCEPT ![j] = row]]
    BY DEF Process, Reach
  <1>2. /\ mem[w][j] \in Row /\ mem[w][j] # NoRow /\ rows[j] \in Row
    BY <1>1, TodoRow DEF TypeOK, StoreTypeOK
  <1>3. QED
    BY <1>1, <1>2 DEF TypeOK

\* The end of the only session leaves no copy.
LEMMA CloseLeavesNothing ==
    ASSUME OneWorker, TypeOK, NEW w \in Workers, CloseSession(w)
    PROVE  \A v \in Workers, j \in Jobs : /\ mem'[v][j] = NoRow /\ todo'[v] = {}
                                          /\ added'[v][j] = {}
  BY DEF OneWorker, CloseSession, NoSession, NothingAdded, TypeOK

\* A commit over the very row that was loaded writes the copy.
LEMMA FlushOverLoaded ==
    ASSUME NEW row \in Row, NEW new \in Row
    PROVE  Flush(row, row, new) = new
  BY DEF Flush, Row

\* ... so the pass of a single worker commits its copies.
LEMMA CommitWritesCopies ==
    ASSUME TypeOK, LoadedIsCurrent, NEW w \in Workers, CommitPass(w), NEW j \in Jobs
    PROVE  rows'[j] = IF mem[w][j] = NoRow THEN rows[j] ELSE mem[w][j]
  <1>1. CASE mem[w][j] = NoRow
    BY <1>1 DEF CommitPass
  <1>2. CASE mem[w][j] # NoRow
    <2>1. rows'[j] = Flush(rows[j], loaded[w][j], mem[w][j])
      BY <1>2 DEF CommitPass
    <2>2. rows[j] \in Row /\ mem[w][j] \in Row /\ loaded[w][j] = rows[j]
      BY <1>2 DEF TypeOK, StoreTypeOK, RowOrNone, LoadedIsCurrent
    <2>3. QED
      BY <1>2, <2>1, <2>2, FlushOverLoaded
  <1>3. QED
    BY <1>1, <1>2

\* The steps of the worker and of the clock, as the invariants see them.
LEMMA StepCases ==
    ASSUME TypeOK, [Next]_schedVars
    PROVE  \/ UNCHANGED schedVars
           \/ \E w \in Workers : StartPass(w)
           \/ \E w \in Workers, j \in Jobs : SkipPaused(w, j)
           \/ \E w \in Workers, j \in Jobs, row \in Row : Effect(w, j, row)
           \/ \E w \in Workers : CommitPass(w)
           \/ \E w \in Workers : Crash(w)
           \/ Tick /\ UNCHANGED sessionVars
  <1>1. ASSUME NEW w \in Workers, NEW j \in Jobs, ProcessJob(w, j)
        PROVE  \E row \in Row : Effect(w, j, row)
    BY <1>1, JobEffect
  <1>2. QED
    BY <1>1 DEF Next, PassStep

\* No one writes a row while it is loaded.
LEMMA NextKeepsCurrent ==
    ASSUME OneWorker, TypeOK, LoadedIsCurrent, [Next]_schedVars
    PROVE  LoadedIsCurrent'
  <1>1. CASE UNCHANGED <<rows, sessionVars>>
    BY <1>1 DEF sessionVars, LoadedIsCurrent
  <1>2. ASSUME NEW w \in Workers, StartPass(w) PROVE LoadedIsCurrent'
    BY <1>2 DEF OneWorker, StartPass, storeVars, TypeOK, LoadedIsCurrent
  <1>3. ASSUME NEW w \in Workers, NEW j \in Jobs, SkipPaused(w, j) PROVE LoadedIsCurrent'
    BY <1>3 DEF SkipPaused, Reach, LoadedIsCurrent
  <1>4. ASSUME NEW w \in Workers, NEW j \in Jobs, NEW row \in Row, Effect(w, j, row)
        PROVE  LoadedIsCurrent'
    BY <1>4, ProcessFrame DEF Effect, LoadedIsCurrent
  <1>5. ASSUME NEW w \in Workers, CommitPass(w) \/ Crash(w) PROVE LoadedIsCurrent'
    BY <1>5, CloseLeavesNothing DEF CommitPass, Crash, LoadedIsCurrent
  <1>6. QED
    BY <1>1, <1>2, <1>3, <1>4, <1>5, StepCases DEF schedVars, storeVars, Tick

-----------------------------------------------------------------------------
(* The figures on a job are those of its price history. *)

IsLowest(price, S) ==
    IF S = {} THEN price = None ELSE price \in S /\ \A p \in S : price <= p

FiguresMatch(n, prices, row) ==
    /\ row.check_count = n
    /\ IsLowest(row.lowest_seen_price, prices)
    /\ IF prices = {} THEN row.current_best_price = None
       ELSE row.current_best_price \in prices

\* The history with what the session is about to add to it.
Recorded(w, j) == IF added[w][j] = {} THEN checks[j].n ELSE checks[j].n + 1
Found(w, j) == checks[j].prices \cup (added[w][j] \ {None})

\* Why HistoryAgrees holds of a single worker: the row agrees with what is
\* committed, and the session's copy with what will be.
FiguresAgree ==
    \A j \in Jobs :
        /\ rows[j] # NoRow => FiguresMatch(checks[j].n, checks[j].prices, rows[j])
        /\ \A w \in Workers : mem[w][j] # NoRow =>
              FiguresMatch(Recorded(w, j), Found(w, j), mem[w][j])

\* The lowest of a set of prices is the one the specification chooses.
LEMMA LowestIsChosen ==
    ASSUME NEW S \in SUBSET Nat, NEW price, IsLowest(price, S)
    PROVE  price = LowestOf(S)
  <1>1. CASE S = {}
    BY <1>1 DEF IsLowest, LowestOf
  <1>2. CASE S # {}
    <2>1. price \in S /\ \A q \in S : price <= q
      BY <1>2 DEF IsLowest
    <2>2. \A p \in S : (\A q \in S : p <= q) => p = price
      BY <2>1
    <2>3. QED
      BY <1>2, <2>1, <2>2 DEF LowestOf
  <1>3. QED
    BY <1>1, <1>2

\* A check that found `found` takes figures that agree to figures that agree.
LEMMA NewFiguresAgree ==
    ASSUME NEW n, NEW prices \in SUBSET Nat, NEW row \in Row, NEW new \in Row,
           NEW seen \in Maybe(Prices), FiguresMatch(n, prices, row),
           NewFigures(row, new, {seen} \ {None})
    PROVE  FiguresMatch(n + 1, prices \cup ({seen} \ {None}), new)
  <1>1. new.check_count = n + 1
    BY DEF NewFigures, FiguresMatch
  <1>2. CASE seen = None
    BY <1>1, <1>2 DEF NewFigures, FiguresMatch
  <1>3. CASE seen # None
    <2>1. seen \in Nat /\ {seen} \ {None} = {seen}
      BY <1>3, PricesAreNumbers DEF Maybe
    <2>2. new.current_best_price = seen
      BY <2>1 DEF NewFigures
    <2>3. new.lowest_seen_price = IF row.lowest_seen_price = None THEN seen
                                  ELSE IF seen < row.lowest_seen_price THEN seen
                                  ELSE row.lowest_seen_price
      BY <2>1 DEF NewFigures
    <2>4. IsLowest(row.lowest_seen_price, prices)
      BY DEF FiguresMatch
    <2>5. row.lowest_seen_price = None => prices = {}
      <3>1. row.lowest_seen_price = None => row.lowest_seen_price \notin Nat
        BY FloorAssumption
      <3>2. QED
        BY <2>4, <3>1 DEF IsLowest
    <2>6. row.lowest_seen_price # None => row.lowest_seen_price \in prices
      BY <2>4 DEF IsLowest
    <2>7. IsLowest(new.lowest_seen_price, prices \cup {seen})
      <3>1. PICK low : low = row.lowest_seen_price
        OBVIOUS
      <3>2. CASE low = None
        BY <2>1, <2>3, <2>5, <3>1, <3>2 DEF IsLowest
      <3>3. CASE low # None
        <4>1. low \in prices /\ low \in Nat /\ \A p \in prices : low <= p
          BY <2>4, <2>6, <3>1, <3>3 DEF IsLowest
        <4>2. new.lowest_seen_price = IF seen < low THEN seen ELSE low
          BY <2>3, <3>1, <3>3
        <4>3. \A p \in prices \cup {seen} : new.lowest_seen_price <= p
          BY <2>1, <4>1, <4>2
        <4>4. QED
          BY <4>1, <4>2, <4>3 DEF IsLowest
      <3>4. QED
        BY <3>2, <3>3
    <2>8. QED
      BY <1>1, <2>1, <2>2, <2>7 DEF FiguresMatch
  <1>4. QED
    BY <1>2, <1>3

\* The figures a session holds agree with what it is about to record, however
\* the job was processed.
LEMMA EffectAgrees ==
    ASSUME TypeOK, FiguresAgree, FiguresAreBacked,
           NEW w \in Workers, NEW j \in Jobs, NEW row \in Row, Effect(w, j, row)
    PROVE  FiguresMatch(Recorded(w, j)', Found(w, j)', row)
  <1>1. /\ UNCHANGED checks /\ mem[w][j] \in Row /\ mem[w][j] # NoRow
        /\ j \in todo[w]
    BY ProcessFrame DEF Effect
  <1>2. added[w][j] = {}
    BY <1>1 DEF FiguresAreBacked, SessionBacked
  <1>3. FiguresMatch(checks[j].n, checks[j].prices, mem[w][j])
    BY <1>1, <1>2 DEF FiguresAgree, Recorded, Found
  <1>4. CASE added' = added /\ SameFigures(mem[w][j], row)
    BY <1>1, <1>2, <1>3, <1>4 DEF Recorded, Found, FiguresMatch, SameFigures
  <1>5. ASSUME NEW seen \in Maybe(Prices),
               added' = [added EXCEPT ![w] = [added[w] EXCEPT ![j] = {seen}]],
               NewFigures(mem[w][j], row, {seen} \ {None})
        PROVE  FiguresMatch(Recorded(w, j)', Found(w, j)', row)
    <2>1. added'[w][j] = {seen}
      BY <1>5 DEF TypeOK
    <2>2. Recorded(w, j)' = checks[j].n + 1
      BY <1>1, <2>1 DEF Recorded
    <2>3. Found(w, j)' = checks[j].prices \cup ({seen} \ {None})
      BY <1>1, <2>1 DEF Found
    <2>4. checks[j].prices \in SUBSET Nat
      BY PricesAreNumbers DEF TypeOK, StoreTypeOK, History
    <2>5. FiguresMatch(checks[j].n + 1, checks[j].prices \cup ({seen} \ {None}), row)
      BY <1>1, <1>3, <1>5, <2>4, NewFiguresAgree
    <2>6. QED
      BY <2>2, <2>3, <2>5
  <1>6. QED
    BY <1>4, <1>5 DEF Effect, Counts

\* Fresh rows agree with an empty history.
LEMMA InitAgrees == Init => FiguresAgree /\ LoadedIsCurrent
  <1> SUFFICES ASSUME Init PROVE FiguresAgree /\ LoadedIsCurrent
    OBVIOUS
  <1>1. PICK hotel \in [Jobs -> Maybe(Hotels)], deadline \in [Jobs -> Maybe(Deadlines)] :
           rows = [k \in Jobs |-> NewRow("active", hotel[k], TRUE, deadline[k], 0)]
    BY DEF Init, FreshRows
  <1>2. ASSUME NEW j \in Jobs
        PROVE  FiguresMatch(checks[j].n, checks[j].prices, rows[j])
    BY <1>1 DEF Init, NoHistory, NewRow, FiguresMatch, IsLowest
  <1>3. \A w \in Workers, j \in Jobs : mem[w][j] = NoRow
    BY DEF Init, SessionInit, NoSession
  <1>4. QED
    BY <1>2, <1>3 DEF FiguresAgree, LoadedIsCurrent

\* A single worker keeps the figures in agreement.
LEMMA NextAgrees ==
    ASSUME OneWorker, TypeOK, AddedIsLoaded, FiguresAreBacked, LoadedIsCurrent, FiguresAgree,
           [Next]_schedVars
    PROVE  FiguresAgree'
  <1>1. CASE UNCHANGED <<rows, checks, sessionVars>>
    BY <1>1 DEF sessionVars, FiguresAgree, Recorded, Found
  <1>2. ASSUME NEW w \in Workers, StartPass(w) PROVE FiguresAgree'
    <2>1. UNCHANGED <<rows, checks, added>> /\ \A k \in Jobs : added[w][k] = {}
      BY <1>2 DEF StartPass, storeVars, TypeOK, AddedIsLoaded
    <2>2. ASSUME NEW v \in Workers, NEW k \in Jobs, mem'[v][k] # NoRow
          PROVE  mem'[v][k] = rows[k] /\ rows[k] # NoRow /\ added[v][k] = {}
      BY <1>2, <2>1, <2>2 DEF OneWorker, StartPass, TypeOK, Due
    <2>3. \A v \in Workers, k \in Jobs : mem'[v][k] # NoRow =>
             FiguresMatch(Recorded(v, k)', Found(v, k)', mem'[v][k])
      <3>1. ASSUME NEW v \in Workers, NEW k \in Jobs, mem'[v][k] # NoRow
            PROVE  FiguresMatch(Recorded(v, k)', Found(v, k)', mem'[v][k])
        <4>1. Recorded(v, k)' = checks[k].n /\ Found(v, k)' = checks[k].prices
          BY <2>1, <2>2, <3>1 DEF Recorded, Found
        <4>2. FiguresMatch(checks[k].n, checks[k].prices, rows[k]) /\ mem'[v][k] = rows[k]
          BY <2>2, <3>1 DEF FiguresAgree
        <4>3. QED
          BY <4>1, <4>2
      <3>2. QED
        BY <3>1
    <2>4. QED
      BY <2>1, <2>3 DEF FiguresAgree
  <1>3. ASSUME NEW w \in Workers, NEW j \in Jobs, SkipPaused(w, j) PROVE FiguresAgree'
    BY <1>3 DEF SkipPaused, Reach, FiguresAgree, Recorded, Found
  <1>4. ASSUME NEW w \in Workers, NEW j \in Jobs, NEW row \in Row, Effect(w, j, row)
        PROVE  FiguresAgree'
    <2>1. FiguresMatch(Recorded(w, j)', Found(w, j)', mem'[w][j])
      BY <1>4, EffectAgrees, ProcessFrame DEF Effect
    <2>2. ASSUME NEW v \in Workers, NEW k \in Jobs, mem'[v][k] # NoRow, v # w \/ k # j
          PROVE  FiguresMatch(Recorded(v, k)', Found(v, k)', mem'[v][k])
      <3>1. mem'[v][k] = mem[v][k] /\ checks' = checks
        BY <1>4, <2>2, ProcessFrame DEF Effect
      <3>2. \/ added' = added
            \/ \E s : added' = [added EXCEPT ![w] = [added[w] EXCEPT ![j] = s]]
        BY <1>4 DEF Effect, Counts
      <3>3. added'[v][k] = added[v][k]
        BY <2>2, <3>2 DEF TypeOK
      <3>4. QED
        BY <2>2, <3>1, <3>3 DEF FiguresAgree, Recorded, Found
    <2>3. rows' = rows /\ checks' = checks
      BY <1>4, ProcessFrame DEF Effect
    <2>4. QED
      BY <2>1, <2>2, <2>3 DEF FiguresAgree
  <1>5. ASSUME NEW w \in Workers, CommitPass(w) PROVE FiguresAgree'
    <2>1. ASSUME NEW j \in Jobs, rows'[j] # NoRow
          PROVE  FiguresMatch(checks'[j].n, checks'[j].prices, rows'[j])
      <3>1. rows'[j] = IF mem[w][j] = NoRow THEN rows[j] ELSE mem[w][j]
        BY <1>5, CommitWritesCopies
      <3>2. checks'[j].n = Recorded(w, j) /\ checks'[j].prices = Found(w, j)
        BY <1>5 DEF CommitPass, Recorded, Found
      <3>3. CASE mem[w][j] # NoRow
        BY <3>1, <3>2, <3>3 DEF FiguresAgree
      <3>4. CASE mem[w][j] = NoRow
        <4>1. added[w][j] = {}
          BY <3>4 DEF AddedIsLoaded
        <4>2. QED
          BY <2>1, <3>1, <3>2, <3>4, <4>1 DEF FiguresAgree, Recorded, Found
      <3>5. QED
        BY <3>3, <3>4
    <2>2. \A v \in Workers, j \in Jobs : mem'[v][j] = NoRow
      BY <1>5, CloseLeavesNothing DEF CommitPass
    <2>3. QED
      BY <2>1, <2>2 DEF FiguresAgree
  <1>6. ASSUME NEW w \in Workers, Crash(w) PROVE FiguresAgree'
    <2>1. UNCHANGED <<rows, checks>>
      BY <1>6 DEF Crash, storeVars
    <2>2. \A v \in Workers, j \in Jobs : mem'[v][j] = NoRow
      BY <1>6, CloseLeavesNothing DEF Crash
    <2>3. QED
      BY <2>1, <2>2 DEF FiguresAgree
  <1>7. QED
    BY <1>1, <1>2, <1>3, <1>4, <1>5, <1>6, StepCases DEF schedVars, storeVars, Tick

\* What holds of a single worker at all times, for the theorems below.
AloneInv ==
    /\ TypeOK
    /\ AddedIsLoaded
    /\ FiguresAreBacked
    /\ SessionIsPass
    /\ RecordsAreHonest
    /\ LoadedIsCurrent
    /\ FiguresAgree

\* It does.
LEMMA AloneInvariant ==
    ASSUME OneWorker PROVE Spec => []AloneInv
  <1>1. Init => AloneInv
    BY InitTypes, InitBacked, InitSession, InitHonest, InitAgrees DEF AloneInv
  <1>2. AloneInv /\ [Next]_schedVars => AloneInv'
    <2>1. SUFFICES ASSUME AloneInv, [Next]_schedVars PROVE AloneInv'
      OBVIOUS
    <2>2. TypeOK' /\ AddedIsLoaded' /\ FiguresAreBacked' /\ SessionIsPass' /\ RecordsAreHonest'
      BY <2>1, NextKeepsTypes, NextKeepsAdded, NextKeepsBacked, NextKeepsSession, NextHonest
      DEF AloneInv
    <2>3. LoadedIsCurrent'
      BY <2>1, NextKeepsCurrent DEF AloneInv
    <2>4. FiguresAgree'
      BY <2>1, NextAgrees DEF AloneInv
    <2>5. QED
      BY <2>2, <2>3, <2>4 DEF AloneInv
  <1>3. QED
    BY <1>1, <1>2, PTL DEF Spec

\* With one worker the running figures on a job are those of its price
\* history: one check per price_checks row, the lowest price ever found, a
\* current price among them, however often a pass dies.
THEOREM HistoryAgreesAlone ==
    ASSUME OneWorker PROVE Spec => []HistoryAgrees
  <1>1. AloneInv => HistoryAgrees
    <2>1. SUFFICES ASSUME AloneInv, NEW j \in Jobs, rows[j] # NoRow
                   PROVE  /\ rows[j].check_count = checks[j].n
                          /\ rows[j].lowest_seen_price = LowestOf(checks[j].prices)
                          /\ IF checks[j].prices = {} THEN rows[j].current_best_price = None
                             ELSE rows[j].current_best_price \in checks[j].prices
      BY DEF HistoryAgrees
    <2>2. FiguresMatch(checks[j].n, checks[j].prices, rows[j])
      BY <2>1 DEF AloneInv, FiguresAgree
    <2>3. checks[j].prices \in SUBSET Nat
      BY <2>1, PricesAreNumbers DEF AloneInv, TypeOK, StoreTypeOK, History
    <2>4. rows[j].lowest_seen_price = LowestOf(checks[j].prices)
      BY <2>2, <2>3, LowestIsChosen DEF FiguresMatch
    <2>5. QED
      BY <2>2, <2>4 DEF FiguresMatch
  <1>2. QED
    BY <1>1, AloneInvariant, PTL

-----------------------------------------------------------------------------
(* Silence after the wrap-up. *)

\* A job whose wrap-up was accepted has ended for good, even if the acceptance
\* or the commit was lost: its end is a matter of the clock.
WrappedUpIsOver ==
    \A j \in Jobs : Has(mail[j], "MonitoringEnded") =>
        /\ rows[j] # NoRow => HasEnded(j, rows[j], clock)
        /\ \A w \in Workers : j \in todo[w] => HasEnded(j, mem[w][j], passNow[w])

\* What an accepted event adds to the mail.
LEMMA EmitAppends ==
    ASSUME mail \in [Jobs -> Seq(Event)], NEW j \in Jobs, NEW event \in Event,
           NEW outcome \in Outcomes, Emit(j, event, outcome)
    PROVE  \/ outcome = "failed" /\ mail' = mail
           \/ /\ outcome # "failed"
              /\ mail'[j] = Append(mail[j], event)
              /\ \A k \in Jobs : k # j => mail'[k] = mail[k]
  BY DEF Emit

\* A kind of email is in a longer box if it was there or has just come.
LEMMA HasAppend ==
    ASSUME NEW box \in Seq(Event), NEW event \in Event, NEW kind
    PROVE  /\ DOMAIN Append(box, event) = DOMAIN box \cup {Len(box) + 1}
           /\ \A i \in DOMAIN box : Append(box, event)[i] = box[i] /\ i < Len(box) + 1
           /\ Append(box, event)[Len(box) + 1] = event
           /\ Has(Append(box, event), kind) <=> Has(box, kind) \/ event.kind = kind
  <1>1. /\ DOMAIN Append(box, event) = DOMAIN box \cup {Len(box) + 1}
        /\ \A i \in DOMAIN box : Append(box, event)[i] = box[i] /\ i < Len(box) + 1
        /\ Append(box, event)[Len(box) + 1] = event
    OBVIOUS
  <1>2. QED
    BY <1>1 DEF Has

\* After the first wrap-up there are only wrap-ups.
Silent(box) ==
    \A i, k \in DOMAIN box :
        i < k /\ box[i].kind = "MonitoringEnded" => box[k].kind = "MonitoringEnded"

\* A silent box stays silent if what is added to it after a wrap-up is one.
LEMMA SilentAppend ==
    ASSUME NEW box \in Seq(Event), NEW event \in Event, Silent(box),
           Has(box, "MonitoringEnded") => event.kind = "MonitoringEnded"
    PROVE  Silent(Append(box, event))
  <1>1. PICK new, n : new = Append(box, event) /\ n = Len(box)
    OBVIOUS
  <1>2. n \in Nat /\ DOMAIN box = 1 .. n
    BY <1>1
  <1>3. /\ n \in Nat
        /\ DOMAIN new = 1 .. (n + 1) /\ new[n + 1] = event
        /\ \A i \in 1 .. n : new[i] = box[i]
    BY <1>1, <1>2
  <1>4. ASSUME NEW i, NEW k, i \in 1 .. (n + 1), k \in 1 .. (n + 1), i < k,
               new[i].kind = "MonitoringEnded"
        PROVE  new[k].kind = "MonitoringEnded"
    <2>1. i \in 1 .. n /\ box[i].kind = "MonitoringEnded"
      <3>1. i \in 1 .. n
        BY <1>3, <1>4
      <3>2. QED
        BY <1>3, <1>4, <3>1
    <2>2. CASE k \in 1 .. n
      BY <1>2, <1>3, <1>4, <2>1, <2>2 DEF Silent
    <2>3. CASE k = n + 1
      BY <1>2, <1>3, <2>1, <2>3 DEF Has
    <2>4. QED
      BY <1>3, <1>4, <2>2, <2>3
  <1>5. QED
    BY <1>1, <1>3, <1>4 DEF Silent

\* The end of monitoring depends on the deadline alone, and stays past.
LEMMA EndedStays ==
    ASSUME NEW j \in Jobs, NEW row \in Row, NEW new \in Row, NEW now \in Nat,
           NEW later \in Nat, now <= later, HasEnded(j, row, now),
           new.cancellation_deadline = row.cancellation_deadline
    PROVE  HasEnded(j, new, later)
  <1>1. CheckOut[j] \in Nat
    BY StoreAssumption DEF Time
  <1>2. row.cancellation_deadline # None => row.cancellation_deadline \in Nat
    BY DEF Row, Maybe, Time
  <1>3. QED
    BY <1>1, <1>2 DEF HasEnded

\* There is no mail at first.
LEMMA InitQuiet == Init => WrappedUpIsOver /\ QuietAfterWrapUp
  <1>1. Init => \A j \in Jobs : DOMAIN mail[j] = {}
    BY DEF Init
  <1>2. QED
    BY <1>1 DEF WrappedUpIsOver, QuietAfterWrapUp, Has

\* A step that tells of job j: nothing new, or one event that is the wrap-up
\* exactly if the job has ended.
LEMMA EffectTells ==
    ASSUME TypeOK, NEW w \in Workers, NEW j \in Jobs, NEW row \in Row, Effect(w, j, row)
    PROVE  \/ mail' = mail
           \/ \E event \in Event :
                 /\ mail'[j] = Append(mail[j], event)
                 /\ \A k \in Jobs : k # j => mail'[k] = mail[k]
                 /\ event.kind = "MonitoringEnded" <=> HasEnded(j, mem[w][j], passNow[w])
  <1>1. CASE mail' = mail
    BY <1>1
  <1>2. ASSUME NEW event \in Event, NEW outcome \in Outcomes, Emit(j, event, outcome),
               event.kind = "MonitoringEnded" <=> HasEnded(j, mem[w][j], passNow[w])
        PROVE  \/ mail' = mail
               \/ /\ mail'[j] = Append(mail[j], event)
                  /\ \A k \in Jobs : k # j => mail'[k] = mail[k]
    BY <1>2, EmitAppends DEF TypeOK, StoreTypeOK
  <1>3. QED
    BY <1>1, <1>2 DEF Effect, Tells, TellsEnd, TellsDrop, Warns

\* A single worker stays silent about a job it has wrapped up.
LEMMA NextQuiet ==
    ASSUME OneWorker, AloneInv, WrappedUpIsOver, QuietAfterWrapUp, [Next]_schedVars
    PROVE  WrappedUpIsOver' /\ QuietAfterWrapUp'
  <1>0. /\ TypeOK /\ LoadedIsCurrent /\ SessionIsPass
        /\ mail \in [Jobs -> Seq(Event)] /\ clock \in Nat
        /\ \A j \in Jobs : rows[j] # NoRow => rows[j] \in Row
    BY DEF AloneInv, TypeOK, StoreTypeOK, Time
  <1>1. CASE UNCHANGED schedVars
    BY <1>1 DEF schedVars, sessionVars, storeVars, WrappedUpIsOver, QuietAfterWrapUp
  <1>2. ASSUME NEW w \in Workers, StartPass(w)
        PROVE  WrappedUpIsOver' /\ QuietAfterWrapUp'
    <2>1. UNCHANGED <<rows, clock, mail>>
      BY <1>2 DEF StartPass, storeVars
    <2>2. \A v \in Workers, k \in Jobs : k \in todo'[v] =>
             mem'[v][k] = rows[k] /\ rows[k] # NoRow /\ passNow'[v] = clock
      BY <1>0, <1>2 DEF OneWorker, StartPass, TypeOK, Due
    <2>3. QED
      BY <2>1, <2>2 DEF WrappedUpIsOver, QuietAfterWrapUp
  <1>3. ASSUME NEW w \in Workers, NEW j \in Jobs, SkipPaused(w, j)
        PROVE  WrappedUpIsOver' /\ QuietAfterWrapUp'
    <2>1. UNCHANGED <<rows, clock, mail, mem, passNow>>
      BY <1>3 DEF SkipPaused, Reach
    <2>2. \A v \in Workers : todo'[v] \subseteq todo[v]
      BY <1>0, <1>3 DEF SkipPaused, Reach, TypeOK
    <2>3. QED
      BY <2>1, <2>2 DEF WrappedUpIsOver, QuietAfterWrapUp
  <1>4. ASSUME NEW w \in Workers, NEW j \in Jobs, NEW row \in Row, Effect(w, j, row)
        PROVE  WrappedUpIsOver' /\ QuietAfterWrapUp'
    <2>1. /\ UNCHANGED <<rows, clock, passNow>>
          /\ mem[w][j] \in Row /\ mem[w][j] # NoRow /\ rows[j] \in Row
          /\ j \in todo[w]
      BY <1>0, <1>4, ProcessFrame DEF Effect
    <2>2. \A v \in Workers, k \in Jobs : k \in todo'[v] =>
             k \in todo[v] /\ k # j /\ mem'[v][k] = mem[v][k]
      BY <1>0, <1>4, ProcessFrame DEF Effect, OneWorker
    <2>3. CASE mail' = mail
      <3>1. WrappedUpIsOver'
        BY <2>1, <2>2, <2>3 DEF WrappedUpIsOver
      <3>2. QuietAfterWrapUp'
        BY <2>3 DEF QuietAfterWrapUp
      <3>3. QED
        BY <3>1, <3>2
    <2>4. ASSUME NEW event \in Event,
                 mail'[j] = Append(mail[j], event),
                 \A k \in Jobs : k # j => mail'[k] = mail[k],
                 event.kind = "MonitoringEnded" <=> HasEnded(j, mem[w][j], passNow[w])
          PROVE  WrappedUpIsOver' /\ QuietAfterWrapUp'
      <3>0. Has(mail'[j], "MonitoringEnded")
               <=> Has(mail[j], "MonitoringEnded") \/ event.kind = "MonitoringEnded"
        <4>1. mail[j] \in Seq(Event)
          BY <1>0
        <4>2. Has(Append(mail[j], event), "MonitoringEnded")
                 <=> Has(mail[j], "MonitoringEnded") \/ event.kind = "MonitoringEnded"
          BY <4>1, HasAppend
        <4>3. QED
          BY <2>4, <4>2
      <3>1. Has(mail[j], "MonitoringEnded") => HasEnded(j, mem[w][j], passNow[w])
        BY <2>1 DEF WrappedUpIsOver
      <3>2. HasEnded(j, mem[w][j], passNow[w]) => HasEnded(j, rows[j], clock)
        <4>1. rows[j].cancellation_deadline = mem[w][j].cancellation_deadline
          BY <1>0, <2>1 DEF LoadedIsCurrent, SessionIsPass, SamePolicy
        <4>2. passNow[w] \in Nat /\ passNow[w] <= clock
          BY <1>0, <2>1, TodoRow DEF SessionIsPass
        <4>3. QED
          BY <1>0, <2>1, <4>1, <4>2, EndedStays
      <3>3. ASSUME NEW k \in Jobs, Has(mail'[k], "MonitoringEnded"), rows'[k] # NoRow
            PROVE  HasEnded(k, rows'[k], clock')
        <4>1. CASE k = j
          BY <2>1, <2>4, <3>0, <3>1, <3>2, <3>3, <4>1
        <4>2. CASE k # j
          BY <2>1, <2>4, <3>3, <4>2 DEF WrappedUpIsOver
        <4>3. QED
          BY <4>1, <4>2
      <3>4. WrappedUpIsOver'
        BY <2>1, <2>2, <2>4, <3>3 DEF WrappedUpIsOver
      <3>5. Silent(mail'[j])
        <4>1. Silent(mail[j])
          BY DEF QuietAfterWrapUp, Silent
        <4>2. QED
          BY <1>0, <2>4, <3>1, <4>1, SilentAppend
      <3>6. QuietAfterWrapUp'
        BY <2>4, <3>5 DEF QuietAfterWrapUp, Silent
      <3>7. QED
        BY <3>4, <3>6
    <2>5. QED
      BY <1>0, <1>4, <2>3, <2>4, EffectTells
  <1>5. ASSUME NEW w \in Workers, CommitPass(w) \/ Crash(w)
        PROVE  WrappedUpIsOver' /\ QuietAfterWrapUp'
    <2>1. CloseSession(w) /\ UNCHANGED <<clock, mail>>
      BY <1>5 DEF CommitPass, Crash, storeVars
    <2>2. \A v \in Workers : todo'[v] = {}
      BY <1>0, <2>1, CloseLeavesNothing DEF OneWorker, CloseSession, TypeOK
    <2>3. ASSUME NEW j \in Jobs, rows'[j] # NoRow
          PROVE  /\ rows[j] # NoRow /\ rows'[j] \in Row
                 /\ rows'[j].cancellation_deadline = rows[j].cancellation_deadline
      <3>1. CASE Crash(w)
        BY <1>0, <2>3, <3>1 DEF Crash, storeVars
      <3>2. CASE CommitPass(w)
        <4>1. rows'[j] = IF mem[w][j] = NoRow THEN rows[j] ELSE mem[w][j]
          BY <1>0, <3>2, CommitWritesCopies
        <4>2. mem[w][j] # NoRow => /\ mem[w][j] \in Row /\ rows[j] # NoRow
                                   /\ loaded[w][j] = rows[j]
                                   /\ SamePolicy(loaded[w][j], mem[w][j])
          BY <1>0 DEF TypeOK, RowOrNone, LoadedIsCurrent, SessionIsPass
        <4>3. QED
          BY <1>0, <2>3, <4>1, <4>2 DEF SamePolicy
      <3>3. QED
        BY <1>5, <3>1, <3>2
    <2>4. ASSUME NEW j \in Jobs, Has(mail[j], "MonitoringEnded"), rows'[j] # NoRow
          PROVE  HasEnded(j, rows'[j], clock)
      <3>1. HasEnded(j, rows[j], clock) /\ rows[j] \in Row
        BY <1>0, <2>3, <2>4 DEF WrappedUpIsOver
      <3>2. clock <= clock
        BY <1>0
      <3>3. QED
        BY <1>0, <2>3, <2>4, <3>1, <3>2, EndedStays
    <2>5. QED
      BY <2>1, <2>2, <2>4 DEF WrappedUpIsOver, QuietAfterWrapUp
  <1>6. CASE Tick /\ UNCHANGED sessionVars
    <2>1. UNCHANGED <<rows, mail, mem, todo, passNow>> /\ clock' = clock + 1
      BY <1>6 DEF Tick, sessionVars
    <2>2. ASSUME NEW j \in Jobs, rows[j] # NoRow, HasEnded(j, rows[j], clock)
          PROVE  HasEnded(j, rows[j], clock')
      BY <1>0, <2>1, <2>2, EndedStays
    <2>3. QED
      BY <2>1, <2>2 DEF WrappedUpIsOver, QuietAfterWrapUp
  <1>7. QED
    BY <1>0, <1>1, <1>2, <1>3, <1>4, <1>5, <1>6, StepCases

\* Once the user got the wrap-up, a single worker sends nothing but a repeated
\* wrap-up, even if its acceptance or the commit that records it was lost.
THEOREM QuietAfterWrapUpAlone ==
    ASSUME OneWorker PROVE Spec => []QuietAfterWrapUp
  <1>1. AloneInv /\ WrappedUpIsOver /\ QuietAfterWrapUp /\ [Next]_schedVars
           => WrappedUpIsOver' /\ QuietAfterWrapUp'
    BY NextQuiet
  <1>2. QED
    BY <1>1, InitQuiet, AloneInvariant, PTL DEF Spec

-----------------------------------------------------------------------------
(* The alert threshold. *)

\* What the pass is about to record is at least as deep as what it loaded.
Deepened(j, old, row) ==
    old.lowest_alerted_price # None =>
        \/ row.lowest_alerted_price = old.lowest_alerted_price
        \/ BelowByFloor(row.lowest_alerted_price, old.lowest_alerted_price, Original[j])

SessionDeepens ==
    \A w \in Workers, j \in Jobs : mem[w][j] # NoRow => Deepened(j, loaded[w][j], mem[w][j])

\* One job processed moves the threshold down, by more than the floor, or not
\* at all: an honest row has a threshold only if it was told a drop.
LEMMA EffectDeepens ==
    ASSUME NEW w \in Workers, NEW j \in Jobs, NEW row \in Row, Effect(w, j, row),
           Honest(mem[w][j], mail[j])
    PROVE  Deepened(j, mem[w][j], row)
  <1>1. CASE SameAlerts(mem[w][j], row)
    BY <1>1 DEF SameAlerts, Deepened
  <1>2. ASSUME NEW event, NEW outcome, TellsEnd(mem[w][j], row, event, Delivered(outcome))
        PROVE  Deepened(j, mem[w][j], row)
    BY <1>2 DEF TellsEnd, SameAlerts, Deepened
  <1>3. ASSUME NEW event, NEW outcome, TellsDrop(j, mem[w][j], row, event, Delivered(outcome))
        PROVE  Deepened(j, mem[w][j], row)
    BY <1>3 DEF TellsDrop, SameAlerts, Deepened, WorthTelling, Honest
  <1>4. ASSUME NEW event, NEW outcome, Warns(mem[w][j], row, event, Delivered(outcome))
        PROVE  Deepened(j, mem[w][j], row)
    BY <1>4 DEF Warns, SameAlerts, Deepened
  <1>5. QED
    BY <1>1, <1>2, <1>3, <1>4 DEF Effect, Tells

\* A single worker keeps its session at least as deep as the table.
LEMMA NextDeepens ==
    ASSUME OneWorker, AloneInv, SessionDeepens, [Next]_schedVars
    PROVE  SessionDeepens'
  <1>0. TypeOK /\ LoadedIsCurrent /\ SessionIsPass /\ RecordsAreHonest
    BY DEF AloneInv
  <1>1. CASE UNCHANGED sessionVars
    BY <1>1 DEF sessionVars, SessionDeepens
  <1>2. ASSUME NEW w \in Workers, StartPass(w) PROVE SessionDeepens'
    BY <1>0, <1>2 DEF OneWorker, StartPass, TypeOK, SessionDeepens, Deepened
  <1>3. ASSUME NEW w \in Workers, NEW j \in Jobs, SkipPaused(w, j) PROVE SessionDeepens'
    BY <1>3 DEF SkipPaused, Reach, SessionDeepens
  <1>4. ASSUME NEW w \in Workers, NEW j \in Jobs, NEW row \in Row, Effect(w, j, row)
        PROVE  SessionDeepens'
    <2>1. /\ loaded' = loaded /\ mem[w][j] # NoRow /\ j \in todo[w] /\ mem'[w][j] = row
          /\ \A v \in Workers, k \in Jobs : v # w \/ k # j => mem'[v][k] = mem[v][k]
      BY <1>0, <1>4, ProcessFrame DEF Effect
    <2>2. mem[w][j] = loaded[w][j] /\ Honest(mem[w][j], mail[j])
      BY <1>0, <2>1 DEF SessionIsPass, RecordsAreHonest, SessionHonest
    <2>3. Deepened(j, loaded[w][j], row)
      BY <1>4, <2>2, EffectDeepens
    <2>4. QED
      BY <2>1, <2>3 DEF SessionDeepens
  <1>5. ASSUME NEW w \in Workers, CommitPass(w) \/ Crash(w) PROVE SessionDeepens'
    BY <1>0, <1>5, CloseLeavesNothing DEF CommitPass, Crash, SessionDeepens
  <1>6. QED
    BY <1>0, <1>1, <1>2, <1>3, <1>4, <1>5, StepCases DEF schedVars, sessionVars

\* A step leaves the recorded threshold of a job as it is or lowers it.
RecordDeepensStep ==
    \A j \in Jobs : rows[j] # NoRow /\ rows[j].lowest_alerted_price # None =>
        \/ rows'[j].lowest_alerted_price = rows[j].lowest_alerted_price
        \/ BelowByFloor(rows'[j].lowest_alerted_price,
                        rows[j].lowest_alerted_price, Original[j])

\* Only a commit writes the threshold, and it writes the session's.
LEMMA StepDeepens ==
    ASSUME AloneInv, SessionDeepens, [Next]_schedVars
    PROVE  RecordDeepensStep
  <1>0. TypeOK /\ LoadedIsCurrent
    BY DEF AloneInv
  <1>1. CASE rows' = rows
    BY <1>1 DEF RecordDeepensStep
  <1>2. ASSUME NEW w \in Workers, CommitPass(w) PROVE RecordDeepensStep
    <2>1. \A j \in Jobs : rows'[j] = IF mem[w][j] = NoRow THEN rows[j] ELSE mem[w][j]
      BY <1>0, <1>2, CommitWritesCopies
    <2>2. QED
      BY <1>0, <2>1 DEF LoadedIsCurrent, SessionDeepens, Deepened, RecordDeepensStep
  <1>3. ASSUME NEW w \in Workers, NEW j \in Jobs, NEW row \in Row, Effect(w, j, row)
        PROVE  rows' = rows
    BY <1>0, <1>3, ProcessFrame DEF Effect
  <1>4. QED
    BY <1>0, <1>1, <1>2, <1>3, StepCases
    DEF schedVars, storeVars, StartPass, SkipPaused, Reach, Crash, Tick

\* With one worker the price a drop alert must beat only ever goes down, and
\* by more than the floor, even if passes are lost between send and commit.
THEOREM RecordDeepensAlone ==
    ASSUME OneWorker PROVE Spec => RecordDeepens
  <1>1. Init => SessionDeepens
    BY DEF Init, SessionInit, NoSession, SessionDeepens
  <1>2. AloneInv /\ SessionDeepens /\ [Next]_schedVars => SessionDeepens'
    BY NextDeepens
  <1>3. AloneInv /\ SessionDeepens /\ [Next]_schedVars => [RecordDeepensStep]_schedVars
    BY StepDeepens
  <1>4. RecordDeepens <=> [][RecordDeepensStep]_schedVars
    BY DEF RecordDeepens, RecordDeepensStep
  <1>5. QED
    BY <1>1, <1>2, <1>3, <1>4, AloneInvariant, PTL DEF Spec

-----------------------------------------------------------------------------
(* The reassurance of the deadline email. *)

\* The deadline email of a step quotes the lowest price of the history and of
\* what the pass is about to add to it.
ReassuranceStep ==
    \A j \in Jobs : Len(mail'[j]) > Len(mail[j])
          /\ mail'[j][Len(mail'[j])].kind = "DeadlineApproaching" =>
        mail'[j][Len(mail'[j])].price =
            LowestOf(checks[j].prices \cup UNION {added'[w][j] \ {None} : w \in Workers})

\* The warning is sent after the check of its step, with the figures it left.
LEMMA StepReassures ==
    ASSUME OneWorker, AloneInv, [Next]_schedVars
    PROVE  ReassuranceStep
  <1>0. /\ TypeOK /\ FiguresAgree /\ FiguresAreBacked
        /\ mail \in [Jobs -> Seq(Event)]
    BY DEF AloneInv, TypeOK, StoreTypeOK
  <1>1. CASE mail' = mail
    <2>1. \A j \in Jobs : ~(Len(mail'[j]) > Len(mail[j]))
      BY <1>0, <1>1
    <2>2. QED
      BY <2>1 DEF ReassuranceStep
  <1>2. ASSUME NEW w \in Workers, NEW j \in Jobs, NEW row \in Row, Effect(w, j, row),
               mail' # mail
        PROVE  ReassuranceStep
    <2>1. SUFFICES ASSUME NEW k \in Jobs, Len(mail'[k]) > Len(mail[k]),
                          mail'[k][Len(mail'[k])].kind = "DeadlineApproaching"
                   PROVE  mail'[k][Len(mail'[k])].price = LowestOf(checks[k].prices
                             \cup UNION {added'[v][k] \ {None} : v \in Workers})
      BY DEF ReassuranceStep
    <2>2. PICK event \in Event, outcome \in Outcomes :
             /\ Emit(j, event, outcome)
             /\ \/ TellsEnd(mem[w][j], row, event, Delivered(outcome))
                \/ TellsDrop(j, mem[w][j], row, event, Delivered(outcome))
                \/ Warns(mem[w][j], row, event, Delivered(outcome))
      BY <1>2 DEF Effect, Tells
    <2>3. /\ mail'[j] = Append(mail[j], event)
          /\ \A i \in Jobs : i # j => mail'[i] = mail[i]
      BY <1>0, <1>2, <2>2, EmitAppends
    <2>4. k = j
      BY <1>0, <2>1, <2>3
    <2>5. mail'[k][Len(mail'[k])] = event
      <3>1. mail[j] \in Seq(Event)
        BY <1>0
      <3>2. Append(mail[j], event)[Len(Append(mail[j], event))] = event
        BY <3>1
      <3>3. QED
        BY <2>3, <2>4, <3>2
    <2>6. event.price = row.lowest_seen_price
      BY <2>1, <2>2, <2>5 DEF TellsEnd, TellsDrop, Warns
    <2>7. FiguresMatch(Recorded(w, j)', Found(w, j)', row) /\ checks' = checks
      BY <1>0, <1>2, EffectAgrees, ProcessFrame DEF Effect
    <2>8. PICK all : all = checks[j].prices \cup (added'[w][j] \ {None})
      OBVIOUS
    <2>9. IsLowest(row.lowest_seen_price, all)
      BY <2>7, <2>8 DEF FiguresMatch, Found
    <2>10. all \in SUBSET Nat
      <3>1. TypeOK'
        BY <1>0, NextKeepsTypes
      <3>2. added'[w][j] \ {None} \subseteq Prices
        BY <3>1 DEF TypeOK, Maybe
      <3>3. checks[j].prices \subseteq Prices
        BY <1>0 DEF TypeOK, StoreTypeOK, History
      <3>4. QED
        BY <2>8, <3>2, <3>3, PricesAreNumbers
    <2>11. UNION {added'[v][k] \ {None} : v \in Workers} = added'[w][k] \ {None}
      BY DEF OneWorker
    <2>12. QED
      BY <2>4, <2>5, <2>6, <2>8, <2>9, <2>10, <2>11, LowestIsChosen
  <1>3. QED
    BY <1>0, <1>1, <1>2, StepCases
    DEF schedVars, storeVars, StartPass, SkipPaused, CommitPass, Crash, Tick

\* With one worker the deadline email's reassurance covers every check made
\* for the job, the one of the same step included, although nothing of the
\* pass is committed yet.
THEOREM ReassuranceIsCompleteAlone ==
    ASSUME OneWorker PROVE Spec => ReassuranceIsComplete
  <1>1. AloneInv /\ [Next]_schedVars => [ReassuranceStep]_schedVars
    BY StepReassures
  <1>2. ReassuranceIsComplete <=> [][ReassuranceStep]_schedVars
    BY DEF ReassuranceIsComplete, ReassuranceStep
  <1>3. QED
    BY <1>1, <1>2, AloneInvariant, PTL DEF Spec

-----------------------------------------------------------------------------
(* The promise about email. *)

\* Every acceptance comes back and no pass dies.
NothingLost == "lost_ack" \notin Faults /\ "crash" \notin Faults

\* A row says exactly what is in the mail.
Exact(row, box) ==
    /\ IF row.lowest_alerted_price = None THEN ~Has(box, "PriceDropFound")
       ELSE \E i \in DOMAIN box : /\ IsLatest(box, "PriceDropFound", i)
                                  /\ box[i].price = row.lowest_alerted_price
    /\ Times(box, "DeadlineApproaching") = IF row.deadline_alert_sent THEN 1 ELSE 0
    /\ Times(box, "MonitoringEnded") = IF row.status = "expired" THEN 1 ELSE 0

\* Why KeepsPromise holds: the copy the next decision is taken from, the
\* session's if there is one and else the row, is exact.
RecordsAreExact ==
    \A j \in Jobs :
        /\ rows[j] # NoRow /\ (\A w \in Workers : mem[w][j] = NoRow) => Exact(rows[j], mail[j])
        /\ \A w \in Workers : mem[w][j] # NoRow => Exact(mem[w][j], mail[j])

\* How often a kind was sent is a number, and 0 if it was not.
LEMMA TimesType ==
    ASSUME NEW box \in Seq(Event), NEW kind
    PROVE  /\ IsFiniteSet({i \in DOMAIN box : box[i].kind = kind})
           /\ Times(box, kind) \in Nat
           /\ Times(box, kind) = 0 <=> ~Has(box, kind)
  <1> DEFINE S == {i \in DOMAIN box : box[i].kind = kind}
  <1>1. DOMAIN box = 1 .. Len(box) /\ Len(box) \in Nat
    OBVIOUS
  <1>2. IsFiniteSet(1 .. Len(box))
    BY <1>1, FS_Interval
  <1>3. IsFiniteSet(S)
    BY <1>1, <1>2, FS_Subset
  <1>4. Cardinality(S) \in Nat /\ (Cardinality(S) = 0 <=> S = {})
    BY <1>3, FS_CardinalityType, FS_EmptySet
  <1>5. S = {} <=> ~Has(box, kind)
    BY DEF Has
  <1>6. QED
    BY <1>3, <1>4, <1>5 DEF Times

\* One more event counts once, for its kind.
LEMMA TimesAppend ==
    ASSUME NEW box \in Seq(Event), NEW event \in Event, NEW kind
    PROVE  Times(Append(box, event), kind)
              = IF event.kind = kind THEN Times(box, kind) + 1 ELSE Times(box, kind)
  <1> DEFINE S == {i \in DOMAIN box : box[i].kind = kind}
             T == {i \in DOMAIN Append(box, event) : Append(box, event)[i].kind = kind}
  <1>1. /\ DOMAIN Append(box, event) = DOMAIN box \cup {Len(box) + 1}
        /\ \A i \in DOMAIN box : Append(box, event)[i] = box[i] /\ i < Len(box) + 1
        /\ Append(box, event)[Len(box) + 1] = event
    BY HasAppend
  <1>2. T = IF event.kind = kind THEN S \cup {Len(box) + 1} ELSE S
    BY <1>1
  <1>3. Len(box) + 1 \notin S
    <2>1. \A i \in DOMAIN box : i # Len(box) + 1
      BY <1>1
    <2>2. QED
      BY <2>1
  <1>4. IsFiniteSet(S)
    BY TimesType
  <1>5. Cardinality(S \cup {Len(box) + 1}) = Cardinality(S) + 1
    BY <1>3, <1>4, FS_AddElement
  <1>6. QED
    BY <1>2, <1>5 DEF Times

\* The price of the latest email of a kind, once its position is known.
LEMMA LatestIs ==
    ASSUME NEW box \in Seq(Event), NEW kind, NEW i \in DOMAIN box, IsLatest(box, kind, i)
    PROVE  LatestPrice(box, kind) = box[i].price
  <1>1. Has(box, kind)
    BY DEF Has, IsLatest
  <1>2. ASSUME NEW k \in DOMAIN box, IsLatest(box, kind, k) PROVE k = i
    <2>1. k \in Nat /\ i \in Nat
      OBVIOUS
    <2>2. ~(k > i) /\ ~(i > k)
      BY <1>2 DEF IsLatest
    <2>3. QED
      BY <2>1, <2>2
  <1>3. (CHOOSE k \in DOMAIN box : IsLatest(box, kind, k)) = i
    BY <1>2
  <1>4. QED
    BY <1>1, <1>3 DEF LatestPrice

\* A new email is the latest of its kind, and changes nothing for another kind.
LEMMA LatestAppend ==
    ASSUME NEW box \in Seq(Event), NEW event \in Event, NEW kind
    PROVE  /\ event.kind = kind => IsLatest(Append(box, event), kind, Len(box) + 1)
           /\ event.kind # kind => \A i \in DOMAIN box :
                 IsLatest(box, kind, i) => IsLatest(Append(box, event), kind, i)
  <1>1. /\ DOMAIN Append(box, event) = DOMAIN box \cup {Len(box) + 1}
        /\ \A i \in DOMAIN box : Append(box, event)[i] = box[i] /\ i < Len(box) + 1
        /\ Append(box, event)[Len(box) + 1] = event
    BY HasAppend
  <1>2. \A i \in DOMAIN box \cup {Len(box) + 1} : ~(i > Len(box) + 1)
    <2>1. DOMAIN box = 1 .. Len(box) /\ Len(box) \in Nat
      OBVIOUS
    <2>2. QED
      BY <2>1
  <1>3. QED
    BY <1>1, <1>2 DEF IsLatest

\* The latest drop an exact row speaks of is the latest in the mail.
LEMMA ExactLatest ==
    ASSUME NEW box \in Seq(Event), NEW row, Exact(row, box)
    PROVE  LatestPrice(box, "PriceDropFound") = row.lowest_alerted_price
  <1>1. CASE row.lowest_alerted_price = None
    BY <1>1 DEF Exact, LatestPrice
  <1>2. CASE row.lowest_alerted_price # None
    BY <1>2, LatestIs DEF Exact
  <1>3. QED
    BY <1>1, <1>2

\* An exact row that records the event just accepted is exact again.
LEMMA ExactAppend ==
    ASSUME NEW box \in Seq(Event), NEW event \in Event, NEW old \in Row, NEW row \in Row,
           Exact(old, box), old.status # "expired",
           event.kind = "PriceDropFound" => event.price # None,
           row.lowest_alerted_price = IF event.kind = "PriceDropFound" THEN event.price
                                      ELSE old.lowest_alerted_price,
           event.kind = "DeadlineApproaching"
              => ~old.deadline_alert_sent /\ row.deadline_alert_sent,
           event.kind # "DeadlineApproaching"
              => row.deadline_alert_sent = old.deadline_alert_sent,
           row.status = "expired" <=> event.kind = "MonitoringEnded"
    PROVE  Exact(row, Append(box, event))
  <1> DEFINE new == Append(box, event)
  <1>1. /\ DOMAIN new = DOMAIN box \cup {Len(box) + 1}
        /\ \A i \in DOMAIN box : new[i] = box[i]
        /\ new[Len(box) + 1] = event
        /\ Has(new, "PriceDropFound")
              <=> Has(box, "PriceDropFound") \/ event.kind = "PriceDropFound"
    BY HasAppend
  <1>2. /\ event.kind = "PriceDropFound" => IsLatest(new, "PriceDropFound", Len(box) + 1)
        /\ event.kind # "PriceDropFound" => \A i \in DOMAIN box :
              IsLatest(box, "PriceDropFound", i) => IsLatest(new, "PriceDropFound", i)
    BY LatestAppend
  <1>3. /\ Times(new, "DeadlineApproaching") =
              IF event.kind = "DeadlineApproaching" THEN Times(box, "DeadlineApproaching") + 1
              ELSE Times(box, "DeadlineApproaching")
        /\ Times(new, "MonitoringEnded") =
              IF event.kind = "MonitoringEnded" THEN Times(box, "MonitoringEnded") + 1
              ELSE Times(box, "MonitoringEnded")
    BY TimesAppend
  <1> HIDE DEF new
  <1>4. Times(new, "DeadlineApproaching") = IF row.deadline_alert_sent THEN 1 ELSE 0
    <2>1. Times(box, "DeadlineApproaching") = IF old.deadline_alert_sent THEN 1 ELSE 0
      BY DEF Exact
    <2>2. CASE event.kind = "DeadlineApproaching"
      BY <1>3, <2>1, <2>2
    <2>3. CASE event.kind # "DeadlineApproaching"
      BY <1>3, <2>1, <2>3
    <2>4. QED
      BY <2>2, <2>3
  <1>5. Times(new, "MonitoringEnded") = IF row.status = "expired" THEN 1 ELSE 0
    <2>1. Times(box, "MonitoringEnded") = 0
      BY DEF Exact
    <2>2. QED
      BY <1>3, <2>1
  <1>6. IF row.lowest_alerted_price = None THEN ~Has(new, "PriceDropFound")
        ELSE \E i \in DOMAIN new : /\ IsLatest(new, "PriceDropFound", i)
                                   /\ new[i].price = row.lowest_alerted_price
    <2>1. CASE event.kind = "PriceDropFound"
      BY <1>1, <1>2, <2>1
    <2>2. CASE event.kind # "PriceDropFound"
      BY <1>1, <1>2, <2>2 DEF Exact
    <2>3. QED
      BY <2>1, <2>2
  <1>7. QED
    BY <1>4, <1>5, <1>6 DEF Exact, new

\* If nothing is lost, what was accepted is exactly what is recorded.
LEMMA EffectExact ==
    ASSUME NothingLost, AloneInv, RecordsAreExact,
           NEW w \in Workers, NEW j \in Jobs, NEW row \in Row, Effect(w, j, row)
    PROVE  Exact(row, mail'[j]) /\ \A k \in Jobs : k # j => mail'[k] = mail[k]
  <1> DEFINE old == mem[w][j]
  <1>0. /\ TypeOK /\ mail \in [Jobs -> Seq(Event)]
        /\ \A outcome \in Outcomes : outcome # "failed" <=> Delivered(outcome)
    BY DEF AloneInv, TypeOK, StoreTypeOK, NothingLost, Outcomes, Delivered
  <1>1. /\ old \in Row /\ old # NoRow /\ j \in todo[w]
        /\ old.status \in Monitored
    BY <1>0, ProcessFrame DEF Effect, AloneInv, SessionIsPass
  <1>2. Exact(old, mail[j]) /\ old.status # "expired"
    BY <1>1 DEF RecordsAreExact, Monitored
  <1>3. ASSUME SameAlerts(old, row) PROVE Exact(row, mail[j])
    BY <1>2, <1>3 DEF Exact, SameAlerts
  <1>4. CASE SameAlerts(old, row) /\ mail' = mail
    BY <1>3, <1>4
  <1>5. ASSUME NEW event \in Event, NEW outcome \in Outcomes, Emit(j, event, outcome),
               \/ TellsEnd(old, row, event, Delivered(outcome))
               \/ TellsDrop(j, old, row, event, Delivered(outcome))
               \/ Warns(old, row, event, Delivered(outcome))
        PROVE  Exact(row, mail'[j]) /\ \A k \in Jobs : k # j => mail'[k] = mail[k]
    <2>1. CASE ~Delivered(outcome)
      <3>1. mail' = mail
        BY <1>0, <1>5, <2>1, EmitAppends
      <3>2. SameAlerts(old, row)
        BY <1>5, <2>1 DEF TellsEnd, TellsDrop, Warns
      <3>3. QED
        BY <1>3, <3>1, <3>2
    <2>2. CASE Delivered(outcome)
      <3>1. /\ mail'[j] = Append(mail[j], event)
            /\ \A k \in Jobs : k # j => mail'[k] = mail[k]
        BY <1>0, <1>5, <2>2, EmitAppends
      <3>2. CASE TellsEnd(old, row, event, Delivered(outcome))
        <4>1. Exact(row, Append(mail[j], event))
          BY <1>0, <1>1, <1>2, <2>2, <3>2, ExactAppend DEF TellsEnd
        <4>2. QED
          BY <3>1, <4>1
      <3>3. CASE TellsDrop(j, old, row, event, Delivered(outcome))
        <4>1. event.price # None
          BY <3>3, PricesAreNumbers DEF TellsDrop
        <4>2. Exact(row, Append(mail[j], event))
          BY <1>0, <1>1, <1>2, <2>2, <3>3, <4>1, ExactAppend DEF TellsDrop
        <4>3. QED
          BY <3>1, <4>2
      <3>4. CASE Warns(old, row, event, Delivered(outcome))
        <4>1. Exact(row, Append(mail[j], event))
          BY <1>0, <1>1, <1>2, <2>2, <3>4, ExactAppend DEF Warns
        <4>2. QED
          BY <3>1, <4>1
      <3>5. QED
        BY <1>5, <3>2, <3>3, <3>4
    <2>3. QED
      BY <2>1, <2>2
  <1>6. QED
    BY <1>4, <1>5 DEF Effect, Tells

\* A single worker that loses nothing keeps its records exact.
LEMMA NextExact ==
    ASSUME OneWorker, NothingLost, AloneInv, RecordsAreExact, [Next]_schedVars
    PROVE  RecordsAreExact'
  <1>0. TypeOK /\ LoadedIsCurrent
    BY DEF AloneInv
  <1>1. CASE UNCHANGED <<rows, mem, mail>>
    BY <1>1 DEF RecordsAreExact
  <1>2. ASSUME NEW w \in Workers, StartPass(w) PROVE RecordsAreExact'
    <2>1. UNCHANGED <<rows, mail>> /\ \A v \in Workers, k \in Jobs : mem[v][k] = NoRow
      BY <1>0, <1>2 DEF OneWorker, StartPass, storeVars, TypeOK
    <2>2. \A v \in Workers, k \in Jobs : mem'[v][k] \in {rows[k], NoRow}
      BY <1>0, <1>2 DEF OneWorker, StartPass, TypeOK
    <2>3. QED
      BY <2>1, <2>2 DEF RecordsAreExact
  <1>3. ASSUME NEW w \in Workers, NEW j \in Jobs, NEW row \in Row, Effect(w, j, row)
        PROVE  RecordsAreExact'
    <2>1. /\ rows' = rows /\ mem[w][j] # NoRow /\ mem'[w][j] = row /\ row # NoRow
          /\ \A v \in Workers, k \in Jobs : v # w \/ k # j => mem'[v][k] = mem[v][k]
      BY <1>0, <1>3, ProcessFrame, StoreAssumption DEF Effect
    <2>2. Exact(row, mail'[j]) /\ \A k \in Jobs : k # j => mail'[k] = mail[k]
      BY <1>3, EffectExact
    <2>3. \A v \in Workers : v = w
      BY DEF OneWorker
    <2>4. QED
      BY <2>1, <2>2, <2>3 DEF RecordsAreExact
  <1>4. ASSUME NEW w \in Workers, CommitPass(w) PROVE RecordsAreExact'
    <2>1. mail' = mail /\ \A v \in Workers, k \in Jobs : mem'[v][k] = NoRow
      BY <1>0, <1>4, CloseLeavesNothing DEF CommitPass
    <2>2. ASSUME NEW j \in Jobs, rows'[j] # NoRow PROVE Exact(rows'[j], mail[j])
      <3>1. rows'[j] = IF mem[w][j] = NoRow THEN rows[j] ELSE mem[w][j]
        BY <1>0, <1>4, CommitWritesCopies
      <3>2. \A v \in Workers : v = w
        BY DEF OneWorker
      <3>3. QED
        BY <2>2, <3>1, <3>2 DEF RecordsAreExact
    <2>3. QED
      BY <2>1, <2>2 DEF RecordsAreExact
  <1>5. ASSUME NEW w \in Workers, Crash(w) PROVE FALSE
    BY <1>5 DEF Crash, NothingLost
  <1>6. QED
    BY <1>0, <1>1, <1>2, <1>3, <1>4, <1>5, StepCases
    DEF schedVars, storeVars, sessionVars, SkipPaused, Reach, Tick

\* One email of job j, as the promise sees it.
LEMMA MailedCounts ==
    ASSUME mail \in [Jobs -> Seq(Event)], NEW j \in Jobs, NEW event \in Event, NEW kind,
           mail'[j] = Append(mail[j], event), \A k \in Jobs : k # j => mail'[k] = mail[k]
    PROVE  \A k \in Jobs : Times(mail'[k], kind) =
              IF k = j /\ event.kind = kind THEN Times(mail[k], kind) + 1
              ELSE Times(mail[k], kind)
  <1>1. mail[j] \in Seq(Event)
    OBVIOUS
  <1>2. Times(mail'[j], kind)
           = IF event.kind = kind THEN Times(mail[j], kind) + 1 ELSE Times(mail[j], kind)
    BY <1>1, TimesAppend
  <1>3. QED
    BY <1>2

\* The promise measures a drop as the worker does.
LEMMA PromiseFloor ==
    \A price, baseline, original :
        Promise!BelowByFloor(price, baseline, original)
           <=> BelowByFloor(price, baseline, original)
  BY DEF BelowByFloor, Promise!BelowByFloor, DropFloor100, Promise!DropFloor100

\* Every job processed is one act of the promise, or none.
LEMMA EffectKeepsPromise ==
    ASSUME NothingLost, AloneInv, RecordsAreExact,
           NEW w \in Workers, NEW j \in Jobs, NEW row \in Row, Effect(w, j, row)
    PROVE  [Promise!PromiseNext]_(Promise!promiseVars)
  <1> DEFINE old == mem[w][j]
             told == [k \in Jobs |-> Times(mail[k], "PriceDropFound")]
             last == [k \in Jobs |-> LatestPrice(mail[k], "PriceDropFound")]
             warned == [k \in Jobs |-> Times(mail[k], "DeadlineApproaching")]
             ended == [k \in Jobs |-> Times(mail[k], "MonitoringEnded")]
  <1>0. /\ TypeOK /\ mail \in [Jobs -> Seq(Event)]
        /\ \A outcome \in Outcomes : outcome # "failed" <=> Delivered(outcome)
    BY DEF AloneInv, TypeOK, StoreTypeOK, NothingLost, Outcomes, Delivered
  <1>1. /\ old \in Row /\ old # NoRow /\ j \in todo[w]
        /\ old.status \in Monitored /\ Honest(old, mail[j])
    BY <1>0, ProcessFrame
    DEF Effect, AloneInv, SessionIsPass, RecordsAreHonest, SessionHonest
  <1>2. Exact(old, mail[j]) /\ old.status # "expired"
    BY <1>1 DEF RecordsAreExact, Monitored
  <1>3. Exact(row, mail'[j]) /\ \A k \in Jobs : k # j => mail'[k] = mail[k]
    BY EffectExact
  <1>4. ended[j] = 0 /\ warned[j] = IF old.deadline_alert_sent THEN 1 ELSE 0
    BY <1>2 DEF Exact
  <1>5. last[j] = old.lowest_alerted_price /\ (told[j] # 0 => old.lowest_alerted_price # None)
    <2>1. mail[j] \in Seq(Event)
      BY <1>0
    <2>2. told[j] # 0 => Has(mail[j], "PriceDropFound")
      BY <2>1, TimesType
    <2>3. QED
      BY <1>2, <2>1, <2>2, ExactLatest DEF Exact
  <1>6. CASE mail' = mail
    BY <1>6 DEF Promise!promiseVars
  <1>7. ASSUME NEW event \in Event, NEW outcome \in Outcomes, Emit(j, event, outcome),
               mail' # mail,
               \/ TellsEnd(old, row, event, Delivered(outcome))
               \/ TellsDrop(j, old, row, event, Delivered(outcome))
               \/ Warns(old, row, event, Delivered(outcome))
        PROVE  Promise!PromiseNext
    <2>1. mail'[j] = Append(mail[j], event) /\ Delivered(outcome)
      BY <1>0, <1>7, EmitAppends
    <2>2. last' = [last EXCEPT ![j] = row.lowest_alerted_price]
      <3>1. \A k \in Jobs : LatestPrice(mail'[k], "PriceDropFound") =
               IF k = j THEN row.lowest_alerted_price
               ELSE LatestPrice(mail[k], "PriceDropFound")
        <4>1. mail[j] \in Seq(Event)
          BY <1>0
        <4>2. mail'[j] \in Seq(Event)
          BY <2>1, <4>1
        <4>3. LatestPrice(mail'[j], "PriceDropFound") = row.lowest_alerted_price
          BY <1>3, <4>2, ExactLatest
        <4>4. QED
          BY <1>3, <4>3
      <3>2. QED
        BY <3>1
    <2>3. told' = IF event.kind = "PriceDropFound" THEN [told EXCEPT ![j] = told[j] + 1]
                  ELSE told
      <3>1. \A k \in Jobs : Times(mail'[k], "PriceDropFound") =
               IF k = j /\ event.kind = "PriceDropFound" THEN Times(mail[k], "PriceDropFound") + 1
               ELSE Times(mail[k], "PriceDropFound")
        BY <1>0, <1>3, <2>1, MailedCounts
      <3>2. QED
        BY <3>1
    <2>4. warned' = IF event.kind = "DeadlineApproaching"
                    THEN [warned EXCEPT ![j] = warned[j] + 1] ELSE warned
      <3>1. \A k \in Jobs : Times(mail'[k], "DeadlineApproaching") =
               IF k = j /\ event.kind = "DeadlineApproaching"
               THEN Times(mail[k], "DeadlineApproaching") + 1
               ELSE Times(mail[k], "DeadlineApproaching")
        BY <1>0, <1>3, <2>1, MailedCounts
      <3>2. QED
        BY <3>1
    <2>5. ended' = IF event.kind = "MonitoringEnded" THEN [ended EXCEPT ![j] = ended[j] + 1]
                   ELSE ended
      <3>1. \A k \in Jobs : Times(mail'[k], "MonitoringEnded") =
               IF k = j /\ event.kind = "MonitoringEnded" THEN Times(mail[k], "MonitoringEnded") + 1
               ELSE Times(mail[k], "MonitoringEnded")
        BY <1>0, <1>3, <2>1, MailedCounts
      <3>2. QED
        BY <3>1
    <2>6. row.lowest_alerted_price = old.lowest_alerted_price => last' = last
      BY <1>5, <2>2
    <2>7. CASE TellsDrop(j, old, row, event, Delivered(outcome))
      <3>1. /\ event.kind = "PriceDropFound" /\ event.price \in Prices
            /\ BelowByFloor(event.price, Original[j], Original[j])
            /\ WorthTelling(j, old, event.price)
            /\ row.lowest_alerted_price = event.price
        BY <2>1, <2>7 DEF TellsDrop
      <3>2. told[j] # 0 => BelowByFloor(event.price, last[j], Original[j])
        BY <1>1, <1>5, <3>1 DEF WorthTelling, Honest
      <3>3. told' = [told EXCEPT ![j] = told[j] + 1] /\ warned' = warned /\ ended' = ended
        BY <2>3, <2>4, <2>5, <3>1
      <3>4. last' = [last EXCEPT ![j] = event.price]
        BY <2>2, <3>1
      <3> HIDE DEF told, last, warned, ended
      <3>5. Promise!TellDrop(j, event.price)
        BY <1>4, <3>1, <3>2, <3>3, <3>4, PromiseFloor
        DEF Promise!TellDrop, told, last, warned, ended
      <3>6. QED
        BY <3>1, <3>5 DEF Promise!PromiseNext
    <2>8. CASE Warns(old, row, event, Delivered(outcome))
      <3>1. /\ event.kind = "DeadlineApproaching" /\ warned[j] = 0
            /\ row.lowest_alerted_price = old.lowest_alerted_price
        BY <1>4, <2>1, <2>8 DEF Warns
      <3>2. warned' = [warned EXCEPT ![j] = 1] /\ told' = told /\ last' = last /\ ended' = ended
        <4> HIDE DEF told, last, warned, ended
        <4>1. event.kind # "PriceDropFound" /\ event.kind # "MonitoringEnded"
          BY <3>1
        <4>2. told' = told /\ ended' = ended
          BY <2>3, <2>5, <4>1
        <4>3. last' = last
          BY <2>6, <3>1
        <4>4. warned' = [warned EXCEPT ![j] = 1]
          BY <2>4, <3>1
        <4>5. QED
          BY <4>2, <4>3, <4>4
      <3> HIDE DEF told, last, warned, ended
      <3>3. Promise!Warn(j)
        BY <1>4, <3>1, <3>2 DEF Promise!Warn, told, last, warned, ended
      <3>4. QED
        BY <3>3 DEF Promise!PromiseNext
    <2>9. CASE TellsEnd(old, row, event, Delivered(outcome))
      <3>1. /\ event.kind = "MonitoringEnded"
            /\ row.lowest_alerted_price = old.lowest_alerted_price
        BY <2>1, <2>9 DEF TellsEnd
      <3>2. ended' = [ended EXCEPT ![j] = 1] /\ told' = told /\ last' = last /\ warned' = warned
        <4> HIDE DEF told, last, warned, ended
        <4>1. event.kind # "PriceDropFound" /\ event.kind # "DeadlineApproaching"
          BY <3>1
        <4>2. told' = told /\ warned' = warned
          BY <2>3, <2>4, <4>1
        <4>3. last' = last
          BY <2>6, <3>1
        <4>4. ended' = [ended EXCEPT ![j] = 1]
          BY <1>4, <2>5, <3>1
        <4>5. QED
          BY <4>2, <4>3, <4>4
      <3>3. Promise!WrapUp(j)
        BY <1>4, <3>2 DEF Promise!WrapUp
      <3>4. QED
        BY <3>3 DEF Promise!PromiseNext
    <2>10. QED
      BY <1>7, <2>7, <2>8, <2>9
  <1>8. QED
    BY <1>6, <1>7 DEF Effect, Tells

\* No one has been told anything at first.
LEMMA InitPromise == Init => Promise!PromiseInit /\ RecordsAreExact
  <1> SUFFICES ASSUME Init PROVE Promise!PromiseInit /\ RecordsAreExact
    OBVIOUS
  <1>1. ASSUME NEW j \in Jobs, NEW kind
        PROVE  mail[j] \in Seq(Event) /\ ~Has(mail[j], kind) /\ Times(mail[j], kind) = 0
    <2>1. mail[j] \in Seq(Event) /\ DOMAIN mail[j] = {}
      BY DEF Init
    <2>2. ~Has(mail[j], kind)
      BY <2>1 DEF Has
    <2>3. QED
      BY <2>1, <2>2, TimesType
  <1>2. \A j \in Jobs : LatestPrice(mail[j], "PriceDropFound") = None
    BY <1>1 DEF LatestPrice
  <1>3. Promise!PromiseInit
    BY <1>1, <1>2 DEF Promise!PromiseInit
  <1>4. PICK hotel \in [Jobs -> Maybe(Hotels)], deadline \in [Jobs -> Maybe(Deadlines)] :
           rows = [k \in Jobs |-> NewRow("active", hotel[k], TRUE, deadline[k], 0)]
    BY DEF Init, FreshRows
  <1>5. \A j \in Jobs : Exact(rows[j], mail[j])
    BY <1>1, <1>4 DEF NewRow, Exact
  <1>6. \A w \in Workers, j \in Jobs : mem[w][j] = NoRow
    BY DEF Init, SessionInit, NoSession
  <1>7. QED
    BY <1>3, <1>5, <1>6 DEF RecordsAreExact

\* Sessions and the clock promise nothing: only mail does.
LEMMA NextKeepsPromise ==
    ASSUME NothingLost, AloneInv, RecordsAreExact, [Next]_schedVars
    PROVE  [Promise!PromiseNext]_(Promise!promiseVars)
  <1>1. TypeOK
    BY DEF AloneInv
  <1>2. CASE mail' = mail
    BY <1>2 DEF Promise!promiseVars
  <1>3. ASSUME NEW w \in Workers, NEW j \in Jobs, NEW row \in Row, Effect(w, j, row)
        PROVE  [Promise!PromiseNext]_(Promise!promiseVars)
    BY <1>3, EffectKeepsPromise
  <1>4. QED
    BY <1>1, <1>2, <1>3, StepCases
    DEF schedVars, storeVars, StartPass, SkipPaused, CommitPass, Crash, Tick

\* A single worker whose sends are never mis-acknowledged and that does not die
\* keeps the promise about email: drop alerts that each beat the last one by
\* the floor, at most one warning, one wrap-up, and silence after it.
THEOREM KeepsPromiseAlone ==
    ASSUME OneWorker, NothingLost PROVE Spec => KeepsPromise
  <1>1. AloneInv /\ RecordsAreExact /\ [Next]_schedVars => RecordsAreExact'
    BY NextExact
  <1>2. AloneInv /\ RecordsAreExact /\ [Next]_schedVars
           => [Promise!PromiseNext]_(Promise!promiseVars)
    BY NextKeepsPromise
  <1>3. QED
    BY <1>1, <1>2, InitPromise, AloneInvariant, PTL DEF Spec, KeepsPromise, Promise!PromiseSpec

=============================================================================

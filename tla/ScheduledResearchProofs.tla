---------------------- MODULE ScheduledResearchProofs ----------------------
(***************************************************************************)
(* Proofs about ScheduledResearch for any calendar, any histories the         *)
(* provider may tell, and any number of evaluations and changes.  A child that  *)
(* succeeded names what it stands on, and nobody who comes later touches that:  *)
(* the market only grows, an outcome that another evaluation rewrites is marked *)
(* so, and a portfolio's past states stay its past states.                     *)
(***************************************************************************)
EXTENDS ScheduledResearch, TLAPS, FiniteSetTheorems, WellFoundedInduction

-----------------------------------------------------------------------------
(* The greatest of finitely many numbers *)

LEMMA Greatest ==
  ASSUME NEW n \in Nat, NEW N \in SUBSET (0..n), N # {}
  PROVE  Max(N) \in N
  <1>. DEFINE M == {m \in Nat : \A j \in N : j <= m}
  <1>1. PICK m \in M : \A k \in M : ~(k < m)
    <2>1. IsWellFoundedOn(OpToRel(<, Nat), Nat)
      BY NatLessThanWellFounded
    <2>2. n \in M /\ M \in SUBSET Nat
      OBVIOUS
    <2>3. PICK m \in M : \A k \in M : <<k, m>> \notin OpToRel(<, Nat)
      BY <2>1, <2>2, WFMin
    <2>. QED
      BY <2>3 DEF OpToRel
  <1>2. ASSUME m \notin N
        PROVE  FALSE
    <2>1. PICK j \in N : TRUE
      OBVIOUS
    <2>2. \A k \in N : k <= m - 1
      BY <1>1, <1>2
    <2>3. m - 1 \in M
      BY <1>1, <2>1, <2>2
    <2>. QED
      BY <1>1, <2>3
  <1>3. \E x \in N : \A y \in N : x >= y
    BY <1>1, <1>2
  <1>. QED
    BY <1>3 DEF Max

-----------------------------------------------------------------------------
(* The inductive invariant *)

\* What a retrieval may have brought.
Stories == UNION {{Restrict(h, D) : D \in SUBSET DOMAIN h} : h \in Histories}
Payloads == [closes : Stories, day : Sessions]

\* The forecast is there from the first, or never.
MarketOK ==
  /\ fetched \in Seq(Payloads)
  /\ stored \subseteq 1..Len(fetched) /\ 1 \in stored
  /\ IF beside = "market" THEN prediction # None /\ prediction.source \in stored
     ELSE prediction = None

Grows ==
  /\ Len(fetched') \in Nat /\ Len(fetched) <= Len(fetched')
  /\ \A i \in 1..Len(fetched) : fetched'[i] = fetched[i]
  /\ stored \subseteq stored' /\ prediction' = prediction

Statuses == {"pending", "unresolved", "matured", "corporate_event"}
Evaluations == [time : Nat \ {0}, date : Sessions, chosen : BOOLEAN,
                status : Statuses \cup {None}, missed : SUBSET Nat]
Labels == {"idle", "evaluate", "select", "write", "record", "snapshot", "value", "count",
           "attest", "finish", "verify"}
Midway == {"select", "write", "record"}

\* Times are numbered as they are fixed; who is midway has one, and who has succeeded.
Numbered ==
  /\ times \in Seq(Nat) /\ \A i \in 1..Len(times) : times[i] \in 1..Len(fetched)
  /\ outcome.by \in 0..Len(times) /\ outcome.row.status \in Statuses
  /\ pc \in [Sessions -> Labels]
  /\ mine \in [Sessions -> Evaluations \cup {NotFixed}]
  /\ \A j \in Sessions : mine[j] # NotFixed => mine[j].time \in 1..Len(times)
  /\ \A j \in Sessions : pc[j] \in Midway => mine[j] # NotFixed
  /\ \A d \in Targets : mine[d] # NotFixed => mine[d].date = d
  /\ \A d \in Targets : d \in evaluated => mine[d] # NotFixed /\ pc[d] \notin Midway

\* What an evaluation had committed when it read.
Read(d) == 1..times[mine[d].time] \ mine[d].missed

\* It chose what is expected of it, and the outcome is what reading the same gives.
Judged(d) ==
  /\ mine[d].chosen <=> Expected(d)
  /\ 1 \in Read(d) /\ Read(d) \subseteq stored
  /\ mine[d].chosen =>
       /\ outcome.row = Told(Max(Read(d)), d)
       /\ outcome.row.status = mine[d].status
       /\ Terminal(outcome.row) => outcome.by = mine[d].time

\* While nobody else has rewritten the outcome: it is of an earlier evaluation until one's
\* own is written, and from then on it is judged as a verification does.
Undisturbed ==
  \A d \in Targets : d \notin overtaken /\ mine[d] # NotFixed =>
    /\ outcome.by <= mine[d].time
    /\ pc[d] \in {"select", "write"} => outcome.by < mine[d].time
    /\ pc[d] = "write" => (mine[d].chosen <=> Mature(d) /\ ~Terminal(outcome.row))
    /\ pc[d] = "record" \/ d \in evaluated => Judged(d)

EvaluationsOK == Numbered /\ Undisturbed

\* One state of the portfolio has the cash and the shares of a snapshot.
Held(snapshot) ==
  \E b \in Range(books) : b.cash = snapshot.cash /\ b.shares = snapshot.shares

Counting == {"count", "attest", "finish"}

\* What was recorded is of the target's session, and what was attested was held.
PortfoliosOK ==
  /\ books \in Seq([cash : Nat, shares : Nat]) /\ books # <<>>
  /\ DOMAIN seen = Targets /\ DOMAIN portfolios = Targets
  /\ \A d \in Targets :
       /\ pc[d] \in Counting /\ seen[d] # None => seen[d].session = d
       /\ pc[d] = "finish" => seen[d] # None /\ Held(seen[d])
       /\ PortfolioDone(d) => portfolios[d].session = d /\ Held(portfolios[d])

IInv == MarketOK /\ EvaluationsOK /\ PortfoliosOK

-----------------------------------------------------------------------------
(* The market *)

LEMMA ClosedIsSession ==
  ASSUME ClosedSessions # {}
  PROVE  Closed \in Sessions /\ ClosedSessions \subseteq Sessions
  <1>1. LastSession \in Nat
    BY HistoriesAssumption
  <1>2. ClosedSessions \in SUBSET (0..LastSession)
    BY DEF ClosedSessions, Sessions
  <1>. QED
    BY <1>1, <1>2, Greatest DEF Closed, Sessions

LEMMA MarketFacts ==
  ASSUME MarketOK
  PROVE  /\ fetched \in Seq(Payloads) /\ Len(fetched) \in Nat
         /\ stored \subseteq 1..Len(fetched) /\ 1 \in stored
         /\ prediction # None => prediction.source \in stored
  BY DEF MarketOK

LEMMA VintageShape ==
  ASSUME ClosedSessions # {}, NEW h \in Histories
  PROVE  Vintage(h) \in Payloads
  <1>1. Closed \in Sessions
    BY ClosedIsSession
  <1>2. PICK D \in SUBSET DOMAIN h : D = DOMAIN h \cap ClosedSessions
    OBVIOUS
  <1>3. Restrict(h, D) \in Stories
    BY DEF Stories
  <1>4. PICK closes \in Stories : closes = Restrict(h, D)
    BY <1>3
  <1>5. Vintage(h) = [closes |-> closes, day |-> Closed]
    BY <1>2, <1>4 DEF Vintage
  <1>. QED
    BY <1>1, <1>4, <1>5 DEF Payloads

LEMMA MarketStep ==
  ASSUME MarketOK, IF beside = "market" THEN Market ELSE Tick, UNCHANGED beside
  PROVE  MarketOK' /\ Grows
  <1>0. /\ fetched \in Seq(Payloads) /\ Len(fetched) \in Nat
        /\ stored \subseteq 1..Len(fetched) /\ 1 \in stored
    BY DEF MarketOK
  <1>1. CASE Tick
    BY <1>0, <1>1 DEF Tick, MarketOK, Grows
  <1>2. CASE Retrieve
    <2>1. PICK h \in Histories : fetched' = Append(fetched, Vintage(h))
      BY <1>2 DEF Retrieve
    <2>2. ClosedSessions # {} /\ UNCHANGED <<stored, prediction>>
      BY <1>2 DEF Retrieve
    <2>3. PICK v \in Payloads : v = Vintage(h)
      BY <2>2, VintageShape
    <2>4. /\ fetched' \in Seq(Payloads) /\ Len(fetched') = Len(fetched) + 1
          /\ \A i \in 1..Len(fetched) : fetched'[i] = fetched[i]
      BY <1>0, <2>1, <2>3
    <2>5. stored' \subseteq 1..Len(fetched')
      BY <1>0, <2>2, <2>4
    <2>. QED
      BY <1>0, <2>2, <2>4, <2>5 DEF MarketOK, Grows
  <1>3. CASE Commit
    <2>1. PICK i \in DOMAIN fetched \ stored : stored' = stored \cup {i}
      BY <1>3 DEF Commit
    <2>2. UNCHANGED <<fetched, prediction>>
      BY <1>3 DEF Commit
    <2>3. DOMAIN fetched = 1..Len(fetched)
      BY <1>0
    <2>4. stored' \subseteq 1..Len(fetched') /\ stored \subseteq stored'
      BY <1>0, <2>1, <2>2, <2>3
    <2>5. Grows
      BY <1>0, <2>2, <2>4 DEF Grows
    <2>6. IF beside = "market" THEN prediction # None /\ prediction.source \in stored
          ELSE prediction = None
      BY DEF MarketOK
    <2>7. MarketOK'
      BY <1>0, <2>2, <2>4, <2>6 DEF MarketOK
    <2>. QED
      BY <2>5, <2>7
  <1>4. CASE beside = "market" /\ Issue
    BY <1>4 DEF MarketOK, Issue
  <1>. QED
    BY <1>1, <1>2, <1>3, <1>4 DEF Market

LEMMA MarketKept ==
  ASSUME MarketOK, UNCHANGED marketVars
  PROVE  Grows /\ (UNCHANGED beside => MarketOK')
  BY DEF MarketOK, Grows, marketVars

\* The same histories resolve to the same row.
LEMMA ToldGrown ==
  ASSUME MarketOK, Grows, prediction # None, NEW a \in 1..Len(fetched), NEW t
  PROVE  Told(a, t)' = Told(a, t)
  <1>1. \A i \in 1..Len(fetched) : Closes(i)' = Closes(i)
    BY DEF Grows, Closes
  <1>2. PICK i \in 1..Len(fetched) : i = prediction.source
    BY DEF MarketOK
  <1>3. Target' = Target /\ PriceAtPrediction' = PriceAtPrediction
    <2>1. Target' = Target
      BY DEF Grows, Target
    <2>2. Closes(i)' = Closes(i)
      BY <1>1
    <2>. QED
      BY <1>2, <2>1, <2>2 DEF PriceAtPrediction, Grows
  <1>4. Closes(a)' = Closes(a)
    BY <1>1
  <1>5. Later(a, t)' = Later(a, t)
    BY <1>3, <1>4 DEF Later
  <1>6. Reached(a, t)' = Reached(a, t) /\ Nth(a, t)' = Nth(a, t)
    BY <1>5 DEF Reached, Nth
  <1>7. Baseline(a)' = Baseline(a)
    BY <1>3, <1>4 DEF Baseline
  <1>8. Resolve(a, t)' = Resolve(a, t)
    BY <1>3, <1>4, <1>6, <1>7 DEF Resolve
  <1>. QED
    BY <1>5, <1>6, <1>8 DEF Told

\* A row as it is persisted has a status.
LEMMA ToldStatus ==
  ASSUME NEW a, NEW t
  PROVE  Told(a, t).status \in Statuses
  <1>1. CASE ~Reached(a, t)
    <2>1. Told(a, t).status = "unresolved"
      BY <1>1 DEF Told
    <2>. QED
      BY <2>1 DEF Statuses
  <1>2. CASE Reached(a, t)
    <2>1. Resolve(a, t).status \in {"corporate_event", "matured"}
      BY <1>2 DEF Resolve
    <2>2. Told(a, t) = Resolve(a, t)
      BY <1>2 DEF Told
    <2>3. Told(a, t).status \in {"corporate_event", "matured"}
      BY <2>1, <2>2
    <2>. QED
      BY <2>3 DEF Statuses
  <1>. QED
    BY <1>1, <1>2

-----------------------------------------------------------------------------
(* Evaluations *)

LEMMA TimeFacts ==
  ASSUME MarketOK, Numbered, NEW j \in Sessions, mine[j] # NotFixed
  PROVE  /\ mine[j] \in Evaluations /\ mine[j].time \in 1..Len(times)
         /\ Len(times) \in Nat /\ Len(fetched) \in Nat
         /\ times[mine[j].time] \in 1..Len(fetched)
  BY DEF Numbered, MarketOK

\* What was read for a judgement, as a number that stays.
LEMMA ReadFacts ==
  ASSUME MarketOK, Numbered, NEW d \in Targets, mine[d] # NotFixed, Judged(d)
  PROVE  Max(Read(d)) \in 1..Len(fetched)
  <1>0. 1 \in Read(d) /\ Read(d) \subseteq stored
    BY DEF Judged
  <1>1. /\ Read(d) \subseteq 1..Len(fetched) /\ Read(d) # {} /\ Len(fetched) \in Nat
    BY <1>0, MarketFacts
  <1>2. Read(d) \in SUBSET (0..Len(fetched))
    BY <1>1
  <1>. QED
    BY <1>1, <1>2, Greatest

LEMMA JudgedKept ==
  ASSUME MarketOK, Grows, Numbered, NEW d \in Targets, mine[d] # NotFixed, Judged(d),
         mine'[d] = mine[d], outcome' = outcome, times'[mine[d].time] = times[mine[d].time]
  PROVE  Judged(d)'
  <1>1. Read(d)' = Read(d)
    BY DEF Read
  <1>2. Expected(d)' <=> Expected(d)
    BY DEF Expected, Mature, TerminalBefore, Grows, Target
  <1>3. /\ mine[d].chosen <=> Expected(d)
        /\ 1 \in Read(d) /\ Read(d) \subseteq stored
        /\ mine[d].chosen =>
             /\ outcome.row = Told(Max(Read(d)), d)
             /\ outcome.row.status = mine[d].status
             /\ Terminal(outcome.row) => outcome.by = mine[d].time
    BY DEF Judged
  <1>4. PICK m \in 1..Len(fetched) : m = Max(Read(d))
    BY ReadFacts
  <1>5. ASSUME mine[d].chosen
        PROVE  Told(m, d)' = Told(m, d)
    <2>1. prediction # None
      BY <1>3, <1>5 DEF Expected, Mature
    <2>. QED
      BY <2>1, ToldGrown
  <1>6. Max(Read(d))' = m
    BY <1>1, <1>4
  <1>7. mine'[d].chosen => outcome'.row = Told(Max(Read(d)), d)'
    BY <1>3, <1>4, <1>5, <1>6
  <1>8. stored \subseteq stored'
    BY DEF Grows
  <1>. QED
    BY <1>1, <1>2, <1>3, <1>7, <1>8 DEF Judged

\* Nobody fixes a time or writes: some give up what they had not recorded.
LEMMA EvaluationFrame ==
  ASSUME MarketOK, Grows, EvaluationsOK, UNCHANGED <<times, outcome, evaluated>>,
         pc' \in [Sessions -> Labels], DOMAIN mine' = Sessions,
         \A j \in Sessions :
           \/ mine'[j] = mine[j]
           \/ mine'[j] = NotFixed /\ j \notin evaluated /\ pc'[j] \notin Midway,
         \A j \in Sessions : pc'[j] \in Midway => pc'[j] = pc[j] /\ mine'[j] = mine[j],
         \A d \in overtaken : d \in overtaken' \/ mine'[d] = NotFixed,
         mine' = [j \in Sessions |-> mine'[j]]
  PROVE  EvaluationsOK'
  <1>1. Numbered /\ Undisturbed
    BY DEF EvaluationsOK
  <1>2. Numbered'
    <2>1. \A j \in Sessions : mine'[j] \in Evaluations \cup {NotFixed}
      BY <1>1 DEF Numbered
    <2>2. mine' \in [Sessions -> Evaluations \cup {NotFixed}]
      BY <2>1
    <2>3. Len(fetched) \in Nat /\ Len(fetched') \in Nat /\ Len(fetched) <= Len(fetched')
      BY DEF MarketOK, Grows
    <2>4. \A i \in 1..Len(times) : times[i] \in 1..Len(fetched')
      BY <1>1, <2>3 DEF Numbered
    <2>5. \A j \in Sessions : pc'[j] \in Midway => mine'[j] # NotFixed
      BY <1>1 DEF Numbered
    <2>6. \A d \in Targets :
            d \in evaluated => mine'[d] # NotFixed /\ pc'[d] \notin Midway
      BY <1>1 DEF Numbered, Targets
    <2>. QED
      BY <1>1, <2>2, <2>4, <2>5, <2>6 DEF Numbered, Targets
  <1>3. ASSUME NEW d \in Targets, d \notin overtaken', mine'[d] # NotFixed
        PROVE  /\ outcome.by <= mine'[d].time
               /\ pc'[d] \in {"select", "write"} => outcome.by < mine'[d].time
               /\ pc'[d] = "write" =>
                    (mine'[d].chosen <=> Mature(d)' /\ ~Terminal(outcome.row))
               /\ pc'[d] = "record" \/ d \in evaluated => Judged(d)'
    <2>1. d \in Sessions /\ mine'[d] = mine[d] /\ d \notin overtaken
      BY <1>3 DEF Targets
    <2>2. /\ outcome.by <= mine[d].time
          /\ pc[d] \in {"select", "write"} => outcome.by < mine[d].time
          /\ pc[d] = "write" => (mine[d].chosen <=> Mature(d) /\ ~Terminal(outcome.row))
          /\ pc[d] = "record" \/ d \in evaluated => Judged(d)
      BY <1>1, <1>3, <2>1 DEF Undisturbed
    <2>3. pc'[d] \in Midway => pc'[d] = pc[d]
      BY <2>1
    <2>4. Mature(d)' <=> Mature(d)
      BY DEF Mature, Grows, Target
    <2>5. Judged(d) => Judged(d)'
      BY <1>1, <1>3, <2>1, JudgedKept
    <2>. QED
      BY <2>1, <2>2, <2>3, <2>4, <2>5 DEF Midway
  <1>4. Undisturbed'
    BY <1>3 DEF Undisturbed
  <1>. QED
    BY <1>2, <1>4 DEF EvaluationsOK

\* Places are kept, but for one.
LEMMA PcMoves ==
  ASSUME Numbered, NEW j \in Sessions, NEW label \in Labels, Goto(j, label)
  PROVE  /\ pc' \in [Sessions -> Labels] /\ pc'[j] = label
         /\ \A k \in Sessions : k # j => pc'[k] = pc[k]
  BY DEF Numbered, Goto

\* A step that leaves evaluations alone.
LEMMA EvaluationsKept ==
  ASSUME MarketOK, Grows, EvaluationsOK, UNCHANGED evaluationVars,
         \/ pc' = pc
         \/ \E j \in Sessions, label \in Labels \ Midway : Goto(j, label)
  PROVE  EvaluationsOK'
  <1>1. UNCHANGED <<times, mine, evaluated, overtaken, outcome>> /\ Numbered
    BY DEF evaluationVars, EvaluationsOK
  <1>2. pc' \in [Sessions -> Labels] /\ \A j \in Sessions : pc'[j] \in Midway => pc'[j] = pc[j]
    BY <1>1, PcMoves DEF Numbered
  <1>3. DOMAIN mine' = Sessions /\ mine' = [j \in Sessions |-> mine'[j]]
    BY <1>1 DEF Numbered
  <1>. QED
    BY <1>1, <1>2, <1>3, EvaluationFrame

\* A child that did not finish is forgotten.
LEMMA EvaluationForgotten ==
  ASSUME MarketOK, Grows, EvaluationsOK, UNCHANGED <<times, outcome, evaluated>>,
         NEW d \in Targets, NEW label \in Labels \ Midway, Goto(d, label), Forget(d)
  PROVE  EvaluationsOK'
  <1>1. Numbered /\ d \in Sessions
    BY DEF EvaluationsOK, Targets
  <1>2. /\ pc' \in [Sessions -> Labels] /\ pc'[d] = label
        /\ \A k \in Sessions : k # d => pc'[k] = pc[k]
    BY <1>1, PcMoves
  <1>3. mine \in [Sessions -> Evaluations \cup {NotFixed}]
    BY <1>1 DEF Numbered
  <1>4. CASE d \in evaluated
    <2>1. mine' = mine /\ overtaken' = overtaken
      BY <1>4 DEF Forget
    <2>2. DOMAIN mine' = Sessions /\ mine' = [j \in Sessions |-> mine'[j]]
      BY <1>3, <2>1
    <2>. QED
      BY <1>2, <2>1, <2>2, EvaluationFrame
  <1>5. CASE d \notin evaluated
    <2>1. mine' = [mine EXCEPT ![d] = NotFixed] /\ overtaken' = overtaken \ {d}
      BY <1>5 DEF Forget
    <2>2. /\ DOMAIN mine' = Sessions /\ mine' = [j \in Sessions |-> mine'[j]]
          /\ mine'[d] = NotFixed /\ \A k \in Sessions : k # d => mine'[k] = mine[k]
      BY <1>1, <1>3, <2>1
    <2>3. \A j \in Sessions :
            \/ mine'[j] = mine[j]
            \/ mine'[j] = NotFixed /\ j \notin evaluated /\ pc'[j] \notin Midway
      BY <1>2, <1>5, <2>2
    <2>4. \A j \in Sessions : pc'[j] \in Midway => pc'[j] = pc[j] /\ mine'[j] = mine[j]
      BY <1>2, <2>2
    <2>5. \A k \in overtaken : k \in overtaken' \/ mine'[k] = NotFixed
      BY <2>1, <2>2
    <2>. QED
      BY <1>2, <2>2, <2>3, <2>4, <2>5, EvaluationFrame
  <1>. QED
    BY <1>4, <1>5

LEMMA Fixed ==
  ASSUME MarketOK, UNCHANGED marketVars, EvaluationsOK, UNCHANGED <<evaluated, outcome>>,
         NEW j \in Sessions, NEW date \in Sessions, NEW chosen \in BOOLEAN,
         NEW label \in {"select", "write"}, FixTime(j, date, chosen), Goto(j, label),
         j \in Targets => date = j /\ label = "select" /\ j \notin evaluated
  PROVE  EvaluationsOK'
  <1>. DEFINE n == Len(times) + 1
              e == [time |-> n, date |-> date, chosen |-> chosen, status |-> None, missed |-> {}]
  <1>1. Numbered /\ Undisturbed /\ Len(times) \in Nat /\ times \in Seq(Nat) /\ Grows
    BY MarketKept DEF EvaluationsOK, Numbered
  <1>2. /\ pc' \in [Sessions -> Labels] /\ pc'[j] = label
        /\ \A k \in Sessions : k # j => pc'[k] = pc[k]
    <2>1. label \in Labels
      BY DEF Labels
    <2>. QED
      BY <1>1, <2>1, PcMoves
  <1>3. times' = Append(times, Len(fetched)) /\ mine' = [mine EXCEPT ![j] = e]
        /\ overtaken' = overtaken \ {j}
    BY DEF FixTime, Retrieved
  <1>4. Len(fetched) \in 1..Len(fetched) /\ Len(fetched) \in Nat /\ fetched' = fetched
    <2>1. 1 \in 1..Len(fetched) /\ Len(fetched) \in Nat
      BY MarketFacts
    <2>. QED
      BY <2>1 DEF marketVars
  <1>5. /\ times' \in Seq(Nat) /\ Len(times') = n /\ times'[n] = Len(fetched)
        /\ \A i \in 1..Len(times) : times'[i] = times[i]
    BY <1>1, <1>3, <1>4
  <1>6. e \in Evaluations /\ e.time = n /\ e.date = date /\ e # NotFixed
    <2>1. e.time = n /\ e.time # 0 /\ NotFixed.time = 0
      BY <1>1 DEF NotFixed
    <2>. QED
      BY <1>1, <2>1 DEF Evaluations
  <1>. HIDE DEF e
  <1>7. /\ mine \in [Sessions -> Evaluations \cup {NotFixed}]
        /\ mine' \in [Sessions -> Evaluations \cup {NotFixed}]
        /\ mine'[j] = e /\ \A k \in Sessions : k # j => mine'[k] = mine[k]
    <2>1. mine \in [Sessions -> Evaluations \cup {NotFixed}]
      BY <1>1 DEF Numbered
    <2>. QED
      BY <1>3, <1>6, <2>1
  <1>8. Numbered'
    <2>1. \A i \in 1..Len(times') : times'[i] \in 1..Len(fetched')
      <3>1. \A i \in 1..Len(times') : i = n \/ i \in 1..Len(times)
        BY <1>1, <1>5
      <3>. QED
        BY <1>1, <1>4, <1>5, <3>1 DEF Numbered
    <2>2. outcome.by \in 0..Len(times') /\ outcome.row.status \in Statuses
      BY <1>1, <1>5 DEF Numbered
    <2>3. \A k \in Sessions : mine'[k] # NotFixed => mine'[k].time \in 1..Len(times')
      BY <1>1, <1>5, <1>6, <1>7 DEF Numbered
    <2>4. \A k \in Sessions : pc'[k] \in Midway => mine'[k] # NotFixed
      BY <1>1, <1>2, <1>6, <1>7 DEF Numbered
    <2>5. \A d \in Targets : mine'[d] # NotFixed => mine'[d].date = d
      BY <1>1, <1>6, <1>7 DEF Numbered, Targets
    <2>6. \A d \in Targets : d \in evaluated => mine'[d] # NotFixed /\ pc'[d] \notin Midway
      BY <1>1, <1>2, <1>7 DEF Numbered, Targets
    <2>. QED
      BY <1>2, <1>5, <1>7, <2>1, <2>2, <2>3, <2>4, <2>5, <2>6 DEF Numbered
  <1>9. ASSUME NEW d \in Targets, d \notin overtaken', mine'[d] # NotFixed
        PROVE  /\ outcome.by <= mine'[d].time
               /\ pc'[d] \in {"select", "write"} => outcome.by < mine'[d].time
               /\ pc'[d] = "write" =>
                    (mine'[d].chosen <=> Mature(d)' /\ ~Terminal(outcome.row))
               /\ pc'[d] = "record" \/ d \in evaluated => Judged(d)'
    <2>0. d \in Sessions
      BY DEF Targets
    <2>1. CASE d = j
      <3>1. outcome.by \in 0..Len(times)
        BY <1>1 DEF Numbered
      <3>2. outcome.by < n
        BY <1>1, <3>1
      <3>3. pc'[d] = "select" /\ d \notin evaluated /\ mine'[d].time = n
        BY <1>2, <1>6, <1>7, <2>1
      <3>. QED
        BY <1>1, <3>1, <3>2, <3>3
    <2>2. CASE d # j
      <3>1. mine'[d] = mine[d] /\ pc'[d] = pc[d] /\ d \notin overtaken
        BY <1>2, <1>3, <1>7, <1>9, <2>0, <2>2
      <3>2. /\ outcome.by <= mine[d].time
            /\ pc[d] \in {"select", "write"} => outcome.by < mine[d].time
            /\ pc[d] = "write" => (mine[d].chosen <=> Mature(d) /\ ~Terminal(outcome.row))
            /\ pc[d] = "record" \/ d \in evaluated => Judged(d)
        BY <1>1, <1>9, <3>1 DEF Undisturbed
      <3>3. times'[mine[d].time] = times[mine[d].time]
        BY <1>1, <1>5, <1>9, <2>0, <3>1 DEF Numbered
      <3>4. Judged(d) => Judged(d)'
        BY <1>1, <1>9, <3>1, <3>3, JudgedKept
      <3>5. Mature(d)' <=> Mature(d)
        BY DEF Mature, Target, marketVars
      <3>. QED
        BY <3>1, <3>2, <3>4, <3>5
    <2>. QED
      BY <2>1, <2>2
  <1>. QED
    BY <1>8, <1>9 DEF EvaluationsOK, Undisturbed

LEMMA BeginEvaluationStep ==
  ASSUME MarketOK, EvaluationsOK, NEW d \in Targets, BeginEvaluation(d)
  PROVE  EvaluationsOK'
  <1>1. d \in Sessions /\ d \notin evaluated /\ FALSE \in BOOLEAN
    BY DEF Targets, BeginEvaluation
  <1>2. /\ UNCHANGED marketVars /\ UNCHANGED <<evaluated, outcome>>
        /\ FixTime(d, d, FALSE) /\ Goto(d, "select")
    BY DEF BeginEvaluation
  <1>. QED
    BY <1>1, <1>2, Fixed

LEMMA BeginCommandStep ==
  ASSUME MarketOK, EvaluationsOK, BeginCommand
  PROVE  EvaluationsOK'
  <1>1. LastSession \in Nat
    BY HistoriesAssumption
  <1>2. Command \in Sessions /\ Command \notin Targets /\ Closed \in Sessions
    BY <1>1, ClosedIsSession DEF BeginCommand, Command, Sessions, Targets
  <1>3. /\ UNCHANGED marketVars /\ UNCHANGED <<evaluated, outcome>>
        /\ FixTime(Command, Closed, TRUE) /\ Goto(Command, "write")
    BY DEF BeginCommand
  <1>4. PICK j \in Sessions, date \in Sessions : j = Command /\ date = Closed
    BY <1>2
  <1>. QED
    BY <1>2, <1>3, <1>4, Fixed

\* What is chosen is what is mature and not decided.
LEMMA SelectStep ==
  ASSUME MarketOK, EvaluationsOK, NEW d \in Targets, Select(d)
  PROVE  EvaluationsOK'
  <1>1. /\ Numbered /\ Undisturbed /\ d \in Sessions /\ Grows
        /\ UNCHANGED <<times, evaluated, overtaken, outcome>> /\ UNCHANGED marketVars
        /\ pc[d] = "select" /\ Goto(d, "write")
    BY MarketKept DEF EvaluationsOK, Targets, Select, At
  <1>2. PICK m \in Evaluations : m = mine[d] /\ m.time \in 1..Len(times)
    BY <1>1, TimeFacts DEF Numbered, Midway
  <1>3. PICK c \in BOOLEAN : c = (Mature(d) /\ ~Terminal(outcome.row))
    BY DEF Mature
  <1>. DEFINE e == [m EXCEPT !.chosen = c]
  <1>4. mine' = [mine EXCEPT ![d] = e]
    BY <1>2, <1>3 DEF Select
  <1>5. e \in Evaluations /\ e.time = m.time /\ e.date = m.date /\ e.chosen = c
    BY <1>2 DEF Evaluations
  <1>6. e # NotFixed
    <2>1. m.time # 0 /\ NotFixed.time = 0
      BY <1>2 DEF Evaluations, NotFixed
    <2>. QED
      BY <1>5, <2>1
  <1>. HIDE DEF e
  <1>7. /\ mine' \in [Sessions -> Evaluations \cup {NotFixed}]
        /\ mine'[d] = e /\ \A k \in Sessions : k # d => mine'[k] = mine[k]
    BY <1>1, <1>4, <1>5 DEF Numbered
  <1>8. /\ pc' \in [Sessions -> Labels] /\ pc'[d] = "write"
        /\ \A k \in Sessions : k # d => pc'[k] = pc[k]
    BY <1>1, PcMoves DEF Labels
  <1>9. Numbered'
    <2>1. \A k \in Sessions : mine'[k] # NotFixed => mine'[k].time \in 1..Len(times')
      BY <1>1, <1>2, <1>5, <1>7 DEF Numbered
    <2>2. \A k \in Sessions : pc'[k] \in Midway => mine'[k] # NotFixed
      BY <1>1, <1>6, <1>7, <1>8 DEF Numbered
    <2>3. \A k \in Targets : mine'[k] # NotFixed => mine'[k].date = k
      BY <1>1, <1>2, <1>5, <1>6, <1>7 DEF Numbered, Targets, Midway
    <2>4. \A k \in Targets : k \in evaluated' => mine'[k] # NotFixed /\ pc'[k] \notin Midway
      BY <1>1, <1>6, <1>7, <1>8 DEF Numbered, Targets, Midway
    <2>. QED
      BY <1>1, <1>7, <1>8, <2>1, <2>2, <2>3, <2>4 DEF Numbered, marketVars
  <1>10. ASSUME NEW k \in Targets, k \notin overtaken, mine'[k] # NotFixed
         PROVE  /\ outcome.by <= mine'[k].time
                /\ pc'[k] \in {"select", "write"} => outcome.by < mine'[k].time
                /\ pc'[k] = "write" =>
                     (mine'[k].chosen <=> Mature(k)' /\ ~Terminal(outcome.row))
                /\ pc'[k] = "record" \/ k \in evaluated => Judged(k)'
    <2>1. k \in Sessions /\ (Mature(k)' <=> Mature(k))
      BY <1>1 DEF Targets, Mature, Target, marketVars
    <2>2. mine[k] # NotFixed
      BY <1>1, <1>7, <1>10, <2>1 DEF Numbered, Midway
    <2>3. /\ outcome.by <= mine[k].time
          /\ pc[k] \in {"select", "write"} => outcome.by < mine[k].time
          /\ pc[k] = "write" => (mine[k].chosen <=> Mature(k) /\ ~Terminal(outcome.row))
          /\ pc[k] = "record" \/ k \in evaluated => Judged(k)
      BY <1>1, <1>10, <2>2 DEF Undisturbed
    <2>4. CASE k = d
      <3>1. d \notin evaluated
        BY <1>1 DEF Numbered, Midway
      <3>2. mine'[k].time = mine[k].time /\ mine'[k].chosen = c /\ pc'[k] = "write"
        BY <1>2, <1>5, <1>7, <1>8, <2>4
      <3>3. c <=> Mature(k) /\ ~Terminal(outcome.row)
        BY <1>3, <2>4
      <3>. QED
        BY <1>1, <2>1, <2>3, <2>4, <3>1, <3>2, <3>3
    <2>5. CASE k # d
      <3>1. mine'[k] = mine[k] /\ pc'[k] = pc[k]
        BY <1>7, <1>8, <2>1, <2>5
      <3>2. Judged(k) => Judged(k)'
        BY <1>1, <2>2, <3>1, JudgedKept
      <3>. QED
        BY <2>1, <2>3, <3>1, <3>2
    <2>. QED
      BY <2>4, <2>5
  <1>11. Undisturbed'
    BY <1>1, <1>10 DEF Undisturbed
  <1>. QED
    BY <1>9, <1>11 DEF EvaluationsOK

LEMMA FinishEvaluationStep ==
  ASSUME MarketOK, EvaluationsOK, NEW d \in Targets, FinishEvaluation(d)
  PROVE  EvaluationsOK'
  <1>1. /\ Numbered /\ Undisturbed /\ d \in Sessions /\ Grows
        /\ UNCHANGED <<times, mine, overtaken, outcome>> /\ UNCHANGED marketVars
        /\ pc[d] = "record" /\ Goto(d, "snapshot") /\ evaluated' = evaluated \cup {d}
    BY MarketKept DEF EvaluationsOK, Targets, FinishEvaluation, At
  <1>2. /\ pc' \in [Sessions -> Labels] /\ pc'[d] = "snapshot"
        /\ \A k \in Sessions : k # d => pc'[k] = pc[k]
    BY <1>1, PcMoves DEF Labels
  <1>3. Numbered'
    <2>1. \A k \in Sessions : pc'[k] \in Midway => mine'[k] # NotFixed
      BY <1>1, <1>2 DEF Numbered, Midway
    <2>2. \A k \in Targets : k \in evaluated' => mine'[k] # NotFixed /\ pc'[k] \notin Midway
      BY <1>1, <1>2 DEF Numbered, Targets, Midway
    <2>. QED
      BY <1>1, <1>2, <2>1, <2>2 DEF Numbered, marketVars
  <1>4. ASSUME NEW k \in Targets, k \notin overtaken, mine[k] # NotFixed
        PROVE  /\ outcome.by <= mine[k].time
               /\ pc'[k] \in {"select", "write"} => outcome.by < mine[k].time
               /\ pc'[k] = "write" =>
                    (mine[k].chosen <=> Mature(k)' /\ ~Terminal(outcome.row))
               /\ pc'[k] = "record" \/ k \in evaluated' => Judged(k)'
    <2>1. k \in Sessions /\ (Mature(k)' <=> Mature(k))
      BY <1>1 DEF Targets, Mature, Target, marketVars
    <2>2. /\ outcome.by <= mine[k].time
          /\ pc[k] \in {"select", "write"} => outcome.by < mine[k].time
          /\ pc[k] = "write" => (mine[k].chosen <=> Mature(k) /\ ~Terminal(outcome.row))
          /\ pc[k] = "record" \/ k \in evaluated => Judged(k)
      BY <1>1, <1>4 DEF Undisturbed
    <2>3. Judged(k) => Judged(k)'
      BY <1>1, <1>4, JudgedKept
    <2>. QED
      BY <1>1, <1>2, <2>1, <2>2, <2>3
  <1>5. Undisturbed'
    BY <1>1, <1>4 DEF Undisturbed
  <1>. QED
    BY <1>3, <1>5 DEF EvaluationsOK

\* What a write reads is what had committed of the retrievals of its time.
LEMMA WriteReads ==
  ASSUME MarketOK, Numbered, NEW r \in 1..Len(fetched)
  PROVE  /\ 1..r \ (1..r \ stored) = Visible(r)
         /\ 1 \in Visible(r) /\ Visible(r) \subseteq stored
         /\ Max(Visible(r)) \in 1..Len(fetched)
  <1>1. stored \subseteq 1..Len(fetched) /\ 1 \in stored /\ Len(fetched) \in Nat
    BY MarketFacts
  <1>2. \A i \in stored : i \in Nat /\ i >= 1
    BY <1>1
  <1>3. \A i : i \in (1..r \ (1..r \ stored)) <=> i \in Visible(r)
    <2>0. \A i : i \in Visible(r) <=> i \in stored /\ i <= r
      BY DEF Visible
    <2>1. \A i : i \in Visible(r) <=> i \in stored /\ i \in 1..r
      <3>1. r \in Nat
        BY <1>1
      <3>2. \A i \in stored : i <= r <=> i \in 1..r
        BY <1>2, <3>1
      <3>. QED
        BY <2>0, <3>2
    <2>2. \A i : i \in (1..r \ (1..r \ stored)) <=> i \in stored /\ i \in 1..r
      OBVIOUS
    <2>. QED
      BY ONLY <2>1, <2>2
  <1>4. 1..r \ (1..r \ stored) = Visible(r)
    BY ONLY <1>3
  <1>5. 1 \in Visible(r) /\ Visible(r) \subseteq stored
    BY <1>1 DEF Visible
  <1>6. Visible(r) \in SUBSET (0..Len(fetched)) /\ Visible(r) \subseteq 1..Len(fetched)
    <2>1. Visible(r) \subseteq 1..Len(fetched)
      BY <1>1, <1>5
    <2>. QED
      BY <1>1, <2>1
  <1>7. Max(Visible(r)) \in Visible(r)
    BY <1>1, <1>5, <1>6, Greatest
  <1>. QED
    BY <1>4, <1>5, <1>6, <1>7

\* A write of an evaluation that nobody has disturbed is judged at once.
LEMMA WrittenIsJudged ==
  ASSUME MarketOK, UNCHANGED marketVars, EvaluationsOK, NEW d \in Targets, Write(d),
         d \notin overtaken
  PROVE  Judged(d)' /\ outcome'.by <= mine'[d].time
  <1>1. Numbered /\ Undisturbed /\ d \in Sessions /\ Grows /\ pc[d] = "write" /\ d # Command
    BY MarketKept DEF EvaluationsOK, Targets, Write, At, Command
  <1>2. mine[d] # NotFixed
    BY <1>1 DEF Numbered, Midway
  <1>3. PICK m \in Evaluations : m = mine[d] /\ m.time \in 1..Len(times) /\ m.date = d
    BY <1>1, <1>2, TimeFacts DEF Numbered
  <1>4. PICK r \in 1..Len(fetched) : r = times[m.time]
    BY <1>1, <1>2, <1>3, TimeFacts
  <1>5. PICK a \in 1..Len(fetched) : a = Max(Visible(r))
    BY <1>1, WriteReads
  <1>6. ToldAt(mine[d].time, mine[d].date) = Told(a, d)
    BY <1>3, <1>4, <1>5 DEF ToldAt, AsOf
  <1>7. /\ outcome.by <= m.time /\ outcome.by < m.time
        /\ m.chosen <=> Mature(d) /\ ~Terminal(outcome.row)
    BY <1>1, <1>2, <1>3 DEF Undisturbed
  <1>8. IF m.chosen /\ ~Terminal(outcome.row) /\ outcome.row # Told(a, d)
        THEN outcome' = [row |-> Told(a, d), by |-> m.time]
        ELSE outcome' = outcome
    BY <1>3, <1>6 DEF Write, Rewritten
  <1>. DEFINE e == mine'[d]
  <1>9. /\ e.time = m.time /\ e.chosen = m.chosen
        /\ e.missed = 1..r \ stored /\ (m.chosen => e.status = outcome'.row.status)
    <2>1. mine' = [mine EXCEPT ![d].status = IF mine[d].chosen THEN outcome'.row.status ELSE None,
                               ![d].missed = 1..times[mine[d].time] \ stored]
      BY <1>1 DEF Write
    <2>2. mine \in [Sessions -> Evaluations \cup {NotFixed}]
      BY <1>1 DEF Numbered
    <2>3. e = [m EXCEPT !.status = IF m.chosen THEN outcome'.row.status ELSE None,
                        !.missed = 1..r \ stored]
      BY <1>1, <1>3, <1>4, <2>1, <2>2
    <2>. HIDE DEF e
    <2>. QED
      BY <1>3, <2>3 DEF Evaluations
  <1>10. times' = times
    BY DEF Write
  <1>11. Read(d)' = Visible(r) /\ 1 \in Visible(r) /\ Visible(r) \subseteq stored'
    <2>1. Read(d)' = 1..r \ (1..r \ stored)
      BY <1>4, <1>9, <1>10 DEF Read
    <2>. QED
      BY <1>1, <2>1, WriteReads DEF marketVars
  <1>12. Max(Read(d))' = a
    BY <1>5, <1>11
  <1>13. Mature(d)' <=> Mature(d)
    BY DEF Mature, Target, marketVars
  <1>14. ASSUME m.chosen
         PROVE  /\ outcome'.row = Told(a, d)
                /\ Terminal(outcome'.row) => outcome'.by = m.time
    BY <1>7, <1>8, <1>14
  <1>15. m.chosen => Told(a, d)' = Told(a, d)
    <2>1. m.chosen => prediction # None
      BY <1>7 DEF Mature
    <2>. QED
      BY <1>1, <2>1, ToldGrown
  <1>16. e.chosen <=> Expected(d)'
    <2>1. m.time \in Nat /\ outcome.by \in Nat
      BY <1>1, <1>3 DEF Numbered, Evaluations
    <2>2. CASE m.chosen
      <3>1. ~TerminalBefore(mine[d].time)'
        BY <1>9, <1>14, <2>1, <2>2 DEF TerminalBefore, Terminal
      <3>. QED
        BY <1>7, <1>9, <1>13, <2>2, <3>1 DEF Expected
    <2>3. CASE ~m.chosen
      <3>1. outcome' = outcome
        BY <1>8, <2>3
      <3>2. TerminalBefore(mine[d].time)' <=> Terminal(outcome.row)
        BY <1>7, <1>9, <3>1 DEF TerminalBefore, Terminal
      <3>. QED
        BY <1>7, <1>9, <1>13, <2>3, <3>2 DEF Expected
    <2>. QED
      BY <2>2, <2>3
  <1>17. Judged(d)'
    <2>1. e.chosen => /\ outcome'.row = Told(Max(Read(d)), d)'
                      /\ outcome'.row.status = e.status
                      /\ Terminal(outcome'.row) => outcome'.by = e.time
      BY <1>9, <1>12, <1>14, <1>15
    <2>. QED
      BY <1>11, <1>16, <2>1 DEF Judged, Terminal
  <1>18. outcome'.by <= e.time
    <2>1. outcome'.by = m.time \/ outcome'.by = outcome.by
      BY <1>8
    <2>2. m.time \in Nat
      BY <1>3 DEF Evaluations
    <2>. QED
      BY <1>7, <1>9, <2>1, <2>2
  <1>. QED
    BY <1>17, <1>18

LEMMA WriteStep ==
  ASSUME MarketOK, EvaluationsOK, NEW j \in Sessions, Write(j)
  PROVE  EvaluationsOK'
  <1>1. /\ Numbered /\ Undisturbed /\ Grows /\ UNCHANGED marketVars
        /\ UNCHANGED <<times, evaluated>> /\ pc[j] = "write"
    BY MarketKept DEF EvaluationsOK, Write, At
  <1>2. mine[j] # NotFixed
    BY <1>1 DEF Numbered, Midway
  <1>3. PICK m \in Evaluations : m = mine[j] /\ m.time \in 1..Len(times)
    BY <1>1, <1>2, TimeFacts
  <1>4. PICK label \in Labels : label = IF j = Command THEN "idle" ELSE "record"
    BY DEF Labels
  <1>5. /\ pc' \in [Sessions -> Labels] /\ pc'[j] = label
        /\ \A k \in Sessions : k # j => pc'[k] = pc[k]
    <2>1. Goto(j, label)
      BY <1>4 DEF Write
    <2>. QED
      BY <1>1, <2>1, PcMoves
  <1>6. IF Rewritten(j)
        THEN /\ outcome' = [row |-> ToldAt(m.time, m.date), by |-> m.time]
             /\ overtaken' = overtaken \cup {d \in Targets \ {j} : mine[d] # NotFixed}
        ELSE UNCHANGED <<outcome, overtaken>>
    BY <1>3 DEF Write
  <1>7. outcome'.by \in 0..Len(times) /\ outcome'.row.status \in Statuses
    <2>1. CASE Rewritten(j)
      <3>1. outcome'.row.status \in Statuses
        BY <1>6, <2>1, ToldStatus DEF ToldAt
      <3>2. outcome'.by = m.time
        BY <1>6, <2>1
      <3>. QED
        BY <1>3, <3>1, <3>2
    <2>2. CASE ~Rewritten(j)
      BY <1>1, <1>6, <2>2 DEF Numbered
    <2>. QED
      BY <2>1, <2>2
  <1>8. PICK status \in Statuses \cup {None} :
          status = IF mine[j].chosen THEN outcome'.row.status ELSE None
    BY <1>7
  <1>9. PICK missed \in SUBSET Nat : missed = 1..times[mine[j].time] \ stored
    <2>1. 1..times[mine[j].time] \ stored \in SUBSET Nat
      OBVIOUS
    <2>. QED
      BY <2>1
  <1>. DEFINE e == IF j = Command THEN NotFixed
                   ELSE [m EXCEPT !.status = status, !.missed = missed]
  <1>10. mine \in [Sessions -> Evaluations \cup {NotFixed}]
    BY <1>1 DEF Numbered
  <1>11. mine' = [mine EXCEPT ![j] = e]
    <2>1. CASE j = Command
      BY <2>1 DEF Write
    <2>2. CASE j # Command
      <3>1. mine' = [mine EXCEPT ![j].status = IF mine[j].chosen THEN outcome'.row.status ELSE None,
                                 ![j].missed = 1..times[mine[j].time] \ stored]
        BY <2>2 DEF Write
      <3>2. mine' = [mine EXCEPT ![j].status = status, ![j].missed = missed]
        BY <1>8, <1>9, <3>1
      <3>. QED
        BY <1>3, <1>10, <2>2, <3>2
    <2>. QED
      BY <2>1, <2>2
  <1>12. /\ e \in Evaluations \cup {NotFixed}
         /\ j # Command => e.time = m.time /\ e.date = m.date /\ e \in Evaluations
    BY <1>3 DEF Evaluations
  <1>13. j # Command => e # NotFixed
    <2>1. m.time # 0 /\ NotFixed.time = 0
      BY <1>3 DEF Evaluations, NotFixed
    <2>. QED
      BY <1>12, <2>1
  <1>14. j = Command => e = NotFixed
    OBVIOUS
  <1>. HIDE DEF e
  <1>15. /\ mine' \in [Sessions -> Evaluations \cup {NotFixed}]
         /\ mine'[j] = e /\ \A k \in Sessions : k # j => mine'[k] = mine[k]
    BY <1>10, <1>11, <1>12
  <1>16. Numbered'
    <2>1. \A k \in Sessions : mine'[k] # NotFixed => mine'[k].time \in 1..Len(times')
      BY <1>1, <1>3, <1>12, <1>14, <1>15 DEF Numbered
    <2>2. \A k \in Sessions : pc'[k] \in Midway => mine'[k] # NotFixed
      BY <1>1, <1>4, <1>5, <1>13, <1>15 DEF Numbered, Midway
    <2>3. \A k \in Targets : mine'[k] # NotFixed => mine'[k].date = k
      BY <1>1, <1>2, <1>3, <1>12, <1>14, <1>15 DEF Numbered, Targets
    <2>4. \A k \in Targets : k \in evaluated' => mine'[k] # NotFixed /\ pc'[k] \notin Midway
      BY <1>1, <1>5, <1>15 DEF Numbered, Targets, Midway
    <2>. QED
      BY <1>1, <1>5, <1>7, <1>15, <2>1, <2>2, <2>3, <2>4 DEF Numbered, marketVars
  <1>17. ASSUME NEW k \in Targets, k \notin overtaken', mine'[k] # NotFixed
         PROVE  /\ outcome'.by <= mine'[k].time
                /\ pc'[k] \in {"select", "write"} => outcome'.by < mine'[k].time
                /\ pc'[k] = "write" =>
                     (mine'[k].chosen <=> Mature(k)' /\ ~Terminal(outcome'.row))
                /\ pc'[k] = "record" \/ k \in evaluated => Judged(k)'
    <2>1. k \in Sessions /\ (Mature(k)' <=> Mature(k)) /\ k \notin overtaken
      BY <1>1, <1>6, <1>17 DEF Targets, Mature, Target, marketVars
    <2>2. CASE k = j
      <3>1. Judged(k)' /\ outcome'.by <= mine'[k].time
        BY <1>1, <2>1, <2>2, WrittenIsJudged
      <3>2. pc'[k] = "record"
        BY <1>4, <1>5, <2>2 DEF Targets, Command
      <3>. QED
        BY <3>1, <3>2
    <2>3. CASE k # j
      <3>1. mine'[k] = mine[k] /\ pc'[k] = pc[k]
        BY <1>5, <1>15, <2>1, <2>3
      <3>2. outcome' = outcome
        BY <1>6, <1>17, <2>3, <3>1
      <3>3. /\ outcome.by <= mine[k].time
            /\ pc[k] \in {"select", "write"} => outcome.by < mine[k].time
            /\ pc[k] = "write" => (mine[k].chosen <=> Mature(k) /\ ~Terminal(outcome.row))
            /\ pc[k] = "record" \/ k \in evaluated => Judged(k)
        BY <1>1, <1>17, <2>1, <3>1 DEF Undisturbed
      <3>4. Judged(k) => Judged(k)'
        BY <1>1, <1>17, <3>1, <3>2, JudgedKept
      <3>. QED
        BY <2>1, <3>1, <3>2, <3>3, <3>4
    <2>. QED
      BY <2>2, <2>3
  <1>18. Undisturbed'
    BY <1>1, <1>17 DEF Undisturbed, Terminal
  <1>. QED
    BY <1>16, <1>18 DEF EvaluationsOK

-----------------------------------------------------------------------------
(* Portfolios *)

\* One portfolio child moves; what it now has seen or recorded is as it should be.
LEMMA PortfolioMoves ==
  ASSUME PortfoliosOK, Numbered, UNCHANGED books, NEW d \in Targets, NEW label \in Labels,
         Goto(d, label), DOMAIN seen' = Targets, DOMAIN portfolios' = Targets,
         \A k \in Targets : k # d => seen'[k] = seen[k] /\ portfolios'[k] = portfolios[k],
         label \in Counting /\ seen'[d] # None => seen'[d].session = d,
         label = "finish" => seen'[d] # None /\ Held(seen'[d]),
         \/ portfolios'[d] = portfolios[d] \/ portfolios'[d] \in {None, Zero}
         \/ portfolios'[d].session = d /\ Held(portfolios'[d])
  PROVE  PortfoliosOK'
  <1>1. d \in Sessions
    BY DEF Targets
  <1>2. pc'[d] = label /\ \A k \in Sessions : k # d => pc'[k] = pc[k]
    BY <1>1, PcMoves
  <1>3. \A s : Held(s)' <=> Held(s)
    BY DEF Held
  <1>4. ASSUME NEW k \in Targets
        PROVE  /\ pc'[k] \in Counting /\ seen'[k] # None => seen'[k].session = k
               /\ pc'[k] = "finish" => seen'[k] # None /\ Held(seen'[k])
               /\ portfolios'[k] \notin {None, Zero} =>
                    portfolios'[k].session = k /\ Held(portfolios'[k])
    <2>1. /\ pc[k] \in Counting /\ seen[k] # None => seen[k].session = k
          /\ pc[k] = "finish" => seen[k] # None /\ Held(seen[k])
          /\ portfolios[k] \notin {None, Zero} =>
               portfolios[k].session = k /\ Held(portfolios[k])
      BY DEF PortfoliosOK, PortfolioDone
    <2>2. CASE k = d
      BY <1>2, <2>1, <2>2
    <2>3. CASE k # d
      <3>1. pc'[k] = pc[k] /\ seen'[k] = seen[k] /\ portfolios'[k] = portfolios[k]
        BY <1>2, <2>3 DEF Targets
      <3>. QED
        BY <2>1, <3>1
    <2>. QED
      BY <2>2, <2>3
  <1>5. books' \in Seq([cash : Nat, shares : Nat]) /\ books' # <<>>
    BY DEF PortfoliosOK
  <1>6. ASSUME NEW k \in Targets
        PROVE  /\ pc'[k] = "finish" => Held(seen[k])'
               /\ portfolios'[k] \notin {None, Zero} => Held(portfolios[k])'
    BY <1>4 DEF Held
  <1>. QED
    BY <1>4, <1>5, <1>6 DEF PortfoliosOK, PortfolioDone

\* A step outside the portfolio child.
LEMMA PortfoliosKept ==
  ASSUME PortfoliosOK, Numbered, UNCHANGED portfolioVars, UNCHANGED books,
         pc' = pc \/ \E j \in Sessions, label \in Labels \ Counting : Goto(j, label)
  PROVE  PortfoliosOK'
  <1>1. UNCHANGED <<seen, portfolios>>
    BY DEF portfolioVars
  <1>2. \A k \in Targets : pc'[k] \in Counting => pc'[k] = pc[k]
    BY PcMoves DEF Targets
  <1>3. ASSUME NEW k \in Targets
        PROVE  /\ pc'[k] \in Counting /\ seen[k] # None => seen[k].session = k
               /\ pc'[k] = "finish" => seen[k] # None /\ Held(seen[k])
               /\ PortfolioDone(k) => portfolios[k].session = k /\ Held(portfolios[k])
    BY <1>2 DEF PortfoliosOK, Counting
  <1>. QED
    BY <1>1, <1>3 DEF PortfoliosOK, PortfolioDone, Held

LEMMA LoadStep ==
  ASSUME PortfoliosOK, Numbered, NEW d \in Targets, Load(d)
  PROVE  PortfoliosOK'
  <1>1. PICK what : what = IF active THEN [cash |-> book.cash] ELSE None
    OBVIOUS
  <1>2. PICK label \in Labels : label = IF active THEN "value" ELSE "count"
    BY DEF Labels
  <1>3. /\ seen' = [seen EXCEPT ![d] = what] /\ Goto(d, label)
        /\ UNCHANGED <<books, portfolios>>
    BY <1>1, <1>2 DEF Load, Sees, ownerVars
  <1>4. /\ DOMAIN seen = Targets /\ DOMAIN portfolios = Targets
    BY DEF PortfoliosOK
  <1>5. label \in Counting => what = None
    BY <1>1, <1>2 DEF Counting
  <1>6. label # "finish"
    BY <1>2
  <1>. HIDE <1>1, <1>2
  <1>7. seen'[d] = what /\ \A k \in Targets : k # d => seen'[k] = seen[k]
    BY <1>3, <1>4
  <1>8. DOMAIN seen' = Targets /\ DOMAIN portfolios' = Targets
    BY <1>3, <1>4
  <1>. QED
    BY <1>3, <1>5, <1>6, <1>7, <1>8, PortfolioMoves

LEMMA ValueStep ==
  ASSUME PortfoliosOK, Numbered, NEW d \in Targets, Value(d)
  PROVE  PortfoliosOK'
  <1>1. PICK what : what = Snapshot(seen[d].cash)
    OBVIOUS
  <1>2. /\ seen' = [seen EXCEPT ![d] = what] /\ Goto(d, "count")
        /\ UNCHANGED <<books, portfolios>> /\ quote.session = d
    BY <1>1 DEF Value, Sees, ownerVars
  <1>3. what.session = d
    BY <1>1, <1>2 DEF Snapshot
  <1>4. /\ DOMAIN seen = Targets /\ DOMAIN portfolios = Targets /\ "count" \in Labels
    BY DEF PortfoliosOK, Labels
  <1>. HIDE <1>1
  <1>5. /\ seen'[d] = what /\ \A k \in Targets : k # d => seen'[k] = seen[k]
        /\ DOMAIN seen' = Targets /\ DOMAIN portfolios' = Targets
    BY <1>2, <1>4
  <1>. QED
    BY <1>2, <1>3, <1>4, <1>5, PortfolioMoves

LEMMA CountStep ==
  ASSUME PortfoliosOK, Numbered, NEW d \in Targets, Count(d)
  PROVE  PortfoliosOK'
  <1>1. PICK label \in Labels : label = IF active THEN "attest" ELSE "verify"
    BY DEF Labels
  <1>2. /\ Goto(d, label) /\ UNCHANGED <<books, seen>> /\ pc[d] = "count"
        /\ IF active THEN portfolios' = portfolios
           ELSE portfolios' = [portfolios EXCEPT ![d] = Zero]
    BY <1>1 DEF Count, ownerVars, At
  <1>3. DOMAIN seen = Targets /\ DOMAIN portfolios = Targets
    BY DEF PortfoliosOK
  <1>4. seen[d] # None => seen[d].session = d
    BY <1>2 DEF PortfoliosOK, Counting
  <1>5. /\ DOMAIN portfolios' = Targets
        /\ \A k \in Targets : k # d => portfolios'[k] = portfolios[k]
        /\ portfolios'[d] = portfolios[d] \/ portfolios'[d] = Zero
    BY <1>2, <1>3
  <1>6. label # "finish"
    BY <1>1
  <1>. HIDE <1>1
  <1>. QED
    BY <1>2, <1>3, <1>4, <1>5, <1>6, PortfolioMoves

\* What is attested is the book as it is under the lock.
LEMMA AttestStep ==
  ASSUME PortfoliosOK, Numbered, NEW d \in Targets, Attest(d)
  PROVE  PortfoliosOK'
  <1>1. /\ UNCHANGED <<books, seen, portfolios>> /\ Goto(d, "finish")
        /\ pc[d] = "attest" /\ seen[d] # None /\ seen[d] = Snapshot(book.cash)
    BY DEF Attest, At, AsLocked, ownerVars, portfolioVars
  <1>2. DOMAIN seen = Targets /\ DOMAIN portfolios = Targets /\ "finish" \in Labels
    BY DEF PortfoliosOK, Labels
  <1>3. seen[d].session = d
    BY <1>1 DEF PortfoliosOK, Counting
  <1>4. book \in Range(books)
    <2>1. books \in Seq([cash : Nat, shares : Nat]) /\ books # <<>>
      BY DEF PortfoliosOK
    <2>2. Len(books) \in DOMAIN books
      BY <2>1
    <2>. QED
      BY <2>2 DEF book, Last, Range
  <1>5. Held(seen[d])
    <2>1. seen[d].cash = book.cash /\ seen[d].shares = book.shares
      BY <1>1 DEF Snapshot
    <2>. QED
      BY <1>4, <2>1 DEF Held
  <1>6. DOMAIN seen' = Targets /\ DOMAIN portfolios' = Targets
        /\ \A k \in Targets : seen'[k] = seen[k] /\ portfolios'[k] = portfolios[k]
    BY <1>1, <1>2
  <1>7. seen'[d] # None /\ seen'[d].session = d /\ Held(seen'[d])
    BY <1>1, <1>3, <1>5
  <1>8. UNCHANGED books /\ Goto(d, "finish")
    BY <1>1
  <1>. QED
    BY <1>2, <1>6, <1>7, <1>8, PortfolioMoves

LEMMA FinishPortfolioStep ==
  ASSUME PortfoliosOK, Numbered, NEW d \in Targets, FinishPortfolio(d)
  PROVE  PortfoliosOK'
  <1>1. /\ UNCHANGED books /\ Goto(d, "verify") /\ pc[d] = "finish"
        /\ portfolios' = [portfolios EXCEPT ![d] = seen[d]]
        /\ seen' = [seen EXCEPT ![d] = None]
    BY DEF FinishPortfolio, At, Sees, ownerVars
  <1>2. DOMAIN seen = Targets /\ DOMAIN portfolios = Targets /\ "verify" \in Labels
    BY DEF PortfoliosOK, Labels
  <1>3. seen[d].session = d /\ Held(seen[d])
    BY <1>1 DEF PortfoliosOK, Counting
  <1>4. /\ DOMAIN seen' = Targets /\ DOMAIN portfolios' = Targets
        /\ seen'[d] = None /\ portfolios'[d] = seen[d]
        /\ \A k \in Targets : k # d => seen'[k] = seen[k] /\ portfolios'[k] = portfolios[k]
    BY <1>1, <1>2
  <1>5. portfolios'[d].session = d /\ Held(portfolios'[d])
    BY <1>3, <1>4
  <1>6. UNCHANGED books /\ Goto(d, "verify")
    BY <1>1
  <1>. QED
    BY <1>2, <1>4, <1>5, <1>6, PortfolioMoves DEF Counting

\* A child fails or dies: what it has seen is forgotten.
LEMMA PortfolioForgotten ==
  ASSUME PortfoliosOK, Numbered, NEW d \in Targets, NEW label \in Labels \ Counting,
         Goto(d, label), UNCHANGED books, Forget(d),
         portfolios' = portfolios \/ portfolios' = [portfolios EXCEPT ![d] = None]
  PROVE  PortfoliosOK'
  <1>1. DOMAIN seen = Targets /\ DOMAIN portfolios = Targets
        /\ seen' = [seen EXCEPT ![d] = None]
    BY DEF PortfoliosOK, Forget
  <1>2. /\ DOMAIN seen' = Targets /\ DOMAIN portfolios' = Targets
        /\ portfolios'[d] = portfolios[d] \/ portfolios'[d] = None
        /\ \A k \in Targets : k # d => seen'[k] = seen[k] /\ portfolios'[k] = portfolios[k]
    BY <1>1
  <1>3. label \notin Counting /\ label # "finish" /\ label \in Labels
    BY DEF Counting
  <1>. QED
    BY <1>2, <1>3, PortfolioMoves

\* The owner adds a state to those the portfolio has had.
LEMMA OwnerStep ==
  ASSUME PortfoliosOK, Edit \/ Archive \/ Project, Unscheduled
  PROVE  PortfoliosOK'
  <1>1. UNCHANGED <<seen, portfolios, pc>>
    BY DEF Unscheduled, portfolioVars
  <1>2. books \in Seq([cash : Nat, shares : Nat]) /\ books # <<>>
    BY DEF PortfoliosOK
  <1>3. /\ books' \in Seq([cash : Nat, shares : Nat]) /\ books' # <<>>
        /\ Range(books) \subseteq Range(books')
    <2>1. CASE Edit
      <3>1. book \in [cash : Nat, shares : Nat]
        <4>1. PICK n \in 1..Len(books) : n = Len(books)
          BY <1>2
        <4>2. books[n] \in [cash : Nat, shares : Nat]
          <5>1. ASSUME NEW S, NEW s \in Seq(S), NEW m \in 1..Len(s)
                PROVE  s[m] \in S
            OBVIOUS
          <5>. QED
            BY <1>2, <5>1
        <4>. QED
          BY <4>1, <4>2 DEF book, Last
      <3>2. PICK shares \in {book.shares, book.shares + 1} :
              books' = Append(books, [cash |-> book.cash + 1, shares |-> shares])
        BY <2>1 DEF Edit
      <3>3. [cash |-> book.cash + 1, shares |-> shares] \in [cash : Nat, shares : Nat]
        BY <3>1, <3>2
      <3>4. PICK b \in [cash : Nat, shares : Nat] :
              b = [cash |-> book.cash + 1, shares |-> shares]
        BY <3>3
      <3>5. /\ books' \in Seq([cash : Nat, shares : Nat]) /\ Len(books') = Len(books) + 1
            /\ \A i \in 1..Len(books) : books'[i] = books[i]
        BY <1>2, <3>2, <3>4
      <3>6. DOMAIN books = 1..Len(books) /\ DOMAIN books' = 1..Len(books') /\ Len(books) \in Nat
        BY <1>2, <3>5
      <3>7. books' # <<>>
        BY <3>5, <3>6
      <3>8. \A i \in DOMAIN books : i \in DOMAIN books' /\ books'[i] = books[i]
        BY <3>5, <3>6
      <3>. QED
        BY <3>5, <3>7, <3>8 DEF Range
    <2>2. CASE Archive \/ Project
      BY <1>2, <2>2 DEF Archive, Project
    <2>. QED
      BY <2>1, <2>2
  <1>4. \A s : Held(s) => Held(s)'
    BY <1>3 DEF Held
  <1>5. ASSUME NEW k \in Targets
        PROVE  /\ pc[k] = "finish" => seen[k] # None /\ Held(seen[k])
               /\ PortfolioDone(k) => portfolios[k].session = k /\ Held(portfolios[k])
    BY DEF PortfoliosOK
  <1>6. ASSUME NEW k \in Targets
        PROVE  /\ pc'[k] = "finish" => seen'[k] # None /\ Held(seen[k])'
               /\ PortfolioDone(k)' => portfolios'[k].session = k /\ Held(portfolios[k])'
    BY <1>1, <1>3, <1>5 DEF PortfolioDone, Held
  <1>. QED
    BY <1>1, <1>3, <1>6 DEF PortfoliosOK

-----------------------------------------------------------------------------
(* The specification *)

LEMMA InitOK ==
  ASSUME Init
  PROVE  IInv
  <1>1. LastSession \in Nat /\ \A h \in Histories : DOMAIN h \subseteq Sessions
    BY HistoriesAssumption
  <1>2. ClosedSessions # {}
    <2>1. 0 \in ClosedSessions
      BY <1>1 DEF Init, ClosedSessions, Sessions
    <2>. QED
      BY <2>1
  <1>3. PICK v \in Payloads : fetched = <<v>>
    <2>1. PICK h \in Histories : fetched = <<Vintage(h)>>
      BY DEF Init
    <2>. QED
      BY <1>2, <2>1, VintageShape
  <1>4. fetched \in Seq(Payloads) /\ Len(fetched) = 1
    BY <1>3
  <1>5. MarketOK
    <2>1. stored = {1} /\ beside \in {"market", "owner"}
          /\ prediction = IF beside = "market" THEN [target |-> 0, source |-> 1] ELSE None
      BY DEF Init
    <2>2. beside = "market" => prediction # None /\ prediction.source = 1
      BY <2>1, ScheduleAssumption
    <2>3. beside # "market" => prediction = None
      BY <2>1
    <2>. QED
      BY <1>4, <2>1, <2>2, <2>3 DEF MarketOK
  <1>6. \A j \in Sessions : mine[j] = NotFixed /\ pc[j] = "idle"
    BY DEF Init
  <1>7. Numbered
    <2>1. /\ times = <<>> /\ outcome = [row |-> Pending, by |-> 0] /\ evaluated = {}
          /\ mine = [j \in Sessions |-> NotFixed] /\ pc = [j \in Sessions |-> "idle"]
      BY DEF Init
    <2>2. times \in Seq(Nat) /\ Len(times) = 0
      BY <2>1
    <2>3. outcome.by = 0 /\ outcome.row.status = "pending"
      BY <2>1 DEF Pending
    <2>4. pc \in [Sessions -> Labels] /\ mine \in [Sessions -> Evaluations \cup {NotFixed}]
      BY <2>1 DEF Labels
    <2>. QED
      BY <1>6, <2>1, <2>2, <2>3, <2>4 DEF Numbered, Statuses, Midway, Targets
  <1>8. Undisturbed
    BY <1>6 DEF Undisturbed, Targets
  <1>9. PortfoliosOK
    <2>1. /\ books = <<[cash |-> 0, shares |-> 1]>>
          /\ seen = [d \in Targets |-> None] /\ portfolios = [d \in Targets |-> None]
      BY DEF Init
    <2>2. PICK b \in [cash : Nat, shares : Nat] : b = [cash |-> 0, shares |-> 1]
      OBVIOUS
    <2>3. books \in Seq([cash : Nat, shares : Nat]) /\ books # <<>>
      BY <2>1, <2>2
    <2>. QED
      BY <1>6, <2>1, <2>3 DEF PortfoliosOK, PortfolioDone, Targets
  <1>. QED
    BY <1>5, <1>7, <1>8, <1>9 DEF IInv, EvaluationsOK

\* A step that leaves the market alone, and moves a refresh outside its evaluation.
LEMMA Outside ==
  ASSUME MarketOK, EvaluationsOK, UNCHANGED marketVars, UNCHANGED beside,
         UNCHANGED evaluationVars, NEW d \in Targets, NEW label \in Labels \ Midway,
         Goto(d, label)
  PROVE  MarketOK' /\ EvaluationsOK'
  <1>1. Grows /\ MarketOK' /\ d \in Sessions
    BY MarketKept DEF Targets
  <1>. QED
    BY <1>1, EvaluationsKept

\* A step of an evaluation leaves the portfolio alone.
LEMMA Inside ==
  ASSUME MarketOK, Numbered, PortfoliosOK, UNCHANGED marketVars, UNCHANGED parentVars,
         UNCHANGED ownerVars, UNCHANGED portfolioVars,
         NEW j \in Sessions, NEW label \in Labels \ Counting, Goto(j, label)
  PROVE  MarketOK' /\ PortfoliosOK'
  <1>1. UNCHANGED beside /\ UNCHANGED books
    BY DEF parentVars, ownerVars
  <1>2. MarketOK'
    BY <1>1, MarketKept
  <1>. QED
    BY <1>1, <1>2, PortfoliosKept

LEMMA RefreshStep ==
  ASSUME IInv, NEW d \in Targets, Refresh(d)
  PROVE  IInv'
  <1>0. MarketOK /\ EvaluationsOK /\ PortfoliosOK /\ Numbered /\ d \in Sessions
    BY DEF IInv, EvaluationsOK, Targets
  <1>1. CASE Begin(d)
    <2>1. /\ UNCHANGED marketVars /\ UNCHANGED beside /\ UNCHANGED evaluationVars
          /\ UNCHANGED portfolioVars /\ UNCHANGED books /\ Goto(d, "evaluate")
      BY <1>1 DEF Begin
    <2>2. "evaluate" \in Labels \ Midway /\ "evaluate" \in Labels \ Counting
      BY DEF Labels, Midway, Counting
    <2>3. MarketOK' /\ EvaluationsOK'
      BY <1>0, <2>1, <2>2, Outside
    <2>4. PortfoliosOK'
      BY <1>0, <2>1, <2>2, PortfoliosKept
    <2>. QED
      BY <2>3, <2>4 DEF IInv
  <1>2. CASE Verify(d)
    <2>1. /\ UNCHANGED marketVars /\ UNCHANGED beside /\ UNCHANGED evaluationVars
          /\ UNCHANGED portfolioVars /\ UNCHANGED books /\ Goto(d, "idle")
      BY <1>2 DEF Verify, ownerVars
    <2>2. "idle" \in Labels \ Midway /\ "idle" \in Labels \ Counting
      BY DEF Labels, Midway, Counting
    <2>3. MarketOK' /\ EvaluationsOK'
      BY <1>0, <2>1, <2>2, Outside
    <2>4. PortfoliosOK'
      BY <1>0, <2>1, <2>2, PortfoliosKept
    <2>. QED
      BY <2>3, <2>4 DEF IInv
  <1>3. CASE SkipEvaluation(d)
    <2>1. /\ UNCHANGED marketVars /\ UNCHANGED beside /\ UNCHANGED evaluationVars
          /\ UNCHANGED portfolioVars /\ UNCHANGED books /\ Goto(d, "snapshot")
      BY <1>3 DEF SkipEvaluation, ownerVars, parentVars
    <2>2. "snapshot" \in Labels \ Midway /\ "snapshot" \in Labels \ Counting
      BY DEF Labels, Midway, Counting
    <2>3. MarketOK' /\ EvaluationsOK'
      BY <1>0, <2>1, <2>2, Outside
    <2>4. PortfoliosOK'
      BY <1>0, <2>1, <2>2, PortfoliosKept
    <2>. QED
      BY <2>3, <2>4 DEF IInv
  <1>4. CASE SkipPortfolio(d)
    <2>1. /\ UNCHANGED marketVars /\ UNCHANGED beside /\ UNCHANGED evaluationVars
          /\ UNCHANGED portfolioVars /\ UNCHANGED books /\ Goto(d, "verify")
      BY <1>4 DEF SkipPortfolio, ownerVars, parentVars
    <2>2. "verify" \in Labels \ Midway /\ "verify" \in Labels \ Counting
      BY DEF Labels, Midway, Counting
    <2>3. MarketOK' /\ EvaluationsOK'
      BY <1>0, <2>1, <2>2, Outside
    <2>4. PortfoliosOK'
      BY <1>0, <2>1, <2>2, PortfoliosKept
    <2>. QED
      BY <2>3, <2>4 DEF IInv
  <1>5. CASE BeginEvaluation(d)
    <2>1. /\ UNCHANGED marketVars /\ UNCHANGED parentVars /\ UNCHANGED ownerVars
          /\ UNCHANGED portfolioVars /\ Goto(d, "select")
      BY <1>5 DEF BeginEvaluation
    <2>2. "select" \in Labels \ Counting
      BY DEF Labels, Counting
    <2>3. EvaluationsOK'
      BY <1>0, <1>5, BeginEvaluationStep
    <2>. QED
      BY <1>0, <2>1, <2>2, <2>3, Inside DEF IInv
  <1>6. CASE Select(d)
    <2>1. /\ UNCHANGED marketVars /\ UNCHANGED parentVars /\ UNCHANGED ownerVars
          /\ UNCHANGED portfolioVars /\ Goto(d, "write")
      BY <1>6 DEF Select
    <2>2. "write" \in Labels \ Counting
      BY DEF Labels, Counting
    <2>3. EvaluationsOK'
      BY <1>0, <1>6, SelectStep
    <2>. QED
      BY <1>0, <2>1, <2>2, <2>3, Inside DEF IInv
  <1>7. CASE FinishEvaluation(d)
    <2>1. /\ UNCHANGED marketVars /\ UNCHANGED parentVars /\ UNCHANGED ownerVars
          /\ UNCHANGED portfolioVars /\ Goto(d, "snapshot")
      BY <1>7 DEF FinishEvaluation
    <2>2. "snapshot" \in Labels \ Counting
      BY DEF Labels, Counting
    <2>3. EvaluationsOK'
      BY <1>0, <1>7, FinishEvaluationStep
    <2>. QED
      BY <1>0, <2>1, <2>2, <2>3, Inside DEF IInv
  <1>8. CASE Load(d)
    <2>1. /\ UNCHANGED marketVars /\ UNCHANGED beside /\ UNCHANGED evaluationVars
          /\ \E label \in Labels \ Midway : Goto(d, label)
      BY <1>8 DEF Load, parentVars, Labels, Midway
    <2>. QED
      BY <1>0, <1>8, <2>1, Outside, LoadStep DEF IInv
  <1>9. CASE Value(d)
    <2>1. /\ UNCHANGED marketVars /\ UNCHANGED beside /\ UNCHANGED evaluationVars
          /\ \E label \in Labels \ Midway : Goto(d, label)
      BY <1>9 DEF Value, parentVars, Labels, Midway
    <2>. QED
      BY <1>0, <1>9, <2>1, Outside, ValueStep DEF IInv
  <1>10. CASE Count(d)
    <2>1. /\ UNCHANGED marketVars /\ UNCHANGED beside /\ UNCHANGED evaluationVars
          /\ \E label \in Labels \ Midway : Goto(d, label)
      BY <1>10 DEF Count, parentVars, Labels, Midway
    <2>. QED
      BY <1>0, <1>10, <2>1, Outside, CountStep DEF IInv
  <1>11. CASE Attest(d)
    <2>1. /\ UNCHANGED marketVars /\ UNCHANGED beside /\ UNCHANGED evaluationVars
          /\ \E label \in Labels \ Midway : Goto(d, label)
      BY <1>11 DEF Attest, parentVars, Labels, Midway
    <2>. QED
      BY <1>0, <1>11, <2>1, Outside, AttestStep DEF IInv
  <1>12. CASE FinishPortfolio(d)
    <2>1. /\ UNCHANGED marketVars /\ UNCHANGED beside /\ UNCHANGED evaluationVars
          /\ \E label \in Labels \ Midway : Goto(d, label)
      BY <1>12 DEF FinishPortfolio, parentVars, Labels, Midway
    <2>. QED
      BY <1>0, <1>12, <2>1, Outside, FinishPortfolioStep DEF IInv
  <1>13. CASE FailChild(d) \/ Die(d)
    <2>1. PICK label \in {"snapshot", "verify", "idle"} :
            /\ Goto(d, label)
            /\ portfolios' = portfolios \/ portfolios' = [portfolios EXCEPT ![d] = None]
      BY <1>13 DEF FailChild, Die
    <2>2. /\ Forget(d) /\ UNCHANGED marketVars /\ UNCHANGED beside /\ UNCHANGED books
          /\ UNCHANGED <<times, outcome, evaluated>>
      BY <1>13 DEF FailChild, Die, ownerVars, parentVars
    <2>3. label \in Labels \ Midway /\ label \in Labels \ Counting
      BY <2>1 DEF Labels, Midway, Counting
    <2>4. MarketOK' /\ Grows
      BY <1>0, <2>2, MarketKept
    <2>5. EvaluationsOK'
      BY <1>0, <2>1, <2>2, <2>3, <2>4, EvaluationForgotten
    <2>6. PortfoliosOK'
      BY <1>0, <2>1, <2>2, <2>3, PortfolioForgotten
    <2>. QED
      BY <2>4, <2>5, <2>6 DEF IInv
  <1>. QED
    BY <1>1, <1>2, <1>3, <1>4, <1>5, <1>6, <1>7, <1>8, <1>9, <1>10, <1>11, <1>12, <1>13
       DEF Refresh

LEMMA NextOK ==
  ASSUME IInv, [Next]_vars
  PROVE  IInv'
  <1>0. MarketOK /\ EvaluationsOK /\ PortfoliosOK /\ Numbered
    BY DEF IInv, EvaluationsOK
  <1>1. CASE /\ IF beside = "market" THEN Market ELSE Tick
             /\ UNCHANGED <<evaluationVars, ownerVars, portfolioVars, parentVars, pc>>
    <2>1. /\ UNCHANGED beside /\ UNCHANGED evaluationVars /\ UNCHANGED portfolioVars
          /\ UNCHANGED books /\ pc' = pc
      BY <1>1 DEF parentVars, ownerVars
    <2>2. MarketOK' /\ Grows
      BY <1>0, <1>1, <2>1, MarketStep
    <2>. QED
      BY <1>0, <2>1, <2>2, EvaluationsKept, PortfoliosKept DEF IInv
  <1>2. CASE \E d \in Targets : Refresh(d)
    BY <1>2, RefreshStep
  <1>3. CASE BeginCommand
    <2>1. /\ UNCHANGED marketVars /\ UNCHANGED parentVars /\ UNCHANGED ownerVars
          /\ UNCHANGED portfolioVars /\ Goto(Command, "write")
      BY <1>3 DEF BeginCommand
    <2>2. "write" \in Labels \ Counting /\ Command \in Sessions
      BY HistoriesAssumption DEF Labels, Counting, Command, Sessions
    <2>3. EvaluationsOK'
      BY <1>0, <1>3, BeginCommandStep
    <2>. QED
      BY <1>0, <2>1, <2>2, <2>3, Inside DEF IInv
  <1>4. ASSUME NEW j \in Sessions, Write(j)
        PROVE  IInv'
    <2>1. /\ UNCHANGED marketVars /\ UNCHANGED parentVars /\ UNCHANGED ownerVars
          /\ UNCHANGED portfolioVars
      BY <1>4 DEF Write
    <2>2. \E label \in Labels \ Counting : Goto(j, label)
      BY <1>4 DEF Write, Labels, Counting
    <2>3. EvaluationsOK'
      BY <1>0, <1>4, WriteStep
    <2>. QED
      BY <1>0, <2>1, <2>2, <2>3, Inside DEF IInv
  <1>5. CASE (Edit \/ Archive \/ Project) /\ Unscheduled
    <2>1. /\ UNCHANGED marketVars /\ UNCHANGED evaluationVars /\ UNCHANGED beside /\ pc' = pc
      BY <1>5 DEF Unscheduled, parentVars
    <2>2. MarketOK' /\ Grows
      BY <1>0, <2>1, MarketKept
    <2>. QED
      BY <1>0, <1>5, <2>1, <2>2, EvaluationsKept, OwnerStep DEF IInv
  <1>6. CASE UNCHANGED vars
    <2>1. /\ UNCHANGED marketVars /\ UNCHANGED evaluationVars /\ UNCHANGED portfolioVars
          /\ UNCHANGED beside /\ UNCHANGED books /\ pc' = pc
      BY <1>6 DEF vars, ownerVars, parentVars
    <2>2. MarketOK' /\ Grows
      BY <1>0, <2>1, MarketKept
    <2>. QED
      BY <1>0, <2>1, <2>2, EvaluationsKept, PortfoliosKept DEF IInv
  <1>. QED
    BY <1>1, <1>2, <1>3, <1>4, <1>5, <1>6 DEF Next

\* The inductive invariant holds of every behaviour: whichever attempts die, whoever evaluates
\* beside the children, and whatever the owner edits meanwhile.
THEOREM Invariance == Spec => []IInv
  <1>1. Init => IInv
    BY InitOK
  <1>2. IInv /\ [Next]_vars => IInv'
    BY NextOK
  <1>. QED
    BY <1>1, <1>2, PTL DEF Spec

\* What verifies a child reads again is what the child had read, once nothing it missed has
\* been committed.
LEMMA ReadAgain ==
  ASSUME MarketOK, Numbered, NEW d \in Targets, mine[d] # NotFixed, Judged(d),
         mine[d].missed \cap stored = {}
  PROVE  ToldAt(mine[d].time, d) = Told(Max(Read(d)), d)
  <1>1. d \in Sessions
    BY DEF Targets
  <1>2. PICK t \in 1..Len(fetched) : t = times[mine[d].time]
    BY <1>1, TimeFacts
  <1>3. Read(d) = 1..t \ mine[d].missed /\ Read(d) \subseteq stored
    BY <1>2 DEF Read, Judged
  <1>4. stored \subseteq 1..Len(fetched) /\ Len(fetched) \in Nat
    BY MarketFacts
  <1>5. \A i : i \in Visible(t) <=> i \in Read(d)
    <2>1. \A i : i \in Visible(t) <=> i \in stored /\ i <= t
      BY DEF Visible
    <2>2. \A i \in stored : i \in 1..t <=> i <= t
      BY <1>4
    <2>3. \A i \in stored : i \notin mine[d].missed
      OBVIOUS
    <2>. QED
      BY <1>3, <2>1, <2>2, <2>3
  <1>6. Visible(t) = Read(d)
    BY <1>5
  <1>. QED
    BY <1>2, <1>6 DEF ToldAt, AsOf

\* A child that succeeded verifies at any later time, unless another evaluation has rewritten
\* the outcome meanwhile, or a history came to light that it could not have read.
THEOREM ChildrenVerify == Spec => []ChildrenStayVerifiable
  <1>1. ASSUME IInv
        PROVE  ChildrenStayVerifiable
    <2>0. MarketOK /\ Numbered /\ Undisturbed /\ PortfoliosOK
      BY <1>1 DEF IInv, EvaluationsOK
    <2>1. ASSUME NEW d \in Targets, d \in evaluated \ overtaken, mine[d].missed \cap stored = {}
          PROVE  EvaluationVerified(d)
      <3>1. mine[d] # NotFixed /\ d \in Sessions
        BY <2>0, <2>1 DEF Numbered, Targets
      <3>2. Judged(d) /\ outcome.by <= mine[d].time
        BY <2>0, <2>1, <3>1 DEF Undisturbed
      <3>3. mine[d].chosen = Expected(d)
        <4>1. mine[d].chosen \in BOOLEAN
          BY <2>0, <3>1, TimeFacts DEF Evaluations
        <4>2. mine[d].chosen <=> Expected(d)
          BY <3>2 DEF Judged
        <4>3. Expected(d) \in BOOLEAN
          BY DEF Expected
        <4>. QED
          BY <4>1, <4>2, <4>3
      <3>4. ASSUME mine[d].chosen
            PROVE  OutcomeVerified(d)
        <4>1. /\ outcome.row = Told(Max(Read(d)), d)
              /\ outcome.row.status = mine[d].status
              /\ Terminal(outcome.row) => outcome.by = mine[d].time
          BY <3>2, <3>4 DEF Judged
        <4>2. ToldAt(mine[d].time, d) = Told(Max(Read(d)), d)
          BY <2>0, <2>1, <3>1, <3>2, ReadAgain
        <4>. QED
          BY <3>2, <4>1, <4>2 DEF OutcomeVerified
      <3>. QED
        BY <2>1, <3>3, <3>4 DEF EvaluationVerified
    <2>2. ASSUME NEW d \in Targets, portfolios[d] # None
          PROVE  PortfolioVerified(d)
      BY <2>0, <2>2 DEF PortfoliosOK, PortfolioDone, PortfolioVerified
    <2>. QED
      BY <2>1, <2>2 DEF ChildrenStayVerifiable
  <1>. QED
    BY <1>1, Invariance, PTL

\* An attested snapshot is of one state the portfolio was in, however the owner's edits fell
\* between the reading of its cash and that of its holdings.
THEOREM SnapshotsWhole == Spec => []AttestedIsWhole
  <1>1. IInv => AttestedIsWhole
    BY DEF IInv, PortfoliosOK, Held, AttestedIsWhole
  <1>. QED
    BY <1>1, Invariance, PTL
=============================================================================

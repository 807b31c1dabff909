------------------------ MODULE ForwardRecordProofs ------------------------
(***************************************************************************)
(* Proofs about ForwardRecord for any calendar, any histories the provider    *)
(* may tell, any number of callers, workers, attempts and retrievals.  The     *)
(* market grows and takes nothing back; what is recorded stands on what it      *)
(* names, and is proved again from the same.                                   *)
(***************************************************************************)
EXTENDS ForwardRecord, TLAPS, FiniteSetTheorems, WellFoundedInduction

-----------------------------------------------------------------------------
(* Finite sets of numbers *)

LEMMA Least ==
  ASSUME NEW N \in SUBSET Nat, N # {}
  PROVE  \E n \in N : \A m \in N : n <= m
  <1>1. IsWellFoundedOn(OpToRel(<, Nat), Nat)
    BY NatLessThanWellFounded
  <1>2. PICK n \in N : \A m \in N : <<m, n>> \notin OpToRel(<, Nat)
    BY <1>1, WFMin
  <1>3. \A m \in N : ~(m < n)
    BY <1>2 DEF OpToRel
  <1>. QED
    BY <1>3

LEMMA Extremes ==
  ASSUME NEW n \in Nat, NEW N \in SUBSET (0..n)
  PROVE  /\ IsFiniteSet(N)
         /\ N # {} => Max(N) \in N /\ \A j \in N : j <= Max(N)
         /\ N # {} => Min(N) \in N /\ \A j \in N : Min(N) <= j
  <1>1. IsFiniteSet(N)
    <2>1. IsFiniteSet(0..n)
      BY FS_Interval
    <2>. QED
      BY <2>1, FS_Subset
  <1>2. ASSUME N # {}
        PROVE  Max(N) \in N /\ \A j \in N : j <= Max(N)
    <2>. DEFINE M == {m \in Nat : \A j \in N : j <= m}
    <2>1. n \in M
      OBVIOUS
    <2>2. PICK m \in M : \A k \in M : m <= k
      BY <2>1, Least
    <2>3. ASSUME m \notin N
          PROVE  FALSE
      <3>1. PICK j \in N : TRUE
        BY <1>2
      <3>2. \A k \in N : k <= m - 1
        BY <2>2, <2>3
      <3>3. m - 1 \in M
        BY <2>2, <3>1, <3>2
      <3>. QED
        BY <2>2, <3>3
    <2>4. \E x \in N : \A y \in N : x >= y
      BY <2>2, <2>3
    <2>. QED
      BY <2>4 DEF Max
  <1>3. ASSUME N # {}
        PROVE  Min(N) \in N /\ \A j \in N : Min(N) <= j
    <2>1. N \in SUBSET Nat
      OBVIOUS
    <2>2. \E x \in N : \A y \in N : x <= y
      BY <1>3, <2>1, Least
    <2>. QED
      BY <2>2 DEF Min
  <1>. QED
    BY <1>1, <1>2, <1>3

\* The numbers of S up to d, and the one that has HorizonSessions up to it.
UpTo(S, d) == {x \in S : x <= d}
NthOf(S) == CHOOSE d \in S : Cardinality(UpTo(S, d)) = HorizonSessions

LEMMA NthIsThere ==
  ASSUME NEW n \in Nat, NEW S \in SUBSET (0..n), Cardinality(S) >= HorizonSessions
  PROVE  NthOf(S) \in S /\ Cardinality(UpTo(S, NthOf(S))) = HorizonSessions
  <1>0. \A x \in S : x \in Nat /\ x <= n
    OBVIOUS
  <1>1. IsFiniteSet(S)
    BY Extremes
  <1>2. HorizonSessions \in Nat /\ HorizonSessions > 0
    BY HorizonAssumption
  <1>3. \A d : IsFiniteSet(UpTo(S, d)) /\ Cardinality(UpTo(S, d)) \in Nat
    <2>1. ASSUME NEW d
          PROVE  IsFiniteSet(UpTo(S, d)) /\ Cardinality(UpTo(S, d)) \in Nat
      <3>1. UpTo(S, d) \in SUBSET S
        BY DEF UpTo
      <3>2. IsFiniteSet(UpTo(S, d))
        BY <1>1, <3>1, FS_Subset
      <3>. QED
        BY <3>2, FS_CardinalityType
    <2>. QED
      BY <2>1
  <1>. DEFINE N == {k \in Nat : Cardinality(UpTo(S, k)) >= HorizonSessions}
  <1>4. n \in N
    <2>1. UpTo(S, n) = S
      BY <1>0 DEF UpTo
    <2>. QED
      BY <2>1
  <1>5. PICK k \in N : \A m \in N : k <= m
    BY <1>4, Least
  <1>5a. k \in Nat /\ \A m \in Nat : m < k => Cardinality(UpTo(S, m)) < HorizonSessions
    <2>1. k \in Nat
      OBVIOUS
    <2>2. ASSUME NEW m \in Nat, m < k
          PROVE  Cardinality(UpTo(S, m)) < HorizonSessions
      <3>1. m \notin N
        BY <1>5, <2>1, <2>2
      <3>. QED
        BY <1>2, <1>3, <3>1
    <2>. QED
      BY <2>1, <2>2
  <1>5b. Cardinality(UpTo(S, k)) >= HorizonSessions
    OBVIOUS
  <1>. HIDE DEF N
  <1>6. k \in S
    <2>. SUFFICES ASSUME k \notin S
                  PROVE  FALSE
      OBVIOUS
    <2>0. \A x \in S : x # k
      OBVIOUS
    <2>1. CASE k = 0
      <3>0. \A x \in S : ~(x <= k)
        BY <1>0, <2>0, <2>1
      <3>1. UpTo(S, k) = {}
        BY ONLY <3>0 DEF UpTo
      <3>2. Cardinality(UpTo(S, k)) = 0
        BY <3>1, FS_EmptySet
      <3>. QED
        BY <1>2, <1>3, <1>5a, <1>5b, <3>2
    <2>2. CASE k # 0
      <3>1. k - 1 \in Nat
        BY <1>5a, <2>2
      <3>1a. \A x \in S : (x <= k) <=> (x <= k - 1)
        BY <1>0, <1>5a, <2>0
      <3>2. UpTo(S, k) = UpTo(S, k - 1)
        BY ONLY <3>1a DEF UpTo
      <3>3. Cardinality(UpTo(S, k - 1)) < HorizonSessions
        BY <1>5a, <3>1
      <3>. QED
        BY <1>2, <1>3, <1>5b, <3>2, <3>3
    <2>. QED
      BY <2>1, <2>2
  <1>7. Cardinality(UpTo(S, k)) = HorizonSessions
    <2>. DEFINE T == {x \in S : x < k}
    <2>0. \A x \in S : (x <= k) <=> (x < k \/ x = k)
      BY <1>0, <1>5a
    <2>0a. UpTo(S, k) = T \cup {k}
      BY ONLY <1>6, <2>0 DEF UpTo
    <2>0b. k \notin T
      BY <1>5a
    <2>1. UpTo(S, k) = T \cup {k} /\ k \notin T
      BY <2>0a, <2>0b
    <2>2. IsFiniteSet(T) /\ Cardinality(T) \in Nat
      <3>1. T \in SUBSET S
        OBVIOUS
      <3>2. IsFiniteSet(T)
        BY <1>1, <3>1, FS_Subset
      <3>. QED
        BY <3>2, FS_CardinalityType
    <2>3. Cardinality(T) < HorizonSessions
      <3>1. CASE k = 0
        <4>0. \A x \in S : ~(x < k)
          BY <1>0, <3>1
        <4>1. T = {}
          BY ONLY <4>0
        <4>2. Cardinality(T) = 0
          BY <4>1, FS_EmptySet
        <4>. QED
          BY <1>2, <4>2
      <3>2. CASE k # 0
        <4>1. k - 1 \in Nat /\ Cardinality(UpTo(S, k - 1)) < HorizonSessions
          BY <1>5a, <3>2
        <4>1a. \A x \in S : (x < k) <=> (x <= k - 1)
          BY <1>0, <1>5a, <4>1
        <4>2. T = UpTo(S, k - 1)
          BY ONLY <4>1a DEF UpTo
        <4>. QED
          BY <1>2, <1>3, <4>1, <4>2
      <3>. QED
        BY <3>1, <3>2
    <2>4. Cardinality(T \cup {k}) = Cardinality(T) + 1
      BY <2>1, <2>2, FS_AddElement
    <2>5. Cardinality(UpTo(S, k)) >= HorizonSessions
      BY <1>5b
    <2>. HIDE DEF T
    <2>. QED
      BY <1>2, <2>1, <2>2, <2>3, <2>4, <2>5
  <1>8. \E d \in S : Cardinality(UpTo(S, d)) = HorizonSessions
    BY <1>6, <1>7
  <1>. QED
    BY <1>8 DEF NthOf

\* Among the numbers up to it, it is the same again.
LEMMA NthAgain ==
  ASSUME NEW n \in Nat, NEW S \in SUBSET (0..n), Cardinality(S) >= HorizonSessions
  PROVE  /\ Cardinality(UpTo(S, NthOf(S))) >= HorizonSessions
         /\ NthOf(UpTo(S, NthOf(S))) = NthOf(S)
  <1>0. \A x \in S : x \in Nat /\ x <= n
    OBVIOUS
  <1>. DEFINE d == NthOf(S)
              T == UpTo(S, d)
              e == NthOf(T)
  <1>1. d \in S /\ Cardinality(T) = HorizonSessions
    BY NthIsThere
  <1>2. T \in SUBSET (0..n) /\ d \in T
    <2>1. T \in SUBSET S
      BY DEF UpTo
    <2>2. \A x \in S : x <= x
      BY <1>0
    <2>3. d \in T
      BY <1>1, <2>2 DEF UpTo
    <2>. QED
      BY <2>1, <2>3
  <1>3. HorizonSessions \in Nat
    BY HorizonAssumption
  <1>. HIDE DEF d, T
  <1>4. Cardinality(T) >= HorizonSessions
    BY <1>1, <1>3
  <1>5. e \in T /\ Cardinality(UpTo(T, e)) = HorizonSessions
    BY <1>2, <1>4, NthIsThere
  <1>6. IsFiniteSet(T)
    BY <1>2, Extremes
  <1>7. UpTo(T, e) \in SUBSET T
    BY DEF UpTo
  <1>8. UpTo(T, e) = T
    BY <1>1, <1>5, <1>6, <1>7, FS_Subset
  <1>8a. d \in Nat /\ e \in Nat
    <2>1. \A x \in T : x \in Nat
      BY <1>2
    <2>. QED
      BY <1>2, <1>5, <2>1
  <1>. HIDE DEF e
  <1>9. d <= e
    BY <1>2, <1>8 DEF UpTo
  <1>10. e <= d
    BY <1>5, <1>8a DEF T, UpTo
  <1>11. d = e
    BY <1>8a, <1>9, <1>10
  <1>. QED
    BY <1>4, <1>11 DEF d, e, T

-----------------------------------------------------------------------------
(* The inductive invariant *)

\* What the provider can have told by the close of a session.
Told == {[closes |-> Restrict(h, DOMAIN h \cap (0..d)), day |-> d] :
           h \in Histories, d \in Sessions}

MarketOK ==
  /\ clock \in 0..2 * LastSession + 1
  /\ fetched \in Seq(Told) /\ Len(fetched) <= MaxVintages
  /\ fetched # <<>> => clock > 0
  /\ stored \subseteq 1..Len(fetched)
  /\ prediction # None => prediction.source \in stored

\* Time goes on, retrievals are added and committed, and a forecast is not replaced.
Grows ==
  /\ clock' \in Nat /\ clock <= clock'
  /\ Len(fetched') \in Nat /\ Len(fetched) <= Len(fetched')
  /\ \A i \in 1..Len(fetched) : fetched'[i] = fetched[i]
  /\ stored \subseteq stored'
  /\ prediction # None => prediction' = prediction

\* One protocol, and then one activation.
Declared ==
  /\ Len(declarations) <= 1 /\ Len(activations) <= 1
  /\ declarations \in Seq(Nat) /\ (declarations # <<>> => declarations[1] <= clock)
  /\ activations # <<>> =>
       /\ ActivationProved
       /\ Activation.entry \in Sessions /\ Activation.source \in 1..Len(fetched)

BeforeActivation ==
  activations = <<>> =>
    captures = {} /\ execution = None /\ \A p \in Callers : calls[p].pc = "idle"

Rows == [status : {"running", "failed", "success"},
         origin : (Sessions \X Nat \X Nat) \cup {None}]

\* A caller at work has a session of the calendar, and its attempt a row.
CallsOK ==
  /\ jobs \in [Sessions -> Seq(Rows)] /\ \A s \in Sessions : Len(jobs[s]) <= MaxAttempts
  /\ DOMAIN calls = Callers
  /\ \A p \in Callers :
       /\ calls[p].pc \in {"idle", "market", "task", "prove", "final"}
       /\ calls[p].pc # "idle" => calls[p].session \in Calendar
       /\ calls[p].pc \in {"task", "prove", "final"} =>
            calls[p].job \in 1..Len(jobs[calls[p].session])

\* Who proves a mark is alone, and its session still has none.
Proving ==
  \A p \in Callers : calls[p].pc = "prove" =>
    /\ \A q \in Callers : calls[q].pc = "prove" => q = p
    /\ Captured(calls[p].session) = {}
    /\ execution # None \/ calls[p].session = Activation.entry

\* A mark was made before now, from retrievals of its time, and is the one of its session.
Marks ==
  \A c \in captures :
    /\ c.session \in Sessions /\ c.made = 2 * c.session + 1 /\ c.made <= clock
    /\ c.ref \in 1..Len(fetched) /\ c.retrieval \in 1..Len(fetched)
    /\ c.job \in 1..Len(jobs[c.session])
    /\ \A d \in captures : d.session = c.session => d = c

PaperOK ==
  /\ Declared /\ BeforeActivation /\ CallsOK /\ Proving /\ Marks
  /\ activations # <<>> => Readable

\* What an evaluation had committed when it read.
Read == 1..outcome.evaluated \ outcome.missed

OutcomeOK ==
  Terminal(outcome.row) =>
    /\ prediction # None
    /\ outcome.evaluated \in 1..Len(fetched)
    /\ Read # {} /\ Read \subseteq stored
    /\ Resolve(Max(Read), outcome.row.date) = outcome.row

\* Assets are durable before a job or a success names them.
Durable(job, assets) ==
  /\ job[1] = "capture" => assets \subseteq shots
  /\ job[1] = "evaluate" => assets \subseteq assessments

ShotsOK ==
  /\ shots # {} => activation # None
  /\ \A c \in shots :
       /\ c.session \in ClosedSessions /\ c.session >= Epoch
       /\ \A d \in shots : d.session = c.session => d = c

\* An accepted assessment is the only one of its case and, unless it is torn, is proved by
\* its own assets.
AssessmentsOK ==
  \A a \in assessments : a.state = "accepted" =>
    /\ prediction # None
    /\ a.sources \subseteq 1..Len(fetched) /\ (~Torn(a) => AssessmentProved(a))
    /\ \E i \in a.sources : i <= a.native.evaluated
    /\ \A b \in assessments : b.state = "accepted" /\ b.session = a.session => b = a

JobsOK ==
  /\ DOMAIN work = Workers
  /\ \A w \in Workers : work[w].pc # "free" => Durable(work[w].job, work[w].assets)
  /\ \A w \in Workers : work[w].pc \in {"scan", "judge"} => work[w].job[1] = "evaluate"
  /\ \A r \in successes : Durable(r.job, r.assets) /\ r.finished \in Nat

\* The history of the outcome's time that a first assessment has read, and the time it was
\* begun at, which is not before the outcome's.
SourceRead(case) ==
  case.prior = {} /\ Terminal(case.native.row) =>
    /\ prediction # None
    /\ case.native.evaluated \in 1..Len(fetched) /\ case.assessed \in 1..Len(fetched)
    /\ case.native.evaluated <= case.assessed
    /\ case.source \in stored /\ case.source <= case.native.evaluated

\* A case is being assessed by one worker, which knows what was accepted of it.
CasesOK ==
  \A w \in Workers : work[w].pc = "judge" =>
    /\ work[w].case.prior = Accepted(work[w].case.session)
    /\ SourceRead(work[w].case)
    /\ \A v \in Workers :
         work[v].pc = "judge" /\ work[v].case.session = work[w].case.session => v = w

IInv ==
  MarketOK /\ PaperOK /\ OutcomeOK /\ ShotsOK /\ AssessmentsOK /\ JobsOK /\ CasesOK

-----------------------------------------------------------------------------
(* The market *)

LEMMA ToldShape ==
  ASSUME NEW v \in Told
  PROVE  \E h \in Histories, d \in Sessions :
           v = [closes |-> Restrict(h, DOMAIN h \cap (0..d)), day |-> d]
  BY DEF Told

LEMMA ToldFacts ==
  ASSUME NEW v \in Told
  PROVE  /\ v.day \in Sessions /\ 0 \in DOMAIN v.closes
         /\ DOMAIN v.closes \in SUBSET (0..LastSession)
  <1>1. PICK h \in Histories, d \in Sessions :
               v = [closes |-> Restrict(h, DOMAIN h \cap (0..d)), day |-> d]
    BY ToldShape
  <1>2. DOMAIN v.closes = DOMAIN h \cap (0..d) /\ v.day = d
    BY <1>1 DEF Restrict
  <1>3. DOMAIN h \in SUBSET Sessions /\ 0 \in DOMAIN h
    BY HistoriesAssumption
  <1>4. 0 \in 0..d
    BY DEF Sessions
  <1>. QED
    BY <1>2, <1>3, <1>4 DEF Sessions

LEMMA VintageFacts ==
  ASSUME MarketOK, NEW i \in 1..Len(fetched)
  PROVE  /\ fetched[i].day \in Sessions /\ 0 \in DOMAIN fetched[i].closes
         /\ DOMAIN fetched[i].closes \in SUBSET (0..LastSession)
  <1>1. fetched[i] \in Told
    BY DEF MarketOK
  <1>. QED
    BY <1>1, ToldFacts

LEMMA ClosedFacts ==
  ASSUME MarketOK
  PROVE  /\ \A s \in ClosedSessions : s \in Sessions /\ s \in Nat /\ 2 * s < clock
         /\ ClosedSessions # {} =>
              /\ Closed \in ClosedSessions
              /\ \A s \in ClosedSessions : s <= Closed
              /\ ClosedSessions = 0..Closed
  <1>1. clock \in Nat /\ LastSession \in Nat
    BY HistoriesAssumption DEF MarketOK
  <1>2. \A s \in ClosedSessions : s \in Sessions /\ s \in Nat /\ 2 * s < clock
    BY <1>1 DEF ClosedSessions, Sessions
  <1>3. ClosedSessions \in SUBSET (0..LastSession)
    BY DEF ClosedSessions, Sessions
  <1>4. ASSUME ClosedSessions # {}
        PROVE  Closed \in ClosedSessions /\ \A s \in ClosedSessions : s <= Closed
    BY <1>1, <1>3, <1>4, Extremes DEF Closed
  <1>5. ASSUME ClosedSessions # {}
        PROVE  ClosedSessions = 0..Closed
    <2>0. Closed \in ClosedSessions
      BY <1>4, <1>5
    <2>1. Closed \in Nat /\ 2 * Closed < clock /\ Closed <= LastSession
      <3>1. \A s \in ClosedSessions : s <= LastSession
        BY <1>1, <1>3
      <3>. QED
        BY <1>2, <2>0, <3>1
    <2>2. \A s : s \in ClosedSessions <=> s \in 0..Closed
      <3>1. \A s : s \in 0..Closed => s \in Nat /\ s <= LastSession /\ 2 * s < clock
        BY <1>1, <2>1
      <3>2. \A s : s \in 0..Closed => s \in ClosedSessions
        BY <1>1, <3>1 DEF ClosedSessions, Sessions
      <3>3. \A s : s \in ClosedSessions => s \in 0..Closed
        BY <1>2, <1>4, <1>5, <2>1
      <3>. QED
        BY <3>2, <3>3
    <2>. QED
      BY <2>2
  <1>. QED
    BY <1>2, <1>4, <1>5

LEMMA VisibleFacts ==
  ASSUME MarketOK, NEW r
  PROVE  /\ Visible(r) \in SUBSET (1..Len(fetched)) /\ Visible(r) \in SUBSET (0..Len(fetched))
         /\ Visible(r) # {} => /\ Max(Visible(r)) \in Visible(r)
                               /\ \A i \in Visible(r) : i <= Max(Visible(r))
  <1>1. Visible(r) \in SUBSET (1..Len(fetched))
    BY DEF MarketOK, Visible
  <1>2. Len(fetched) \in Nat /\ Visible(r) \in SUBSET (0..Len(fetched))
    BY <1>1 DEF MarketOK
  <1>. QED
    BY <1>1, <1>2, Extremes

\* A history told between the close of a session and the next.
LEMMA VintageTold ==
  ASSUME MarketOK, ClosedSessions # {}, NEW h \in Histories
  PROVE  Vintage(h) \in Told
  <1>1. Closed \in Sessions /\ ClosedSessions = 0..Closed
    BY ClosedFacts
  <1>2. PICK d \in Sessions : d = Closed
    BY <1>1
  <1>3. Vintage(h) = [closes |-> Restrict(h, DOMAIN h \cap (0..d)), day |-> d]
    BY <1>1, <1>2 DEF Vintage
  <1>. QED
    <2>1. [closes |-> Restrict(h, DOMAIN h \cap (0..d)), day |-> d] \in Told
      BY DEF Told
    <2>. QED
      BY <1>3, <2>1

LEMMA MarketStep ==
  ASSUME MarketOK, Market
  PROVE  MarketOK' /\ Grows
  <1>0. /\ clock \in Nat /\ LastSession \in Nat /\ Len(fetched) \in Nat
        /\ fetched \in Seq(Told) /\ Len(fetched) <= MaxVintages
        /\ stored \subseteq 1..Len(fetched) /\ (prediction # None => prediction.source \in stored)
        /\ fetched # <<>> => clock > 0
    BY HistoriesAssumption DEF MarketOK
  <1>1. CASE Tick
    <2>1. clock' \in 0..2 * LastSession + 1 /\ clock <= clock' /\ clock' > 0
      BY <1>0, <1>1 DEF Tick
    <2>2. UNCHANGED <<fetched, stored, prediction>>
      BY <1>1 DEF Tick
    <2>. QED
      BY <1>0, <2>1, <2>2 DEF MarketOK, Grows
  <1>2. CASE Retrieve
    <2>1. PICK h \in Histories : fetched' = Append(fetched, Vintage(h))
      BY <1>2 DEF Retrieve
    <2>2. UNCHANGED <<clock, stored, prediction>> /\ ClosedSessions # {} /\ Len(fetched) < MaxVintages
      BY <1>2 DEF Retrieve, Retrieved
    <2>3. Vintage(h) \in Told
      BY <2>2, VintageTold
    <2>4. /\ fetched' \in Seq(Told) /\ Len(fetched') = Len(fetched) + 1
          /\ \A i \in 1..Len(fetched) : fetched'[i] = fetched[i]
      BY <1>0, <2>1, <2>3
    <2>5. MaxVintages \in Nat
      BY HistoriesAssumption
    <2>6. Len(fetched') <= MaxVintages /\ Len(fetched) <= Len(fetched')
      BY <1>0, <2>2, <2>4, <2>5
    <2>7. stored' \subseteq 1..Len(fetched')
      BY <1>0, <2>2, <2>4
    <2>8. clock' \in 0..2 * LastSession + 1 /\ clock' > 0
      <3>1. \E s \in Nat : 2 * s < clock
        BY <2>2, ClosedFacts
      <3>. QED
        BY <1>0, <2>2, <3>1 DEF MarketOK
    <2>. QED
      BY <1>0, <2>2, <2>4, <2>6, <2>7, <2>8 DEF MarketOK, Grows
  <1>3. CASE Commit
    <2>1. PICK i \in DOMAIN fetched \ stored : stored' = stored \cup {i}
      BY <1>3 DEF Commit
    <2>2. UNCHANGED <<clock, fetched, prediction>>
      BY <1>3 DEF Commit
    <2>3. DOMAIN fetched = 1..Len(fetched)
      BY <1>0
    <2>4. stored' \subseteq 1..Len(fetched') /\ stored \subseteq stored'
      BY <1>0, <2>1, <2>2, <2>3
    <2>5. prediction' # None => prediction'.source \in stored'
      BY <1>0, <2>2, <2>4
    <2>6. MarketOK'
      BY <1>0, <2>2, <2>4, <2>5 DEF MarketOK
    <2>7. Grows
      BY <1>0, <2>2, <2>4 DEF Grows
    <2>. QED
      BY <2>6, <2>7
  <1>4. CASE Issue
    <2>1. /\ prediction = None /\ stored # {} /\ UNCHANGED <<clock, fetched, stored>>
          /\ prediction' = [target |-> Closed, source |-> Newest]
      BY <1>4 DEF Issue
    <2>2. Visible(Retrieved) = stored
      <3>1. \A i \in stored : i <= Len(fetched)
        BY <1>0
      <3>. QED
        BY <3>1 DEF Visible, Retrieved
    <2>3. Newest \in stored
      BY <2>1, <2>2, VisibleFacts DEF Newest
    <2>4. prediction'.source \in stored'
      BY <2>1, <2>3
    <2>. QED
      BY <1>0, <2>1, <2>4 DEF MarketOK, Grows
  <1>. QED
    BY <1>1, <1>2, <1>3, <1>4 DEF Market

\* Whoever has a forecast, or a history, has seen a session close.
LEMMA ClosedOnce ==
  ASSUME MarketOK, stored # {}
  PROVE  ClosedSessions # {} /\ Closed \in Sessions
  <1>0. PICK i \in 1..Len(fetched) : TRUE
    BY DEF MarketOK
  <1>1. fetched # <<>> /\ clock \in Nat /\ LastSession \in Nat
    <2>1. fetched \in Seq(Told) /\ clock \in Nat
      BY DEF MarketOK
    <2>2. Len(fetched) # 0
      BY <1>0, <2>1
    <2>. QED
      BY <2>1, <2>2, HistoriesAssumption
  <1>2. clock > 2 * 0
    BY <1>1 DEF MarketOK
  <1>3. 0 \in ClosedSessions
    BY <1>1, <1>2 DEF ClosedSessions, Sessions
  <1>. QED
    BY <1>3, ClosedFacts

LEMMA MarketKept ==
  ASSUME MarketOK, UNCHANGED marketVars
  PROVE  MarketOK' /\ Grows
  <1>1. clock \in Nat /\ Len(fetched) \in Nat
    BY DEF MarketOK
  <1>. QED
    BY <1>1 DEF MarketOK, Grows, marketVars

-----------------------------------------------------------------------------
(* What the market cannot disturb *)

LEMMA One ==
  ASSUME NEW e
  PROVE  /\ Len(Append(<<>>, e)) = 1 /\ Append(<<>>, e)[1] = e /\ Append(<<>>, e) # <<>>
         /\ Append(<<>>, e) \in Seq({e})
  <1>1. <<>> \in Seq({e}) /\ e \in {e} /\ Len(<<>>) = 0
    OBVIOUS
  <1>. QED
    BY <1>1

LEMMA HistoryGrown ==
  ASSUME Grows, NEW i \in 1..Len(fetched)
  PROVE  Closes(i)' = Closes(i) /\ PeriodEnd(i)' = PeriodEnd(i)
  <1>1. Closes(i)' = Closes(i)
    BY DEF Grows, Closes
  <1>. QED
    BY <1>1 DEF PeriodEnd

\* A proof of a mark reads only histories that it names.
LEMMA ProvableGrown ==
  ASSUME Grows, UNCHANGED <<activations, execution>>, Activation.source \in 1..Len(fetched),
         NEW ref \in 1..Len(fetched), NEW s, NEW E, \A c \in E : c.ref \in 1..Len(fetched),
         Provable(ref, s, E)
  PROVE  Provable(ref, s, E)'
  <1>1. Closes(ref)' = Closes(ref) /\ PeriodEnd(ref)' = PeriodEnd(ref)
    BY HistoryGrown
  <1>2. Activation' = Activation
    BY DEF Activation
  <1>3. \A k \in Known(E) : k \in 1..Len(fetched)
    BY DEF Known
  <1>4. Known(E)' = Known(E)
    BY <1>2 DEF Known
  <1>5. \A k \in Known(E) : Closes(k)' = Closes(k)
    <2>1. ASSUME NEW k \in Known(E)
          PROVE  Closes(k)' = Closes(k)
      <3>1. k \in 1..Len(fetched)
        BY <1>3
      <3>. QED
        BY <3>1, HistoryGrown
    <2>. QED
      BY <2>1
  <1>6. \A k \in Known(E)' : Agrees(ref, k)'
    <2>1. \A k \in Known(E) : Agrees(ref, k)
      BY DEF Provable
    <2>. QED
      BY <1>1, <1>4, <1>5, <2>1 DEF Agrees
  <1>. QED
    BY <1>1, <1>6 DEF Provable

LEMMA CandidatesGrown ==
  ASSUME MarketOK, Grows, NEW s, NEW r, Candidates(s, r) # {}
  PROVE  Candidates(s, r)' # {}
  <1>1. PICK i \in Visible(r) : PeriodEnd(i) = s
    BY DEF Candidates
  <1>2. i \in 1..Len(fetched) /\ i \in stored /\ i <= r
    BY <1>1 DEF Visible, MarketOK
  <1>3. PeriodEnd(i)' = s
    BY <1>1, <1>2, HistoryGrown
  <1>4. i \in Visible(r)'
    BY <1>2 DEF Visible, Grows
  <1>. QED
    BY <1>3, <1>4 DEF Candidates

LEMMA MarksGrown ==
  ASSUME MarketOK, Grows, Marks, UNCHANGED <<captures, jobs>>
  PROVE  Marks'
  <1>. SUFFICES ASSUME NEW c \in captures
                PROVE  /\ c.session \in Sessions /\ c.made = 2 * c.session + 1 /\ c.made <= clock'
                       /\ c.ref \in 1..Len(fetched') /\ c.retrieval \in 1..Len(fetched')
                       /\ c.job \in 1..Len(jobs[c.session])
                       /\ \A d \in captures : d.session = c.session => d = c
    BY DEF Marks
  <1>1. /\ c.session \in Sessions /\ c.made = 2 * c.session + 1 /\ c.made <= clock
        /\ c.ref \in 1..Len(fetched) /\ c.retrieval \in 1..Len(fetched)
        /\ c.job \in 1..Len(jobs[c.session])
        /\ \A d \in captures : d.session = c.session => d = c
    BY DEF Marks
  <1>2. c.made <= clock'
    <2>1. c.made \in Nat /\ clock \in Nat
      BY <1>1 DEF Sessions, MarketOK
    <2>. QED
      BY <1>1, <2>1 DEF Grows
  <1>. QED
    BY <1>1, <1>2 DEF Grows

LEMMA ReadableGrown ==
  ASSUME MarketOK, Grows, Marks, Activation.source \in 1..Len(fetched), Readable,
         UNCHANGED paperVars
  PROVE  Readable'
  <1>1. UNCHANGED <<declarations, activations, execution, captures, jobs>>
    BY DEF paperVars
  <1>2. Activation' = Activation
    BY <1>1 DEF Activation
  <1>3. ActivationProved'
    BY <1>1, <1>2 DEF Readable, ActivationProved
  <1>4. execution' = None => captures' = {}
    BY <1>1 DEF Readable
  <1>5. ASSUME execution # None, NEW c \in captures
        PROVE  /\ Cardinality(Captured(c.session)') = 1
               /\ c.session \in Calendar' /\ c.made = 2 * c.session + 1
               /\ Candidates(c.session, c.retrieval)' # {}
               /\ Provable(c.ref, c.session, Earlier(c))'
               /\ c.price = Closes(c.ref)'[c.session]
               /\ OriginProved(c)'
    <2>1. /\ Cardinality(Captured(c.session)) = 1
          /\ c.session \in Calendar /\ c.made = 2 * c.session + 1
          /\ Candidates(c.session, c.retrieval) # {}
          /\ Provable(c.ref, c.session, Earlier(c))
          /\ c.price = Closes(c.ref)[c.session]
          /\ OriginProved(c)
      BY <1>5 DEF Readable, MarkAsset
    <2>2. PICK s : s = c.session
      OBVIOUS
    <2>3. Captured(s)' = Captured(s) /\ Calendar' = Calendar
      BY <1>1, <1>2 DEF Captured, Calendar
    <2>4. PICK r : r = c.retrieval
      OBVIOUS
    <2>5. Candidates(s, r)' # {}
      BY <2>1, <2>2, <2>4, CandidatesGrown
    <2>6. PICK ref \in 1..Len(fetched) : ref = c.ref
      BY DEF Marks
    <2>7. PICK E : E = Earlier(c)
      OBVIOUS
    <2>8. E = Earlier(c)'
      BY <1>1, <2>7 DEF Earlier
    <2>9. \A d \in E : d.ref \in 1..Len(fetched)
      BY <2>7 DEF Earlier, Marks
    <2>10. Provable(ref, s, E)'
      <3>1. Provable(ref, s, E)
        BY <2>1, <2>2, <2>6, <2>7
      <3>. QED
        BY <1>1, <2>9, <3>1, ProvableGrown
    <2>11. Provable(c.ref, c.session, Earlier(c))'
      BY <2>2, <2>6, <2>8, <2>10
    <2>12. Closes(ref)' = Closes(ref)
      BY HistoryGrown
    <2>13. OriginProved(c)'
      BY <1>1, <1>2, <2>1 DEF OriginProved
    <2>. QED
      BY <2>1, <2>2, <2>3, <2>4, <2>5, <2>6, <2>11, <2>12, <2>13
  <1>6. execution # None => \E c \in captures' : c.session = Activation.entry
    BY <1>1 DEF Readable
  <1>. QED
    BY <1>1, <1>2, <1>3, <1>4, <1>5, <1>6 DEF Readable, MarkAsset

LEMMA PaperGrown ==
  ASSUME MarketOK, Grows, PaperOK, UNCHANGED paperVars
  PROVE  PaperOK'
  <1>1. UNCHANGED <<declarations, activations, execution, captures, jobs, calls>>
    BY DEF paperVars
  <1>2. Declared /\ BeforeActivation /\ CallsOK /\ Proving /\ Marks
    BY DEF PaperOK
  <1>3. Activation' = Activation
    BY <1>1 DEF Activation
  <1>4. Declared'
    <2>1. activations # <<>> => ActivationProved'
      BY <1>1, <1>2, <1>3 DEF Declared, ActivationProved
    <2>2. activations # <<>> =>
            Activation.entry \in Sessions /\ Activation.source \in 1..Len(fetched')
      BY <1>2 DEF Declared, Grows
    <2>3. declarations # <<>> => declarations[1] <= clock'
      <3>1. declarations # <<>> => declarations[1] \in Nat /\ declarations[1] <= clock
        BY <1>2 DEF Declared
      <3>2. clock \in Nat /\ clock' \in Nat /\ clock <= clock'
        BY DEF MarketOK, Grows
      <3>. QED
        BY <3>1, <3>2
    <2>. QED
      BY <1>1, <1>2, <1>3, <2>1, <2>2, <2>3 DEF Declared
  <1>5. BeforeActivation'
    BY <1>1, <1>2 DEF BeforeActivation
  <1>6. CallsOK'
    BY <1>1, <1>2, <1>3 DEF CallsOK, Calendar
  <1>7. Proving'
    BY <1>1, <1>2, <1>3 DEF Proving, Captured
  <1>8. Marks'
    BY <1>1, <1>2, MarksGrown
  <1>9. activations' # <<>> => Readable'
    <2>. SUFFICES ASSUME activations # <<>>
                  PROVE  Readable'
      BY <1>1
    <2>1. Readable /\ Activation.source \in 1..Len(fetched)
      BY <1>2 DEF PaperOK, Declared
    <2>. QED
      BY <1>2, <2>1, ReadableGrown
  <1>. QED
    BY <1>4, <1>5, <1>6, <1>7, <1>8, <1>9 DEF PaperOK

-----------------------------------------------------------------------------
(* The paper record: callers and their rows *)

\* Rows are only added, and a row keeps its origin.
RowsStay ==
  /\ jobs' \in [Sessions -> Seq(Rows)]
  /\ \A s \in Sessions : Len(jobs[s]) <= Len(jobs'[s]) /\ Len(jobs'[s]) <= MaxAttempts

JobsGrow ==
  /\ RowsStay
  /\ \A s \in Sessions : \A n \in 1..Len(jobs[s]) : jobs'[s][n].origin = jobs[s][n].origin

LEMMA RowWritten ==
  ASSUME CallsOK, NEW s \in Sessions, NEW n \in 1..Len(jobs[s]), NEW row \in Rows,
         jobs' = [jobs EXCEPT ![s] = [jobs[s] EXCEPT ![n] = row]]
  PROVE  /\ RowsStay /\ jobs'[s][n] = row
         /\ row.origin = jobs[s][n].origin => JobsGrow
         /\ \A t \in Sessions : Len(jobs'[t]) = Len(jobs[t])
         /\ \A t \in Sessions : t # s => jobs'[t] = jobs[t]
  <1>1. jobs \in [Sessions -> Seq(Rows)] /\ jobs[s] \in Seq(Rows)
    BY DEF CallsOK
  <1>. DEFINE q == [jobs[s] EXCEPT ![n] = row]
  <1>2. /\ q \in Seq(Rows) /\ Len(q) = Len(jobs[s]) /\ q[n] = row
        /\ \A m \in 1..Len(jobs[s]) : m # n => q[m] = jobs[s][m]
    BY <1>1
  <1>. HIDE DEF q
  <1>3. jobs' = [jobs EXCEPT ![s] = q]
    BY DEF q
  <1>4. jobs'[s] = q /\ \A t \in Sessions : t # s => jobs'[t] = jobs[t]
    BY <1>1, <1>3
  <1>5. jobs' \in [Sessions -> Seq(Rows)]
    BY <1>1, <1>2, <1>3
  <1>6. ASSUME NEW t \in Sessions
        PROVE  /\ Len(jobs'[t]) = Len(jobs[t]) /\ Len(jobs[t]) \in Nat
               /\ Len(jobs[t]) <= MaxAttempts
               /\ row.origin = jobs[s][n].origin =>
                    \A m \in 1..Len(jobs[t]) : jobs'[t][m].origin = jobs[t][m].origin
    <2>1. jobs[t] \in Seq(Rows) /\ Len(jobs[t]) <= MaxAttempts
      BY <1>1 DEF CallsOK
    <2>. QED
      BY <1>2, <1>4, <2>1
  <1>7. RowsStay
    BY <1>5, <1>6 DEF RowsStay
  <1>. QED
    BY <1>2, <1>4, <1>6, <1>7 DEF JobsGrow

LEMMA StatusSet ==
  ASSUME CallsOK, NEW p \in Callers, NEW status \in {"running", "failed", "success"},
         calls[p].session \in Sessions, calls[p].pc \in {"task", "prove", "final"},
         SetStatus(p, status)
  PROVE  JobsGrow /\ \A t \in Sessions : Len(jobs'[t]) = Len(jobs[t])
  <1>1. PICK s \in Sessions : s = calls[p].session
    OBVIOUS
  <1>2. PICK n \in 1..Len(jobs[s]) : n = calls[p].job
    BY <1>1 DEF CallsOK
  <1>3. jobs \in [Sessions -> Seq(Rows)] /\ jobs[s] \in Seq(Rows) /\ jobs[s][n] \in Rows
    BY DEF CallsOK
  <1>4. PICK old \in Rows : old = jobs[s][n]
    BY <1>3
  <1>. DEFINE row == [old EXCEPT !.status = status]
  <1>5. row \in Rows /\ row.origin = old.origin
    BY DEF Rows
  <1>6. jobs' = [jobs EXCEPT ![s] = [jobs[s] EXCEPT ![n] = row]]
    BY <1>1, <1>2, <1>3, <1>4 DEF SetStatus
  <1>. HIDE DEF row
  <1>7. PICK r \in Rows : r = row
    BY <1>5
  <1>8. r.origin = jobs[s][n].origin
    BY <1>4, <1>5, <1>7
  <1>9. jobs' = [jobs EXCEPT ![s] = [jobs[s] EXCEPT ![n] = r]]
    BY <1>6, <1>7
  <1>10. /\ RowsStay /\ jobs'[s][n] = r
         /\ r.origin = jobs[s][n].origin => JobsGrow
         /\ \A t \in Sessions : Len(jobs'[t]) = Len(jobs[t])
         /\ \A t \in Sessions : t # s => jobs'[t] = jobs[t]
    BY <1>9, RowWritten
  <1>11. /\ r.origin = jobs[s][n].origin => JobsGrow
         /\ \A t \in Sessions : Len(jobs'[t]) = Len(jobs[t])
    BY <1>10
  <1>. QED
    BY <1>8, <1>11

LEMMA RowAdded ==
  ASSUME CallsOK, NEW s \in Sessions, Len(jobs[s]) + 1 <= MaxAttempts,
         jobs' = [jobs EXCEPT ![s] = Append([i \in DOMAIN @ |-> Superseded(@[i])], Running)]
  PROVE  /\ JobsGrow /\ Len(jobs'[s]) = Len(jobs[s]) + 1
         /\ \A t \in Sessions : t # s => Len(jobs'[t]) = Len(jobs[t])
  <1>1. jobs \in [Sessions -> Seq(Rows)] /\ jobs[s] \in Seq(Rows)
    BY DEF CallsOK
  <1>2. \A row \in Rows : Superseded(row) \in Rows /\ Superseded(row).origin = row.origin
    <2>1. ASSUME NEW row \in Rows
          PROVE  Superseded(row) \in Rows /\ Superseded(row).origin = row.origin
      BY DEF Superseded, Rows
    <2>. QED
      BY <2>1
  <1>3. Running \in Rows
    BY DEF Running, Rows
  <1>. DEFINE old == [i \in 1..Len(jobs[s]) |-> Superseded(jobs[s][i])]
              q == Append(old, Running)
  <1>4. /\ old \in Seq(Rows) /\ Len(old) = Len(jobs[s])
        /\ \A m \in 1..Len(jobs[s]) : old[m].origin = jobs[s][m].origin
    <2>1. \A m \in 1..Len(jobs[s]) : jobs[s][m] \in Rows
      BY <1>1
    <2>2. old \in [1..Len(jobs[s]) -> Rows] /\ Len(jobs[s]) \in Nat
      BY <1>1, <1>2, <2>1
    <2>3. old \in Seq(Rows) /\ Len(old) = Len(jobs[s])
      BY <2>2
    <2>. QED
      BY <1>2, <2>1, <2>3
  <1>5. jobs' = [jobs EXCEPT ![s] = q]
    <2>1. DOMAIN jobs[s] = 1..Len(jobs[s])
      BY <1>1
    <2>. QED
      BY <1>1, <2>1
  <1>. HIDE DEF old
  <1>6. /\ q \in Seq(Rows) /\ Len(q) = Len(jobs[s]) + 1
        /\ \A m \in 1..Len(jobs[s]) : q[m].origin = jobs[s][m].origin
    <2>1. q \in Seq(Rows) /\ Len(q) = Len(old) + 1 /\ \A m \in 1..Len(old) : q[m] = old[m]
      BY <1>3, <1>4
    <2>. QED
      BY <1>4, <2>1
  <1>. HIDE DEF q
  <1>7. jobs'[s] = q /\ \A t \in Sessions : t # s => jobs'[t] = jobs[t]
    BY <1>1, <1>5
  <1>8. jobs' \in [Sessions -> Seq(Rows)]
    BY <1>1, <1>5, <1>6
  <1>9. ASSUME NEW t \in Sessions
        PROVE  /\ Len(jobs[t]) <= Len(jobs'[t]) /\ Len(jobs'[t]) <= MaxAttempts
               /\ \A m \in 1..Len(jobs[t]) : jobs'[t][m].origin = jobs[t][m].origin
    <2>1. Len(jobs[t]) \in Nat /\ Len(jobs[t]) <= MaxAttempts
      BY <1>1 DEF CallsOK
    <2>2. CASE t = s
      BY <1>6, <1>7, <2>1, <2>2
    <2>3. CASE t # s
      BY <1>7, <2>1, <2>3
    <2>. QED
      BY <2>2, <2>3
  <1>. QED
    BY <1>6, <1>7, <1>8, <1>9 DEF JobsGrow, RowsStay

LEMMA JobsKept ==
  ASSUME CallsOK, UNCHANGED jobs
  PROVE  JobsGrow
  <1>1. jobs \in [Sessions -> Seq(Rows)] /\ \A s \in Sessions : Len(jobs[s]) <= MaxAttempts
    BY DEF CallsOK
  <1>2. \A s \in Sessions : Len(jobs[s]) \in Nat
    BY <1>1
  <1>. QED
    BY <1>1, <1>2 DEF JobsGrow, RowsStay

\* The calendar is a part of the sessions.
LEMMA CalendarFacts ==
  ASSUME Declared, activations # <<>>
  PROVE  Calendar \subseteq Sessions
  <1>1. Activation.entry \in Sessions /\ LastSession \in Nat
    BY HistoriesAssumption DEF Declared
  <1>. QED
    BY <1>1 DEF Calendar, Sessions

LEMMA CallMoves ==
  ASSUME CallsOK, RowsStay, UNCHANGED activations, Calendar \subseteq Sessions,
         NEW p \in Callers, NEW call, Goto(p, call),
         call.pc \in {"idle", "market", "task", "prove", "final"},
         call.pc # "idle" => call.session \in Calendar,
         call.pc \in {"task", "prove", "final"} => call.job \in 1..Len(jobs'[call.session])
  PROVE  /\ CallsOK' /\ calls'[p] = call
         /\ \A q \in Callers : q # p => calls'[q] = calls[q]
  <1>1. DOMAIN calls = Callers /\ Calendar' = Calendar
    BY DEF CallsOK, Calendar, Activation
  <1>2. DOMAIN calls' = Callers /\ calls'[p] = call /\ \A q \in Callers : q # p => calls'[q] = calls[q]
    BY <1>1 DEF Goto
  <1>3. ASSUME NEW q \in Callers
        PROVE  /\ calls'[q].pc \in {"idle", "market", "task", "prove", "final"}
               /\ calls'[q].pc # "idle" => calls'[q].session \in Calendar
               /\ calls'[q].pc \in {"task", "prove", "final"} =>
                    calls'[q].job \in 1..Len(jobs'[calls'[q].session])
    <2>1. CASE q = p
      BY <1>2, <2>1
    <2>2. CASE q # p
      <3>1. calls'[q] = calls[q]
        BY <1>2, <2>2
      <3>2. /\ calls[q].pc \in {"idle", "market", "task", "prove", "final"}
            /\ calls[q].pc # "idle" => calls[q].session \in Calendar
            /\ calls[q].pc \in {"task", "prove", "final"} =>
                 calls[q].job \in 1..Len(jobs[calls[q].session])
        BY DEF CallsOK
      <3>3. ASSUME calls[q].pc \in {"task", "prove", "final"}
            PROVE  calls[q].job \in 1..Len(jobs'[calls[q].session])
        <4>1. PICK s \in Sessions : s = calls[q].session
          BY <3>2, <3>3
        <4>2. Len(jobs[s]) \in Nat /\ Len(jobs'[s]) \in Nat /\ Len(jobs[s]) <= Len(jobs'[s])
          BY DEF CallsOK, RowsStay
        <4>. QED
          BY <3>2, <3>3, <4>1, <4>2
      <3>. QED
        BY <3>1, <3>2, <3>3
    <2>. QED
      BY <2>1, <2>2
  <1>4. jobs' \in [Sessions -> Seq(Rows)] /\ \A s \in Sessions : Len(jobs'[s]) <= MaxAttempts
    BY DEF RowsStay
  <1>. QED
    BY <1>1, <1>2, <1>3, <1>4 DEF CallsOK

\* Rows that only grow leave the record as it is.
LEMMA RecordKept ==
  ASSUME MarketOK, UNCHANGED marketVars, UNCHANGED <<declarations, activations, execution, captures>>,
         PaperOK, activations # <<>>, JobsGrow, CallsOK', Proving'
  PROVE  PaperOK'
  <1>1. UNCHANGED <<clock, fetched, stored, prediction>>
    BY DEF marketVars
  <1>2. Declared /\ Marks /\ Readable /\ CallsOK
    BY DEF PaperOK
  <1>3. Activation' = Activation /\ Calendar' = Calendar
    BY DEF Activation, Calendar
  <1>4. Declared'
    <2>1. ActivationProved'
      BY <1>2, <1>3 DEF Declared, ActivationProved
    <2>. QED
      BY <1>1, <1>2, <1>3, <2>1 DEF Declared
  <1>5. ASSUME NEW c \in captures
        PROVE  /\ c.job \in 1..Len(jobs'[c.session])
               /\ c.job \in DOMAIN jobs'[c.session]
               /\ jobs'[c.session][c.job].origin = jobs[c.session][c.job].origin
    <2>1. PICK s \in Sessions : s = c.session
      BY <1>2 DEF Marks
    <2>2. c.job \in 1..Len(jobs[s])
      BY <1>2, <2>1 DEF Marks
    <2>3. jobs[s] \in Seq(Rows) /\ jobs'[s] \in Seq(Rows) /\ Len(jobs[s]) <= Len(jobs'[s])
      BY <1>2 DEF CallsOK, JobsGrow, RowsStay
    <2>4. c.job \in 1..Len(jobs'[s])
      BY <2>2, <2>3
    <2>5. jobs'[s][c.job].origin = jobs[s][c.job].origin
      BY <2>2 DEF JobsGrow
    <2>. QED
      BY <2>1, <2>3, <2>4, <2>5
  <1>6. Marks'
    BY <1>1, <1>2, <1>5 DEF Marks
  <1>7. Readable'
    <2>1. ActivationProved'
      BY <1>2, <1>3 DEF Readable, ActivationProved
    <2>2. ASSUME execution # None, NEW c \in captures
          PROVE  /\ Cardinality(Captured(c.session)') = 1
                 /\ c.session \in Calendar' /\ c.made = 2 * c.session + 1
                 /\ Candidates(c.session, c.retrieval)' # {}
                 /\ Provable(c.ref, c.session, Earlier(c))'
                 /\ c.price = Closes(c.ref)'[c.session]
                 /\ OriginProved(c)'
      <3>1. /\ Cardinality(Captured(c.session)) = 1
            /\ c.session \in Calendar /\ c.made = 2 * c.session + 1
            /\ Candidates(c.session, c.retrieval) # {}
            /\ Provable(c.ref, c.session, Earlier(c))
            /\ c.price = Closes(c.ref)[c.session]
            /\ OriginProved(c)
        BY <1>2, <2>2 DEF Readable, MarkAsset
      <3>2. /\ Captured(c.session)' = Captured(c.session) /\ Closes(c.ref)' = Closes(c.ref)
            /\ Candidates(c.session, c.retrieval)' = Candidates(c.session, c.retrieval)
        BY <1>1 DEF Captured, Closes, Candidates, Visible, PeriodEnd
      <3>3. Provable(c.ref, c.session, Earlier(c))'
        BY <1>1, <1>3, <3>1 DEF Provable, PeriodEnd, Closes, Known, Agrees, Earlier
      <3>4. OriginProved(c)'
        BY <1>3, <1>5, <3>1 DEF OriginProved
      <3>. QED
        BY <1>3, <3>1, <3>2, <3>3, <3>4
    <2>3. execution # None => \E c \in captures' : c.session = Activation'.entry
      BY <1>2, <1>3 DEF Readable
    <2>4. execution' = None => captures' = {}
      BY <1>2 DEF Readable
    <2>. QED
      BY <2>1, <2>2, <2>3, <2>4 DEF Readable, MarkAsset
  <1>8. BeforeActivation'
    BY DEF BeforeActivation
  <1>. QED
    BY <1>4, <1>6, <1>7, <1>8 DEF PaperOK

LEMMA AtWork ==
  ASSUME PaperOK, NEW p \in Callers, calls[p].pc # "idle"
  PROVE  /\ activations # <<>> /\ Calendar \subseteq Sessions
         /\ calls[p].session \in Calendar /\ calls[p].session \in Sessions
  <1>1. activations # <<>>
    BY DEF PaperOK, BeforeActivation
  <1>2. Calendar \subseteq Sessions
    BY <1>1, CalendarFacts DEF PaperOK
  <1>3. calls[p].session \in Calendar
    BY DEF PaperOK, CallsOK
  <1>. QED
    BY <1>1, <1>2, <1>3

LEMMA ProvingKept ==
  ASSUME Proving, UNCHANGED <<captures, execution, activations>>, NEW p \in Callers,
         calls'[p].pc # "prove", \A q \in Callers : q # p => calls'[q] = calls[q]
  PROVE  Proving'
  <1>2. Activation' = Activation
    BY DEF Activation
  <1>3. ASSUME NEW q \in Callers, calls'[q].pc = "prove"
        PROVE  /\ \A r \in Callers : calls'[r].pc = "prove" => r = q
               /\ {c \in captures : c.session = calls'[q].session} = {}
               /\ execution' # None \/ calls'[q].session = Activation'.entry
    <2>1. q # p /\ calls'[q] = calls[q]
      BY <1>3
    <2>2. /\ \A r \in Callers : calls[r].pc = "prove" => r = q
          /\ {c \in captures : c.session = calls[q].session} = {}
          /\ execution # None \/ calls[q].session = Activation.entry
      BY <1>3, <2>1 DEF Proving, Captured
    <2>3. \A r \in Callers : calls'[r].pc = "prove" => r = q
      BY <2>2
    <2>. QED
      BY <1>2, <2>1, <2>2, <2>3
  <1>. QED
    BY <1>3 DEF Proving, Captured

\* A caller moves on, and no row changes.
LEMMA Moved ==
  ASSUME MarketOK, UNCHANGED marketVars, UNCHANGED <<declarations, activations, execution, captures>>,
         PaperOK, activations # <<>>, JobsGrow, NEW p \in Callers, NEW call, Goto(p, call),
         call.pc \in {"idle", "market", "task", "final"},
         call.pc # "idle" => call.session \in Calendar,
         call.pc \in {"task", "final"} => call.job \in 1..Len(jobs'[call.session])
  PROVE  PaperOK'
  <1>1. CallsOK /\ Proving /\ Declared
    BY DEF PaperOK
  <1>2. Calendar \subseteq Sessions
    BY <1>1, CalendarFacts
  <1>3. /\ CallsOK' /\ calls'[p] = call
        /\ \A q \in Callers : q # p => calls'[q] = calls[q]
    BY <1>1, <1>2, CallMoves DEF JobsGrow
  <1>4. Proving'
    BY <1>1, <1>3, ProvingKept
  <1>. QED
    BY <1>3, <1>4, RecordKept

LEMMA RefreshPaper ==
  ASSUME MarketOK, UNCHANGED marketVars, PaperOK, NEW p \in Callers, Refresh(p)
  PROVE  PaperOK'
  <1>1. /\ activations # <<>> /\ ~Settled(Closed)
        /\ UNCHANGED <<declarations, activations, execution, captures, jobs>>
        /\ Goto(p, [pc |-> "market", session |-> Closed])
    BY DEF Refresh
  <1>2. Closed \in Calendar
    BY <1>1 DEF Settled
  <1>3. JobsGrow
    BY <1>1, JobsKept DEF PaperOK
  <1>4. PICK call : call = [pc |-> "market", session |-> Closed]
    OBVIOUS
  <1>5. call.pc = "market" /\ call.session \in Calendar /\ Goto(p, call)
    BY <1>1, <1>2, <1>4
  <1>. QED
    BY <1>1, <1>3, <1>5, Moved

LEMMA ToIdle ==
  ASSUME MarketOK, UNCHANGED marketVars, UNCHANGED <<declarations, activations, execution, captures>>,
         PaperOK, NEW p \in Callers, calls[p].pc # "idle", JobsGrow, Goto(p, Idle)
  PROVE  PaperOK'
  <1>1. activations # <<>>
    BY AtWork
  <1>2. PICK call : call = Idle
    OBVIOUS
  <1>3. call.pc = "idle" /\ Goto(p, call)
    BY <1>2 DEF Idle
  <1>. QED
    BY <1>1, <1>3, Moved

LEMMA AfterMarketPaper ==
  ASSUME MarketOK, UNCHANGED marketVars, PaperOK, NEW p \in Callers, AfterMarket(p)
  PROVE  PaperOK'
  <1>1. /\ calls[p].pc # "idle" /\ Goto(p, Idle)
        /\ UNCHANGED <<declarations, activations, execution, captures, jobs>>
    BY DEF AfterMarket, At
  <1>2. JobsGrow
    BY <1>1, JobsKept DEF PaperOK
  <1>. QED
    BY <1>1, <1>2, ToIdle

LEMMA AttemptPaper ==
  ASSUME MarketOK, UNCHANGED marketVars, PaperOK, NEW p \in Callers, NEW s \in Sessions,
         Attempt(p, s)
  PROVE  PaperOK'
  <1>. DEFINE n == Len(jobs[s]) + 1
  <1>1. /\ activations # <<>> /\ ~Settled(s)
        /\ UNCHANGED <<declarations, activations, execution, captures>>
        /\ jobs' = [jobs EXCEPT ![s] = Append([i \in DOMAIN @ |-> Superseded(@[i])], Running)]
        /\ Goto(p, [pc |-> "task", session |-> s, job |-> n])
    BY DEF Attempt
  <1>2. JobsGrow /\ Len(jobs'[s]) = Len(jobs[s]) + 1
    <2>1. Len(jobs[s]) + 1 <= MaxAttempts
      BY DEF Attempt
    <2>. QED
      BY <1>1, <2>1, RowAdded DEF PaperOK
  <1>3. s \in Calendar /\ Len(jobs[s]) \in Nat
    BY <1>1 DEF Settled, PaperOK, CallsOK
  <1>4. PICK call : call = [pc |-> "task", session |-> s, job |-> n]
    OBVIOUS
  <1>5. n \in 1..Len(jobs'[s])
    BY <1>2, <1>3
  <1>6. /\ call.pc = "task" /\ call.session \in Calendar /\ Goto(p, call)
        /\ call.job \in 1..Len(jobs'[call.session])
    BY <1>1, <1>3, <1>4, <1>5
  <1>. QED
    BY <1>1, <1>2, <1>6, Moved

LEMMA TakeCutoffPaper ==
  ASSUME MarketOK, UNCHANGED marketVars, PaperOK, NEW p \in Callers, TakeCutoff(p)
  PROVE  PaperOK'
  <1>1. /\ calls[p].pc = "task" /\ ~OwnerLocked /\ MayCapture(calls[p].session)
        /\ UNCHANGED <<declarations, activations, execution, captures, jobs>>
        /\ Goto(p, [pc |-> "prove", session |-> calls[p].session, job |-> calls[p].job,
                    cutoff |-> Retrieved])
    BY DEF TakeCutoff, At
  <1>2. CallsOK /\ Proving
    BY DEF PaperOK
  <1>3. /\ activations # <<>> /\ Calendar \subseteq Sessions
        /\ calls[p].session \in Calendar /\ calls[p].job \in 1..Len(jobs[calls[p].session])
    BY <1>1, AtWork DEF PaperOK, CallsOK
  <1>4. JobsGrow
    BY <1>1, <1>2, JobsKept
  <1>5. PICK call : call = [pc |-> "prove", session |-> calls[p].session, job |-> calls[p].job,
                            cutoff |-> Retrieved]
    OBVIOUS
  <1>6. /\ call.pc = "prove" /\ call.session = calls[p].session /\ call.job = calls[p].job
        /\ Goto(p, call)
    BY <1>1, <1>5
  <1>7. /\ CallsOK' /\ calls'[p] = call
        /\ \A q \in Callers : q # p => calls'[q] = calls[q]
    BY <1>1, <1>2, <1>3, <1>4, <1>6, CallMoves DEF JobsGrow
  <1>8. Proving'
    <2>1. \A q \in Callers : calls[q].pc # "prove"
      BY <1>1 DEF OwnerLocked, At
    <2>2. \A q \in Callers : calls'[q].pc = "prove" => q = p
      BY <1>7, <2>1
    <2>3. /\ {c \in captures' : c.session = call.session} = {}
          /\ execution' # None \/ call.session = Activation'.entry
      BY <1>1, <1>6 DEF MayCapture, Captured, Activation
    <2>. QED
      BY <1>6, <1>7, <2>2, <2>3 DEF Proving, Captured
  <1>. QED
    BY <1>1, <1>3, <1>4, <1>7, <1>8, RecordKept

LEMMA WithholdPaper ==
  ASSUME MarketOK, UNCHANGED marketVars, PaperOK, NEW p \in Callers, Withhold(p)
  PROVE  PaperOK'
  <1>1. /\ calls[p].pc \in {"task", "prove"} /\ SetStatus(p, "failed") /\ Goto(p, Idle)
        /\ UNCHANGED <<declarations, activations, execution, captures>>
    BY DEF Withhold, At
  <1>2. JobsGrow
    BY <1>1, AtWork, StatusSet DEF PaperOK
  <1>. QED
    BY <1>1, <1>2, ToIdle

LEMMA FinishPaper ==
  ASSUME MarketOK, UNCHANGED marketVars, PaperOK, NEW p \in Callers, Finish(p)
  PROVE  PaperOK'
  <1>1. /\ calls[p].pc = "final" /\ SetStatus(p, "success") /\ Goto(p, Idle)
        /\ UNCHANGED <<declarations, activations, execution, captures>>
    BY DEF Finish, At
  <1>2. JobsGrow
    BY <1>1, AtWork, StatusSet DEF PaperOK
  <1>. QED
    BY <1>1, <1>2, ToIdle

LEMMA DiePaper ==
  ASSUME MarketOK, UNCHANGED marketVars, PaperOK, NEW p \in Callers, Die(p)
  PROVE  PaperOK'
  <1>1. /\ calls[p].pc # "idle" /\ Goto(p, Idle)
        /\ UNCHANGED <<declarations, activations, execution, captures, jobs>>
    BY DEF Die, At
  <1>2. JobsGrow
    BY <1>1, JobsKept DEF PaperOK
  <1>. QED
    BY <1>1, <1>2, ToIdle

-----------------------------------------------------------------------------
(* The paper record: what is published *)

LEMMA DeclarePaper ==
  ASSUME MarketOK, UNCHANGED marketVars, PaperOK, Declare
  PROVE  PaperOK'
  <1>1. /\ declarations = <<>> /\ declarations' = Append(<<>>, clock)
        /\ UNCHANGED <<activations, execution, captures, jobs, calls>>
    BY DEF Declare, Undeclared
  <1>2. activations = <<>>
    BY <1>1 DEF PaperOK, Declared, ActivationProved
  <1>3. captures = {} /\ execution = None /\ \A p \in Callers : calls[p].pc = "idle"
    BY <1>2 DEF PaperOK, BeforeActivation
  <1>4. clock \in Nat /\ clock' = clock
    BY DEF MarketOK, marketVars
  <1>5. /\ Len(declarations') = 1 /\ declarations' \in Seq(Nat)
        /\ declarations'[1] = clock
    <2>1. <<>> \in Seq(Nat)
      OBVIOUS
    <2>2. declarations' \in Seq(Nat)
      BY <1>1, <1>4, <2>1
    <2>. QED
      BY <1>1, <2>2, One
  <1>6. Declared'
    <2>1. Len(activations) <= 1
      BY DEF PaperOK, Declared
    <2>. QED
      BY <1>1, <1>2, <1>4, <1>5, <2>1 DEF Declared
  <1>7. BeforeActivation' /\ Proving' /\ Marks'
    BY <1>1, <1>3 DEF BeforeActivation, Proving, Marks
  <1>8. CallsOK'
    BY <1>1, <1>3 DEF PaperOK, CallsOK
  <1>. QED
    BY <1>1, <1>2, <1>6, <1>7, <1>8 DEF PaperOK

LEMMA ActivatePaper ==
  ASSUME MarketOK, UNCHANGED marketVars, PaperOK, Activate
  PROVE  PaperOK'
  <1>1. /\ activations = <<>> /\ Len(declarations) = 1 /\ prediction # None
        /\ UNCHANGED <<declarations, execution, captures, jobs, calls>>
    BY DEF Activate
  <1>2. PICK date \in {Closed, Closed + 1} :
          /\ date < LastSession
          /\ activations' = Append(activations, [entry |-> date + 1, made |-> clock,
                                                source |-> prediction.source])
    BY DEF Activate
  <1>3. captures = {} /\ execution = None /\ \A p \in Callers : calls[p].pc = "idle"
    BY <1>1 DEF PaperOK, BeforeActivation
  <1>4. /\ clock \in Nat /\ clock' = clock /\ fetched' = fetched
        /\ prediction.source \in stored /\ prediction.source \in 1..Len(fetched)
    <2>1. /\ clock \in Nat /\ prediction.source \in stored
          /\ \A i \in stored : i \in 1..Len(fetched)
      BY <1>1 DEF MarketOK
    <2>. QED
      BY <2>1 DEF marketVars
  <1>5. Closed \in Sessions
    BY <1>4, ClosedOnce
  <1>6. date + 1 \in Sessions
    <2>1. LastSession \in Nat /\ Closed \in Nat
      BY <1>5, HistoriesAssumption DEF Sessions
    <2>. QED
      BY <1>2, <2>1 DEF Sessions
  <1>. DEFINE a == [entry |-> date + 1, made |-> clock, source |-> prediction.source]
  <1>7. a.entry \in Sessions /\ a.made = clock /\ a.source \in 1..Len(fetched)
    BY <1>4, <1>6
  <1>8. activations' = Append(<<>>, a)
    BY <1>1, <1>2
  <1>. HIDE DEF a
  <1>9. Len(activations') = 1 /\ activations' # <<>> /\ Activation' = a
    BY <1>8, One DEF Activation
  <1>10. declarations[1] <= clock
    <2>1. declarations # <<>>
      BY <1>1
    <2>. QED
      BY <2>1 DEF PaperOK, Declared
  <1>11. ActivationProved'
    BY <1>1, <1>7, <1>9, <1>10 DEF ActivationProved
  <1>12. Declared'
    <2>1. declarations' \in Seq(Nat) /\ Len(declarations') <= 1 /\ declarations'[1] <= clock'
      BY <1>1, <1>4, <1>10 DEF PaperOK, Declared
    <2>2. Len(activations') <= 1
      BY <1>9
    <2>3. Activation'.entry \in Sessions /\ Activation'.source \in 1..Len(fetched')
      BY <1>4, <1>7, <1>9
    <2>. QED
      BY <1>11, <2>1, <2>2, <2>3 DEF Declared
  <1>13. BeforeActivation' /\ Proving' /\ Marks'
    BY <1>1, <1>3, <1>9 DEF BeforeActivation, Proving, Marks
  <1>14. CallsOK'
    BY <1>1, <1>3 DEF PaperOK, CallsOK
  <1>15. Readable'
    BY <1>1, <1>3, <1>11 DEF Readable
  <1>. QED
    BY <1>12, <1>13, <1>14, <1>15 DEF PaperOK

\* What the mark of a publication is, and when it is made.
LEMMA MarkMade ==
  ASSUME MarketOK, PaperOK, NEW p \in Callers, Publish(p), NEW s, s = calls[p].session,
         NEW ref, ref = Max(Candidates(s, calls[p].cutoff))
  PROVE  /\ s \in Sessions /\ s \in Calendar /\ clock = 2 * s + 1
         /\ calls[p].job \in 1..Len(jobs[s])
         /\ ref \in stored /\ ref \in 1..Len(fetched) /\ PeriodEnd(ref) = s
         /\ Provable(ref, s, captures)
         /\ Captured(s) = {} /\ (execution # None \/ s = Activation.entry)
         /\ \A q \in Callers : q # p => calls[q].pc # "prove"
         /\ \A d \in captures : d.session < s
  <1>1. calls[p].pc = "prove" /\ Proved(p)
    BY DEF Publish, At
  <1>2. s \in Calendar /\ s \in Sessions
    BY <1>1, AtWork
  <1>3. calls[p].job \in 1..Len(jobs[s])
    BY <1>1 DEF PaperOK, CallsOK
  <1>4. /\ clock = 2 * s + 1 /\ Candidates(s, calls[p].cutoff) # {}
        /\ Provable(ref, s, captures)
    BY <1>1 DEF Proved, InWindow
  <1>5. ref \in Candidates(s, calls[p].cutoff)
    <2>1. Candidates(s, calls[p].cutoff) \in SUBSET Visible(calls[p].cutoff)
      BY DEF Candidates
    <2>2. Visible(calls[p].cutoff) \in SUBSET (0..Len(fetched)) /\ Len(fetched) \in Nat
      BY VisibleFacts DEF MarketOK
    <2>3. Candidates(s, calls[p].cutoff) \in SUBSET (0..Len(fetched))
      BY <2>1, <2>2
    <2>. QED
      BY <1>4, <2>2, <2>3, Extremes
  <1>6. ref \in stored /\ ref \in 1..Len(fetched) /\ PeriodEnd(ref) = s
    BY <1>5 DEF Candidates, Visible, MarketOK
  <1>7. /\ Captured(s) = {} /\ (execution # None \/ s = Activation.entry)
        /\ \A q \in Callers : q # p => calls[q].pc # "prove"
    BY <1>1 DEF PaperOK, Proving
  <1>8. ASSUME NEW d \in captures
        PROVE  d.session < s
    <2>1. d.session \in Sessions /\ d.made = 2 * d.session + 1 /\ d.made <= clock
      BY DEF PaperOK, Marks
    <2>2. d.session # s
      BY <1>7 DEF Captured
    <2>3. d.session \in Nat /\ s \in Nat
      BY <1>2, <2>1 DEF Sessions
    <2>. QED
      BY <1>4, <2>1, <2>2, <2>3
  <1>. QED
    BY <1>2, <1>3, <1>4, <1>6, <1>7, <1>8

\* The execution that a first mark publishes is one.
LEMMA ExecutionMade ==
  ASSUME MarketOK, PaperOK, NEW s \in Sessions, NEW j \in 1..Len(jobs[s]),
         NEW ref \in 1..Len(fetched), NEW r \in 1..Len(fetched), 0..s \subseteq DOMAIN Closes(ref)
  PROVE  /\ None # [job |-> j, retrieval |-> r, reference |-> Restrict(Closes(ref), 0..s)]
         /\ \A d \in 0..s : Restrict(Closes(ref), 0..s)[d] = Closes(ref)[d]
         /\ DOMAIN Restrict(Closes(ref), 0..s) = 0..s
  <1>1. fetched[ref] \in Told /\ Len(fetched) <= MaxVintages /\ Len(fetched) \in Nat
    BY DEF MarketOK
  <1>2. PICK h \in Histories, d \in Sessions :
          fetched[ref] = [closes |-> Restrict(h, DOMAIN h \cap (0..d)), day |-> d]
    BY <1>1, ToldShape
  <1>3. Closes(ref) = [x \in DOMAIN h \cap (0..d) |-> h[x]]
    BY <1>2 DEF Closes, Restrict
  <1>4. DOMAIN h \cap (0..s) = 0..s /\ \A x \in 0..s : Closes(ref)[x] = h[x]
    BY <1>3
  <1>5. Restrict(Closes(ref), 0..s) = Restrict(h, DOMAIN h \cap (0..s))
    BY <1>4 DEF Restrict
  <1>6. j \in 1..MaxAttempts /\ r \in 1..MaxVintages
    <2>1. jobs[s] \in Seq(Rows) /\ Len(jobs[s]) <= MaxAttempts
      BY DEF PaperOK, CallsOK
    <2>2. Len(jobs[s]) \in Nat /\ MaxAttempts \in Nat /\ MaxVintages \in Nat
      BY <2>1, PaperAssumption, HistoriesAssumption
    <2>. QED
      BY <1>1, <2>1, <2>2
  <1>7. None # [job |-> j, retrieval |-> r, reference |-> Restrict(h, DOMAIN h \cap (0..s))]
    BY <1>6, PaperAssumption
  <1>. QED
    BY <1>5, <1>7 DEF Restrict

\* The state after a publication: the mark c of session s, by job j from retrieval ref.
Published(s, j, ref, c) ==
  /\ c.session = s /\ c.job = j /\ c.made = clock /\ c.retrieval = Len(fetched)
  /\ c.ref = ref /\ c.price = Closes(ref)[s]
  /\ captures' = captures \cup {c}
  /\ IF execution # None THEN execution' = execution
     ELSE execution' = [job |-> j, retrieval |-> Len(fetched),
                        reference |-> Restrict(Closes(ref), 0..s)]
  /\ RowsStay
  /\ jobs'[s][j].origin = <<s, ref, Len(fetched)>>
  /\ \A t \in Sessions : Len(jobs'[t]) = Len(jobs[t])
  /\ \A t \in Sessions : t # s => jobs'[t] = jobs[t]
  /\ UNCHANGED <<declarations, activations>>

\* How it was reached.
Marking(s, j, ref) ==
  /\ s \in Sessions /\ s \in Calendar /\ clock = 2 * s + 1
  /\ j \in 1..Len(jobs[s])
  /\ ref \in stored /\ ref \in 1..Len(fetched) /\ PeriodEnd(ref) = s
  /\ Provable(ref, s, captures)
  /\ Captured(s) = {} /\ (execution # None \/ s = Activation.entry)
  /\ \A d \in captures : d.session < s

LEMMA PublishShape ==
  ASSUME MarketOK, UNCHANGED marketVars, PaperOK, NEW p \in Callers, Publish(p)
  PROVE  \E s, j, ref, c : Marking(s, j, ref) /\ Published(s, j, ref, c) /\ CallsOK' /\ Proving'
  <1>1. PICK s : s = calls[p].session
    OBVIOUS
  <1>2. PICK ref : ref = Max(Candidates(s, calls[p].cutoff))
    OBVIOUS
  <1>3. PICK j : j = calls[p].job
    OBVIOUS
  <1>4. /\ s \in Sessions /\ s \in Calendar /\ clock = 2 * s + 1
        /\ calls[p].job \in 1..Len(jobs[s])
        /\ ref \in stored /\ ref \in 1..Len(fetched) /\ PeriodEnd(ref) = s
        /\ Provable(ref, s, captures)
        /\ Captured(s) = {} /\ (execution # None \/ s = Activation.entry)
        /\ \A q \in Callers : q # p => calls[q].pc # "prove"
        /\ \A d \in captures : d.session < s
    BY <1>1, <1>2, MarkMade
  <1>. DEFINE m == [session |-> s, job |-> j, made |-> clock, retrieval |-> Retrieved,
                    ref |-> ref, price |-> Closes(ref)[s]]
              b == Binding(m)
  <1>5. /\ captures' = captures \cup {m}
        /\ IF execution # None THEN execution' = execution
           ELSE execution' = [job |-> j, retrieval |-> Len(fetched),
                              reference |-> Restrict(Closes(ref), 0..s)]
        /\ jobs' = [jobs EXCEPT ![s][j].origin = b]
        /\ Goto(p, [pc |-> "final", session |-> s, job |-> j])
        /\ UNCHANGED <<declarations, activations>>
    BY <1>1, <1>2, <1>3 DEF Publish, Retrieved
  <1>6. /\ m.session = s /\ m.job = j /\ m.made = clock /\ m.retrieval = Len(fetched)
        /\ m.ref = ref /\ m.price = Closes(ref)[s] /\ b = <<s, ref, Len(fetched)>>
    BY DEF Retrieved, Binding
  <1>. HIDE DEF m, b
  <1>7. j \in 1..Len(jobs[s]) /\ Len(fetched) \in Nat /\ ref \in Nat
    <2>1. Len(fetched) \in Nat
      BY DEF MarketOK
    <2>. QED
      BY <1>3, <1>4, <2>1
  <1>8. CallsOK /\ jobs \in [Sessions -> Seq(Rows)] /\ jobs[s] \in Seq(Rows) /\ jobs[s][j] \in Rows
    BY <1>4, <1>7 DEF PaperOK, CallsOK
  <1>9. PICK old \in Rows : old = jobs[s][j]
    BY <1>8
  <1>10. b \in Sessions \X Nat \X Nat
    BY <1>4, <1>6, <1>7
  <1>. DEFINE row == [old EXCEPT !.origin = b]
  <1>11. row \in Rows /\ row.origin = b
    BY <1>10 DEF Rows
  <1>12. jobs' = [jobs EXCEPT ![s] = [jobs[s] EXCEPT ![j] = row]]
    BY <1>4, <1>5, <1>7, <1>8, <1>9
  <1>. HIDE DEF row
  <1>13. PICK r \in Rows : r = row
    BY <1>11
  <1>14. jobs' = [jobs EXCEPT ![s] = [jobs[s] EXCEPT ![j] = r]]
    BY <1>12, <1>13
  <1>15. /\ RowsStay /\ jobs'[s][j] = r
         /\ r.origin = jobs[s][j].origin => JobsGrow
         /\ \A t \in Sessions : Len(jobs'[t]) = Len(jobs[t])
         /\ \A t \in Sessions : t # s => jobs'[t] = jobs[t]
    <2>1. s \in Sessions /\ j \in 1..Len(jobs[s]) /\ CallsOK
      BY <1>4, <1>7, <1>8
    <2>. QED
      BY <1>14, <2>1, RowWritten
  <1>16. jobs'[s][j].origin = <<s, ref, Len(fetched)>>
    BY <1>6, <1>11, <1>13, <1>15
  <1>17. PICK call : call = [pc |-> "final", session |-> s, job |-> j]
    OBVIOUS
  <1>18. /\ call.pc = "final" /\ call.session \in Calendar
         /\ call.job \in 1..Len(jobs'[call.session]) /\ Goto(p, call)
    <2>1. Len(jobs'[s]) = Len(jobs[s])
      BY <1>4, <1>15
    <2>. QED
      BY <1>4, <1>5, <1>7, <1>17, <2>1
  <1>19. Calendar \subseteq Sessions
    <2>1. calls[p].pc = "prove"
      BY DEF Publish, At
    <2>. QED
      BY <2>1, AtWork
  <1>20. /\ CallsOK' /\ calls'[p] = call
         /\ \A q \in Callers : q # p => calls'[q] = calls[q]
    <2>1. UNCHANGED activations
      BY <1>5
    <2>. QED
      BY <1>8, <1>15, <1>18, <1>19, <2>1, CallMoves
  <1>21. Proving'
    <2>1. \A q \in Callers : calls'[q].pc # "prove"
      BY <1>4, <1>18, <1>20
    <2>. QED
      BY <2>1 DEF Proving
  <1>22. Marking(s, j, ref)
    BY <1>4, <1>7 DEF Marking
  <1>23. Published(s, j, ref, m)
    BY <1>5, <1>6, <1>15, <1>16 DEF Published
  <1>. QED
    BY <1>20, <1>21, <1>22, <1>23

LEMMA PublishedMarks ==
  ASSUME MarketOK, UNCHANGED marketVars, PaperOK, NEW s, NEW j, NEW ref, NEW c,
         Marking(s, j, ref), Published(s, j, ref, c)
  PROVE  /\ Marks'
         /\ \A d \in captures : Earlier(d)' = Earlier(d) /\ Captured(d.session)' = Captured(d.session)
         /\ Earlier(c)' = captures /\ Captured(s)' = {c}
  <1>1. UNCHANGED <<clock, fetched, stored, prediction>>
    BY DEF marketVars
  <1>2. /\ s \in Sessions /\ s \in Nat /\ clock = 2 * s + 1 /\ j \in 1..Len(jobs[s])
        /\ ref \in 1..Len(fetched) /\ Len(fetched) \in 1..Len(fetched)
    BY DEF Marking, Sessions, MarketOK
  <1>3. /\ c.session = s /\ c.job = j /\ c.made = clock /\ c.retrieval = Len(fetched)
        /\ c.ref = ref /\ captures' = captures \cup {c}
        /\ \A t \in Sessions : Len(jobs'[t]) = Len(jobs[t])
    BY DEF Published
  <1>4. \A d \in captures : d.session \in Nat /\ d.session < s
    BY DEF Marking, PaperOK, Marks, Sessions
  <1>5. ASSUME NEW d \in captures'
        PROVE  /\ d.session \in Sessions /\ d.made = 2 * d.session + 1 /\ d.made <= clock
               /\ d.ref \in 1..Len(fetched) /\ d.retrieval \in 1..Len(fetched)
               /\ d.job \in 1..Len(jobs'[d.session])
               /\ \A e \in captures' : e.session = d.session => e = d
    <2>1. CASE d = c
      <3>1. \A e \in captures' : e.session = d.session => e = d
        BY <1>2, <1>3, <1>4, <2>1
      <3>. QED
        BY <1>2, <1>3, <2>1, <3>1
    <2>2. CASE d \in captures
      <3>1. /\ d.session \in Sessions /\ d.made = 2 * d.session + 1 /\ d.made <= clock
            /\ d.ref \in 1..Len(fetched) /\ d.retrieval \in 1..Len(fetched)
            /\ d.job \in 1..Len(jobs[d.session])
            /\ \A e \in captures : e.session = d.session => e = d
        BY <2>2 DEF PaperOK, Marks
      <3>2. d.session # s
        BY <1>2, <1>4, <2>2
      <3>. QED
        BY <1>3, <3>1, <3>2
    <2>. QED
      BY <1>3, <2>1, <2>2
  <1>6. Marks'
    BY <1>1, <1>5 DEF Marks
  <1>7. ASSUME NEW d \in captures
        PROVE  Earlier(d)' = Earlier(d) /\ Captured(d.session)' = Captured(d.session)
    <2>1. ~(c.session < d.session) /\ c.session # d.session
      BY <1>2, <1>3, <1>4
    <2>. QED
      BY <1>3, <2>1 DEF Earlier, Captured
  <1>8. Earlier(c)' = captures
    <2>1. ~(c.session < c.session) /\ \A d \in captures : d.session < c.session
      BY <1>2, <1>3, <1>4
    <2>. QED
      BY <1>3, <2>1 DEF Earlier
  <1>9. Captured(s)' = {c}
    <2>1. \A d \in captures : d.session # s
      BY <1>2, <1>4
    <2>. QED
      BY <1>3, <2>1 DEF Captured
  <1>. QED
    BY <1>6, <1>7, <1>8, <1>9

LEMMA PublishedReadable ==
  ASSUME MarketOK, UNCHANGED marketVars, PaperOK, NEW s, NEW j, NEW ref, NEW c,
         Marking(s, j, ref), Published(s, j, ref, c), activations # <<>>
  PROVE  Readable'
  <1>1. UNCHANGED <<clock, fetched, stored, prediction, declarations, activations>>
    BY DEF marketVars, Published
  <1>2. Activation' = Activation /\ Calendar' = Calendar
    BY <1>1 DEF Activation, Calendar
  <1>3. Readable /\ Marks /\ Declared
    BY DEF PaperOK
  <1>4. ActivationProved'
    BY <1>1, <1>2, <1>3 DEF Readable, ActivationProved
  <1>5. /\ c.session = s /\ c.job = j /\ c.made = clock /\ c.retrieval = Len(fetched)
        /\ c.ref = ref /\ c.price = Closes(ref)[s] /\ captures' = captures \cup {c}
        /\ jobs'[s][j].origin = <<s, ref, Len(fetched)>>
        /\ \A t \in Sessions : t # s => jobs'[t] = jobs[t]
        /\ jobs' \in [Sessions -> Seq(Rows)] /\ Len(jobs'[s]) = Len(jobs[s])
    BY DEF Published, Marking, RowsStay
  <1>6. /\ s \in Sessions /\ s \in Nat /\ s \in Calendar /\ clock = 2 * s + 1
        /\ j \in 1..Len(jobs[s]) /\ ref \in stored /\ ref \in 1..Len(fetched)
        /\ PeriodEnd(ref) = s /\ Provable(ref, s, captures)
    BY DEF Marking, Sessions
  <1>7. /\ \A d \in captures : Earlier(d)' = Earlier(d) /\ Captured(d.session)' = Captured(d.session)
        /\ Earlier(c)' = captures /\ Captured(s)' = {c}
    BY PublishedMarks
  <1>8. /\ \A i : Closes(i)' = Closes(i) /\ PeriodEnd(i)' = PeriodEnd(i)
        /\ \A t, r : Candidates(t, r)' = Candidates(t, r)
    BY <1>1 DEF Closes, PeriodEnd, Candidates, Visible
  <1>9. execution # None => execution' = execution
    BY DEF Published
  <1>10. Len(fetched) \in 1..Len(fetched)
    BY <1>6 DEF MarketOK
  <1>11. ASSUME execution = None
         PROVE  /\ execution' # None /\ execution'.job = j /\ execution'.retrieval = Len(fetched)
                /\ \A d \in DOMAIN execution'.reference : Closes(ref)[d] = execution'.reference[d]
    <2>1. execution' = [job |-> j, retrieval |-> Len(fetched),
                        reference |-> Restrict(Closes(ref), 0..s)]
      BY <1>11 DEF Published
    <2>2. 0..s \subseteq DOMAIN Closes(ref)
      BY <1>6 DEF Provable
    <2>3. /\ None # [job |-> j, retrieval |-> Len(fetched), reference |-> Restrict(Closes(ref), 0..s)]
          /\ \A d \in 0..s : Restrict(Closes(ref), 0..s)[d] = Closes(ref)[d]
          /\ DOMAIN Restrict(Closes(ref), 0..s) = 0..s
      BY <1>6, <1>10, <2>2, ExecutionMade
    <2>. QED
      BY <2>1, <2>3
  <1>12. execution' # None
    BY <1>9, <1>11
  \* The marks there were.
  <1>13. ASSUME NEW d \in captures
         PROVE  /\ Cardinality(Captured(d.session)') = 1
                /\ d.session \in Calendar /\ d.made = 2 * d.session + 1
                /\ Candidates(d.session, d.retrieval)' # {}
                /\ Provable(d.ref, d.session, Earlier(d))'
                /\ d.price = Closes(d.ref)'[d.session]
                /\ OriginProved(d)'
    <2>1. execution # None /\ execution' = execution
      BY <1>3, <1>9 DEF Readable
    <2>2. /\ Cardinality(Captured(d.session)) = 1
          /\ d.session \in Calendar /\ d.made = 2 * d.session + 1
          /\ Candidates(d.session, d.retrieval) # {}
          /\ Provable(d.ref, d.session, Earlier(d))
          /\ d.price = Closes(d.ref)[d.session]
          /\ OriginProved(d)
      BY <1>3, <2>1 DEF Readable, MarkAsset
    <2>3. Provable(d.ref, d.session, Earlier(d))'
      BY <1>2, <1>7, <1>8, <2>1, <2>2 DEF Provable, Known, Agrees
    <2>4. OriginProved(d)'
      <3>1. d.session \in Sessions /\ d.session # s
        BY <1>3, <1>6 DEF Marks, Marking, Captured
      <3>2. jobs'[d.session] = jobs[d.session]
        BY <1>5, <3>1
      <3>. QED
        BY <1>2, <2>1, <2>2, <3>2 DEF OriginProved
    <2>. QED
      BY <1>7, <1>8, <2>2, <2>3, <2>4
  \* The new one.
  <1>14. /\ Cardinality(Captured(c.session)') = 1
         /\ c.session \in Calendar /\ c.made = 2 * c.session + 1
         /\ Candidates(c.session, c.retrieval)' # {}
         /\ Provable(c.ref, c.session, Earlier(c))'
         /\ c.price = Closes(c.ref)'[c.session]
         /\ OriginProved(c)'
    <2>1. Cardinality({c}) = 1
      BY FS_Singleton
    <2>2. Candidates(s, Len(fetched)) # {}
      BY <1>6, <1>10 DEF Candidates, Visible
    <2>0. PICK E : E = captures
      OBVIOUS
    <2>3. Provable(ref, s, E)'
      <3>1. execution' # None =>
              \A d \in DOMAIN execution'.reference : Closes(ref)[d] = execution'.reference[d]
        BY <1>6, <1>9, <1>11 DEF Provable
      <3>2. /\ PeriodEnd(ref) = s /\ 0..s \subseteq DOMAIN Closes(ref)
            /\ \A k \in {Activation.source} \cup {e.ref : e \in E} : Agrees(ref, k)
            /\ \A e \in E : Closes(ref)[e.session] = e.price
        BY <1>6, <2>0 DEF Provable, Known
      <3>3. \A k : Agrees(ref, k)' = Agrees(ref, k)
        BY <1>8 DEF Agrees
      <3>. QED
        BY <1>2, <1>8, <3>1, <3>2, <3>3 DEF Provable, Known
    <2>4. OriginProved(c)'
      <3>1. c.job \in DOMAIN jobs'[c.session]
        BY <1>5, <1>6
      <3>2. jobs'[c.session][c.job].origin = <<c.session, c.ref, c.retrieval>>
        BY <1>5
      <3>3. c.session = Activation.entry => execution'.job = c.job /\ execution'.retrieval = c.retrieval
        <4>1. CASE execution = None
          BY <1>5, <1>11, <4>1
        <4>2. CASE execution # None
          <5>1. \E d \in captures : d.session = Activation.entry
            BY <1>3, <4>2 DEF Readable
          <5>2. Activation.entry # s
            BY <5>1 DEF Marking, Captured
          <5>. QED
            BY <1>5, <5>2
        <4>. QED
          BY <4>1, <4>2
      <3>. QED
        BY <1>2, <3>1, <3>2, <3>3 DEF OriginProved, Binding
    <2>5. Provable(c.ref, c.session, Earlier(c))'
      BY <1>5, <1>7, <2>0, <2>3
    <2>6. Cardinality(Captured(c.session)') = 1
      BY <1>5, <1>7, <2>1
    <2>7. Candidates(c.session, c.retrieval)' # {}
      BY <1>5, <1>8, <2>2
    <2>8. c.session \in Calendar /\ c.made = 2 * c.session + 1 /\ c.price = Closes(c.ref)'[c.session]
      BY <1>5, <1>6, <1>8
    <2>. QED
      BY <2>4, <2>5, <2>6, <2>7, <2>8
  <1>15. \E d \in captures' : d.session = Activation.entry
    <2>1. CASE execution = None
      BY <1>5, <2>1 DEF Marking
    <2>2. CASE execution # None
      BY <1>3, <1>5, <2>2 DEF Readable
    <2>. QED
      BY <2>1, <2>2
  <1>16. \A d \in captures' :
           /\ Cardinality(Captured(d.session)') = 1
           /\ d.session \in Calendar /\ d.made = 2 * d.session + 1
           /\ Candidates(d.session, d.retrieval)' # {}
           /\ Provable(d.ref, d.session, Earlier(d))'
           /\ d.price = Closes(d.ref)'[d.session]
           /\ OriginProved(d)'
    BY <1>5, <1>13, <1>14
  <1>. QED
    BY <1>2, <1>4, <1>12, <1>15, <1>16 DEF Readable, MarkAsset

LEMMA PublishPaper ==
  ASSUME MarketOK, UNCHANGED marketVars, PaperOK, NEW p \in Callers, Publish(p)
  PROVE  PaperOK'
  <1>1. PICK s, j, ref, c : Marking(s, j, ref) /\ Published(s, j, ref, c) /\ CallsOK' /\ Proving'
    BY PublishShape
  <1>2. calls[p].pc # "idle"
    BY DEF Publish, At
  <1>3. activations # <<>> /\ UNCHANGED <<declarations, activations, clock, fetched>>
    BY <1>1, <1>2, AtWork DEF Published, marketVars
  <1>4. Marks'
    BY <1>1, PublishedMarks
  <1>5. Readable'
    BY <1>1, <1>3, PublishedReadable
  <1>6. Activation' = Activation
    BY <1>3 DEF Activation
  <1>7. Declared'
    <2>1. Declared
      BY DEF PaperOK
    <2>. QED
      BY <1>3, <1>6, <2>1 DEF Declared, ActivationProved
  <1>8. BeforeActivation'
    BY <1>3 DEF BeforeActivation
  <1>. QED
    BY <1>1, <1>4, <1>5, <1>7, <1>8 DEF PaperOK

LEMMA PaperStep ==
  ASSUME MarketOK, UNCHANGED marketVars, PaperOK, Paper
  PROVE  PaperOK'
  BY DeclarePaper, ActivatePaper, RefreshPaper, AfterMarketPaper, AttemptPaper,
     TakeCutoffPaper, PublishPaper, WithholdPaper, FinishPaper, DiePaper DEF Paper

-----------------------------------------------------------------------------
(* Resolution *)

\* The same histories resolve in the same way.
LEMMA ResolveGrown ==
  ASSUME MarketOK, Grows, prediction # None, NEW a \in 1..Len(fetched), NEW t
  PROVE  /\ Resolve(a, t)' = Resolve(a, t) /\ Reached(a, t)' = Reached(a, t)
         /\ Nth(a, t)' = Nth(a, t) /\ Closes(a)' = Closes(a)
         /\ Target' = Target /\ PriceAtPrediction' = PriceAtPrediction
  <1>1. Closes(a)' = Closes(a)
    BY HistoryGrown
  <1>2. Target' = Target
    BY DEF Target, Grows
  <1>3. PriceAtPrediction' = PriceAtPrediction
    <2>1. PICK i \in 1..Len(fetched) : i = prediction.source
      BY DEF MarketOK
    <2>2. Closes(i)' = Closes(i)
      BY HistoryGrown
    <2>. QED
      BY <1>2, <2>1, <2>2 DEF PriceAtPrediction, Grows
  <1>4. Later(a, t)' = Later(a, t)
    BY <1>1, <1>2 DEF Later
  <1>5. Reached(a, t)' = Reached(a, t)
    BY <1>4 DEF Reached
  <1>6. Nth(a, t)' = Nth(a, t)
    BY <1>4 DEF Nth
  <1>7. Baseline(a)' = Baseline(a)
    BY <1>1, <1>2 DEF Baseline
  <1>8. Resolve(a, t)' = Resolve(a, t)
    BY <1>1, <1>3, <1>5, <1>6, <1>7 DEF Resolve
  <1>. QED
    BY <1>1, <1>2, <1>3, <1>5, <1>6, <1>8

\* What a resolution reached, it reaches again when it reads no further than that.
LEMMA ResolveAgain ==
  ASSUME MarketOK, NEW a \in 1..Len(fetched), NEW t \in Nat, Terminal(Resolve(a, t))
  PROVE  Resolve(a, Resolve(a, t).date) = Resolve(a, t)
  <1>1. LastSession \in Nat /\ DOMAIN Closes(a) \in SUBSET (0..LastSession)
    BY VintageFacts, HistoriesAssumption DEF Closes
  <1>. DEFINE S == Later(a, t)
              d == NthOf(S)
  <1>2. S \in SUBSET (0..LastSession)
    BY <1>1 DEF Later
  <1>3. Reached(a, t) /\ Cardinality(S) >= HorizonSessions
    BY DEF Terminal, Resolve, Reached, Unresolved
  <1>4. Nth(a, t) = d
    BY DEF Nth, NthOf, UpTo
  <1>5. d \in S
    BY <1>1, <1>2, <1>3, NthIsThere
  <1>6. d <= t /\ d \in Nat
    <2>1. \A x \in S : x <= t /\ x \in Nat
      BY <1>2 DEF Later
    <2>. QED
      BY <1>5, <2>1
  <1>7. Later(a, d) = UpTo(S, d)
    <2>1. \A x \in 0..LastSession : x <= d => x <= t
      BY <1>6
    <2>2. \A x : x \in Later(a, d) <=> x \in UpTo(S, d)
      BY <1>1, <2>1 DEF Later, UpTo
    <2>. QED
      BY <2>2 DEF Later, UpTo
  <1>8. /\ Cardinality(UpTo(S, d)) >= HorizonSessions
        /\ NthOf(UpTo(S, d)) = d
    BY <1>1, <1>2, <1>3, NthAgain
  <1>9. Nth(a, d) = NthOf(Later(a, d))
    BY DEF Nth, NthOf, UpTo
  <1>10. Reached(a, d) /\ Nth(a, d) = d
    BY <1>7, <1>8, <1>9 DEF Reached
  <1>11. Resolve(a, t).date = d
    BY <1>3, <1>4 DEF Resolve
  <1>. HIDE DEF S, d
  <1>12. Resolve(a, d) = Resolve(a, t)
    BY <1>3, <1>4, <1>10 DEF Resolve
  <1>. QED
    BY <1>11, <1>12


-----------------------------------------------------------------------------
(* The outcome *)

\* What a terminal outcome was read from.
LEMMA ReadFacts ==
  ASSUME MarketOK, OutcomeOK, Terminal(outcome.row)
  PROVE  \E m \in 1..Len(fetched) :
           /\ m = Max(Read) /\ m \in Read /\ \A i \in Read : i <= m
           /\ prediction # None /\ Resolve(m, outcome.row.date) = outcome.row
  <1>1. /\ Read # {} /\ Read \subseteq 1..Len(fetched)
        /\ prediction # None /\ Resolve(Max(Read), outcome.row.date) = outcome.row
    BY DEF OutcomeOK, MarketOK
  <1>2. Len(fetched) \in Nat /\ Read \in SUBSET (0..Len(fetched))
    BY <1>1 DEF MarketOK
  <1>3. Max(Read) \in Read /\ \A i \in Read : i <= Max(Read)
    BY <1>1, <1>2, Extremes
  <1>. QED
    BY <1>1, <1>3

LEMMA OutcomeGrown ==
  ASSUME MarketOK, Grows, OutcomeOK, UNCHANGED outcome
  PROVE  OutcomeOK'
  <1>1. SUFFICES ASSUME Terminal(outcome.row)
                 PROVE  OutcomeOK'
    BY DEF OutcomeOK, Terminal
  <1>2. PICK m \in 1..Len(fetched) :
          m = Max(Read) /\ prediction # None /\ Resolve(m, outcome.row.date) = outcome.row
    BY <1>1, ReadFacts
  <1>3. PICK t : t = outcome.row.date
    OBVIOUS
  <1>4. Resolve(m, t)' = Resolve(m, t)
    BY <1>2, ResolveGrown
  <1>5. Read' = Read /\ Max(Read)' = m
    BY <1>2 DEF Read
  <1>6. Resolve(Max(Read), outcome.row.date)' = outcome.row'
    BY <1>2, <1>3, <1>4, <1>5
  <1>7. /\ outcome.evaluated \in 1..Len(fetched) /\ Read # {} /\ Read \subseteq stored
    BY <1>1 DEF OutcomeOK
  <1>8. prediction' # None /\ stored \subseteq stored' /\ outcome.evaluated \in 1..Len(fetched')
    BY <1>2, <1>7 DEF Grows, MarketOK
  <1>. QED
    BY <1>5, <1>6, <1>7, <1>8 DEF OutcomeOK

\* An evaluation reads what had committed of the retrievals of its time.
LEMMA EvaluateStep ==
  ASSUME MarketOK, UNCHANGED marketVars, OutcomeOK, Evaluate
  PROVE  OutcomeOK' /\ (Terminal(outcome.row) => outcome' = outcome)
  <1>1. PICK r \in prediction.source..Retrieved, t \in ClosedSessions :
          outcome' = IF Terminal(Resolve(AsOf(r), t))
                     THEN [row |-> Resolve(AsOf(r), t), evaluated |-> r,
                           missed |-> 1..r \ stored]
                     ELSE [row |-> Resolve(AsOf(r), t)]
    BY DEF Evaluate, ReadAt
  <1>2. prediction # None /\ ~Terminal(outcome.row)
    BY DEF Evaluate
  <1>3. /\ prediction.source \in stored /\ stored \subseteq 1..Len(fetched)
        /\ Len(fetched) \in Nat /\ r \in 1..Len(fetched) /\ prediction.source <= r
    <2>1. prediction.source \in stored /\ stored \subseteq 1..Len(fetched) /\ Len(fetched) \in Nat
      BY <1>2 DEF MarketOK
    <2>2. prediction.source \in 1..Len(fetched)
      BY <2>1
    <2>3. r \in prediction.source..Len(fetched)
      BY DEF Retrieved
    <2>. QED
      BY <2>1, <2>2, <2>3
  <1>4. CASE ~Terminal(Resolve(AsOf(r), t))
    <2>1. outcome'.row = Resolve(AsOf(r), t)
      BY <1>1, <1>4
    <2>2. ~Terminal(outcome'.row)
      BY <1>4, <2>1 DEF Terminal
    <2>. QED
      BY <1>2, <2>2 DEF OutcomeOK, Terminal
  <1>5. CASE Terminal(Resolve(AsOf(r), t))
    <2>1. /\ outcome'.row = Resolve(AsOf(r), t) /\ outcome'.evaluated = r
          /\ outcome'.missed = 1..r \ stored
      BY <1>1, <1>5
    <2>2. Read' = Visible(r)
      <3>0. \A i : i \in stored => i \in Nat /\ i >= 1
        BY <1>3
      <3>1. \A i : i \in (1..r \ (1..r \ stored)) <=> i \in Visible(r)
        BY <1>3, <3>0 DEF Visible
      <3>2. 1..r \ (1..r \ stored) = Visible(r)
        BY ONLY <3>1
      <3>. QED
        BY <2>1, <3>2 DEF Read
    <2>3. prediction.source \in Visible(r)
      BY <1>3 DEF Visible
    <2>4. PICK a \in 1..Len(fetched) : a = AsOf(r) /\ a = Max(Visible(r))
      BY <2>3, VisibleFacts DEF AsOf
    <2>5. t \in Nat
      BY ClosedFacts
    <2>6. PICK d : d = Resolve(a, t).date
      OBVIOUS
    <2>7. Resolve(a, d) = Resolve(a, t)
      BY <1>5, <2>4, <2>5, <2>6, ResolveAgain
    <2>8. Resolve(a, d)' = Resolve(a, d)
      BY <1>2, ResolveGrown, MarketKept
    <2>9. outcome'.row = Resolve(a, t) /\ outcome'.row.date = d
      BY <2>1, <2>4, <2>6
    <2>10. Max(Read)' = a
      BY <2>2, <2>4
    <2>11. Resolve(Max(Read), outcome.row.date)' = outcome.row'
      BY <2>7, <2>8, <2>9, <2>10
    <2>12. Read' # {} /\ Read' \subseteq stored'
      BY <2>2, <2>3 DEF Visible, marketVars
    <2>13. prediction' # None /\ outcome'.evaluated \in 1..Len(fetched')
      BY <1>2, <1>3, <2>1 DEF marketVars
    <2>. QED
      BY <1>2, <2>11, <2>12, <2>13 DEF OutcomeOK
  <1>. QED
    BY <1>4, <1>5

\* The outcome of a complete reading replays from the histories visible at its time.
LEMMA OutcomeReplayed ==
  ASSUME MarketOK, OutcomeOK
  PROVE  OutcomeReplays
  <1>1. SUFFICES ASSUME Terminal(outcome.row), outcome.missed \cap stored = {}
                 PROVE  Resolve(AsOf(outcome.evaluated), outcome.row.date) = outcome.row
    BY DEF OutcomeReplays
  <1>2. /\ outcome.evaluated \in 1..Len(fetched) /\ Read \subseteq stored
        /\ stored \subseteq 1..Len(fetched) /\ Len(fetched) \in Nat
        /\ Resolve(Max(Read), outcome.row.date) = outcome.row
    BY <1>1 DEF OutcomeOK, MarketOK
  <1>. DEFINE e == outcome.evaluated
  <1>5. \A i : i \in stored => i \in Nat /\ i >= 1
    BY <1>2
  <1>6. \A i : i \in Read <=> i \in 1..e /\ i \notin outcome.missed
    BY DEF Read
  <1>7. \A i : i \in Visible(e) <=> i \in stored /\ i \in 1..e
    BY <1>2, <1>5 DEF Visible
  <1>3. \A i : i \in Read <=> i \in Visible(e)
    <2>1. \A i : i \in Visible(e) => i \in Read
      BY <1>1, <1>6, <1>7
    <2>2. \A i : i \in Read => i \in Visible(e)
      BY <1>2, <1>6, <1>7
    <2>. QED
      BY <2>1, <2>2
  <1>4. Read = Visible(e)
    BY ONLY <1>3
  <1>. QED
    BY <1>2, <1>4 DEF AsOf

-----------------------------------------------------------------------------
(* The study *)

\* What proves an assessment is proved by it whatever is retrieved later.
LEMMA AssessmentGrown ==
  ASSUME MarketOK, Grows, prediction # None, NEW a, a.sources \subseteq 1..Len(fetched),
         \E i \in a.sources : i <= a.native.evaluated, a.state = "accepted", AssessmentProved(a)
  PROVE  AssessmentProved(a)'
  <1>. DEFINE S == {i \in a.sources : i <= a.native.evaluated}
  <1>1. Len(fetched) \in Nat /\ S \in SUBSET (0..Len(fetched)) /\ S # {}
        /\ a.sources \in SUBSET (0..Len(fetched)) /\ a.sources # {}
    BY DEF MarketOK
  <1>2. Max(S) \in S /\ Max(a.sources) \in a.sources
    BY <1>1, Extremes
  <1>3. PICK i \in 1..Len(fetched) : i = Max(S)
    BY <1>2
  <1>4. PICK j \in 1..Len(fetched) : j = Max(a.sources)
    BY <1>2
  <1>5. Resolve(i, a.maturity) = a.native.row
        /\ Strict(j, a.maturity) = [reason |-> None, price |-> a.price]
    BY <1>3, <1>4 DEF AssessmentProved
  <1>6. Resolve(i, a.maturity)' = Resolve(i, a.maturity)
    BY ResolveGrown
  <1>7. Strict(j, a.maturity)' = Strict(j, a.maturity)
    <2>1. /\ Reached(j, a.maturity)' = Reached(j, a.maturity)
          /\ Nth(j, a.maturity)' = Nth(j, a.maturity) /\ Closes(j)' = Closes(j)
          /\ Target' = Target /\ PriceAtPrediction' = PriceAtPrediction
      BY ResolveGrown
    <2>. QED
      BY <2>1 DEF Strict
  <1>. QED
    BY <1>3, <1>4, <1>5, <1>6, <1>7 DEF AssessmentProved

LEMMA AssessmentsGrown ==
  ASSUME MarketOK, Grows, AssessmentsOK, UNCHANGED assessments
  PROVE  AssessmentsOK'
  <1>1. SUFFICES ASSUME NEW a \in assessments, a.state = "accepted"
                 PROVE  /\ prediction' # None
                        /\ a.sources \subseteq 1..Len(fetched')
                        /\ ~Torn(a) => AssessmentProved(a)'
                        /\ \E i \in a.sources : i <= a.native.evaluated
                        /\ \A b \in assessments :
                             b.state = "accepted" /\ b.session = a.session => b = a
    BY DEF AssessmentsOK, Torn
  <1>2. /\ prediction # None /\ a.sources \subseteq 1..Len(fetched)
        /\ ~Torn(a) => AssessmentProved(a)
        /\ \E i \in a.sources : i <= a.native.evaluated
        /\ \A b \in assessments : b.state = "accepted" /\ b.session = a.session => b = a
    BY <1>1 DEF AssessmentsOK
  <1>3. ~Torn(a) => AssessmentProved(a)'
    BY <1>1, <1>2, AssessmentGrown
  <1>4. prediction' # None /\ 1..Len(fetched) \subseteq 1..Len(fetched')
    BY <1>2 DEF Grows, MarketOK
  <1>. QED
    BY <1>2, <1>3, <1>4

LEMMA ClosedGrown ==
  ASSUME MarketOK, Grows
  PROVE  ClosedSessions \subseteq ClosedSessions'
  <1>1. \A s \in Sessions : clock > 2 * s => clock' > 2 * s
    BY DEF MarketOK, Grows, Sessions
  <1>. QED
    BY <1>1 DEF ClosedSessions

\* The captures stand when the epoch does.
LEMMA ShotsGrown ==
  ASSUME MarketOK, Grows, ShotsOK, UNCHANGED shots, shots # {} => UNCHANGED activation
  PROVE  ShotsOK'
  <1>1. ASSUME NEW c \in shots
        PROVE  /\ activation' = activation /\ c.session \in ClosedSessions' /\ c.session >= Epoch'
               /\ \A d \in shots : d.session = c.session => d = c
    <2>1. activation' = activation
      BY <1>1
    <2>2. Epoch' = Epoch
      BY <2>1 DEF Epoch, BeforeClose
    <2>. QED
      BY <1>1, <2>1, <2>2, ClosedGrown DEF ShotsOK
  <1>. QED
    BY <1>1 DEF ShotsOK

LEMMA DurableGrown ==
  ASSUME shots \subseteq shots', assessments \subseteq assessments', NEW job, NEW assets,
         Durable(job, assets)
  PROVE  Durable(job, assets)'
  BY DEF Durable

\* One worker moves, and what it or a new success names is durable.
LEMMA WorkSet ==
  ASSUME JobsOK, shots \subseteq shots', assessments \subseteq assessments',
         NEW w \in Workers, NEW job, Set(w, job),
         job.pc # "free" => Durable(job.job, job.assets)',
         job.pc \in {"scan", "judge"} => job.job[1] = "evaluate",
         \A r \in successes' :
           r \in successes \/ (Durable(r.job, r.assets)' /\ r.finished \in Nat)
  PROVE  JobsOK'
  <1>1. /\ DOMAIN work' = Workers /\ work'[w] = job
        /\ \A v \in Workers : v # w => work'[v] = work[v]
    BY DEF JobsOK, Set
  <1>2. ASSUME NEW v \in Workers
        PROVE  /\ work'[v].pc # "free" => Durable(work[v].job, work[v].assets)'
               /\ work'[v].pc \in {"scan", "judge"} => work'[v].job[1] = "evaluate"
    <2>1. CASE v = w
      <3>1. Durable(work[v].job, work[v].assets)' <=> Durable(job.job, job.assets)'
        BY <1>1, <2>1 DEF Durable
      <3>. QED
        BY <1>1, <2>1, <3>1
    <2>2. CASE v # w
      <3>1. work'[v] = work[v]
        BY <1>1, <2>2
      <3>2. /\ work[v].pc # "free" => Durable(work[v].job, work[v].assets)
            /\ work[v].pc \in {"scan", "judge"} => work[v].job[1] = "evaluate"
        BY DEF JobsOK
      <3>3. Durable(work[v].job, work[v].assets) => Durable(work[v].job, work[v].assets)'
        BY <3>1 DEF Durable
      <3>. QED
        BY <3>1, <3>2, <3>3
    <2>. QED
      BY <2>1, <2>2
  <1>3. ASSUME NEW r \in successes'
        PROVE  Durable(r.job, r.assets)' /\ r.finished \in Nat
    <2>1. CASE r \in successes
      <3>1. Durable(r.job, r.assets) /\ r.finished \in Nat
        BY <2>1 DEF JobsOK
      <3>. QED
        BY <3>1, DurableGrown
    <2>. QED
      BY <1>3, <2>1
  <1>. QED
    BY <1>1, <1>2, <1>3 DEF JobsOK

\* What a worker has read for a case stands.
LEMMA SourceGrown ==
  ASSUME MarketOK, Grows, NEW case, SourceRead(case)
  PROVE  SourceRead(case)'
  <1>1. SUFFICES ASSUME case.prior = {}, Terminal(case.native.row)
                 PROVE  /\ prediction' # None
                        /\ case.native.evaluated \in 1..Len(fetched')
                        /\ case.assessed \in 1..Len(fetched')
                        /\ case.native.evaluated <= case.assessed
                        /\ case.source \in stored'
                        /\ case.source <= case.native.evaluated
    BY DEF SourceRead, Terminal
  <1>2. /\ prediction # None
        /\ case.native.evaluated \in 1..Len(fetched) /\ case.assessed \in 1..Len(fetched)
        /\ case.native.evaluated <= case.assessed
        /\ case.source \in stored /\ case.source <= case.native.evaluated
    BY <1>1 DEF SourceRead
  <1>3. Len(fetched) \in Nat /\ 1..Len(fetched) \subseteq 1..Len(fetched')
    BY DEF MarketOK, Grows
  <1>. QED
    BY <1>2, <1>3 DEF Grows

\* A case that is being assessed, as the worker knows it, while nothing of it is accepted.
LEMMA CaseKept ==
  ASSUME MarketOK, Grows, CasesOK, NEW v \in Workers, work[v].pc = "judge",
         work'[v] = work[v],
         NEW s, s = work[v].case.session, Accepted(s)' = Accepted(s)
  PROVE  (work[v].case.prior = Accepted(work[v].case.session) /\ SourceRead(work[v].case))'
  <1>1. PICK case : case = work[v].case
    OBVIOUS
  <1>2. case.session = s /\ case.prior = Accepted(s) /\ SourceRead(case)
    BY <1>1 DEF CasesOK
  <1>3. SourceRead(case)'
    BY <1>2, SourceGrown
  <1>4. work'[v].case = case
    BY <1>1
  <1>5. (SourceRead(work[v].case))'
    BY <1>3, <1>4 DEF SourceRead, Terminal
  <1>6. case.prior = Accepted(s)'
    BY <1>2
  <1>7. (work[v].case.prior = Accepted(work[v].case.session))'
    BY <1>2, <1>4, <1>6 DEF Accepted
  <1>. QED
    BY <1>5, <1>7

\* A worker moves that does not assess a case afterwards, and no assessment is added.
LEMMA CasesKept ==
  ASSUME MarketOK, Grows, JobsOK, CasesOK, NEW w \in Workers, NEW job, Set(w, job),
         job.pc # "judge", UNCHANGED assessments
  PROVE  CasesOK'
  <1>1. /\ work'[w] = job
        /\ \A v \in Workers : v # w => work'[v] = work[v]
    BY DEF JobsOK, Set
  <1>2. \A v \in Workers : work'[v].pc = "judge" => work'[v] = work[v]
    BY <1>1
  <1>3. ASSUME NEW v \in Workers, work'[v].pc = "judge"
        PROVE  (work[v].case.prior = Accepted(work[v].case.session)
                /\ SourceRead(work[v].case))'
    <2>1. PICK s : s = work[v].case.session
      OBVIOUS
    <2>2. Accepted(s)' = Accepted(s)
      BY DEF Accepted
    <2>3. work'[v] = work[v] /\ work[v].pc = "judge"
      BY <1>2, <1>3
    <2>. QED
      BY <2>1, <2>2, <2>3, CaseKept
  <1>4. ASSUME NEW v \in Workers, NEW u \in Workers, work'[v].pc = "judge",
               work'[u].pc = "judge", work'[v].case.session = work'[u].case.session
        PROVE  v = u
    BY <1>2, <1>4 DEF CasesOK
  <1>. QED
    BY <1>3, <1>4 DEF CasesOK

StudyOK == ShotsOK /\ AssessmentsOK /\ JobsOK /\ CasesOK

\* The market moves, and the study stands.
LEMMA StudyGrown ==
  ASSUME MarketOK, Grows, StudyOK, UNCHANGED studyVars
  PROVE  StudyOK'
  <1>1. UNCHANGED <<activation, shots, assessments, successes, work>>
    BY DEF studyVars
  <1>2. ShotsOK' /\ AssessmentsOK'
    BY <1>1, ShotsGrown, AssessmentsGrown DEF StudyOK
  <1>3. JobsOK'
    BY <1>1 DEF StudyOK, JobsOK, Durable
  <1>4. CasesOK'
    <2>1. ASSUME NEW v \in Workers, work'[v].pc = "judge"
          PROVE  (work[v].case.prior = Accepted(work[v].case.session)
                  /\ SourceRead(work[v].case))'
      <3>1. PICK s : s = work[v].case.session
        OBVIOUS
      <3>2. Accepted(s)' = Accepted(s)
        BY <1>1 DEF Accepted
      <3>3. work'[v] = work[v] /\ work[v].pc = "judge"
        BY <1>1, <2>1
      <3>. QED
        BY <3>1, <3>2, <3>3, CaseKept DEF StudyOK
    <2>2. ASSUME NEW v \in Workers, NEW u \in Workers, work'[v].pc = "judge",
                 work'[u].pc = "judge", work'[v].case.session = work'[u].case.session
          PROVE  v = u
      BY <1>1, <2>2 DEF StudyOK, CasesOK
    <2>. QED
      BY <2>1, <2>2 DEF CasesOK
  <1>. QED
    BY <1>2, <1>3, <1>4 DEF StudyOK

\* What the study holds is added to, and a success is of now.
Additions ==
  /\ activation # None => activation' = activation
  /\ shots \subseteq shots' /\ assessments \subseteq assessments'
  /\ successes \subseteq successes'
  /\ \A r \in successes' : r \in successes \/ r.finished = clock

\* A job begins that has no assets, or durable ones.
LEMMA BeginWork ==
  ASSUME JobsOK, shots \subseteq shots', assessments \subseteq assessments',
         UNCHANGED successes, NEW w \in Workers, NEW job, Begin(w, job),
         Durable(job.job, job.assets)',
         job.pc \in {"scan", "judge"} => job.job[1] = "evaluate"
  PROVE  JobsOK' /\ Set(w, job)
  <1>1. Set(w, job)
    BY DEF Begin
  <1>. QED
    BY <1>1, WorkSet

LEMMA ActivateStudyStep ==
  ASSUME MarketOK, UNCHANGED marketVars, StudyOK, NEW w \in Workers, ActivateStudy(w)
  PROVE  StudyOK' /\ Additions
  <1>1. PICK job : job = [pc |-> "done", job |-> Job("activate", 0), assets |-> {activation'}]
    OBVIOUS
  <1>2. /\ activation # None => activation' = activation
        /\ Begin(w, job) /\ UNCHANGED <<shots, assessments, successes>>
    BY <1>1 DEF ActivateStudy
  <1>3. shots # {} => activation # None
    BY DEF StudyOK, ShotsOK
  <1>4. ShotsOK' /\ AssessmentsOK'
    BY <1>2, <1>3, MarketKept, ShotsGrown, AssessmentsGrown DEF StudyOK
  <1>5. JobsOK' /\ CasesOK'
    <2>1. job.job[1] = "activate" /\ job.pc = "done"
      BY <1>1 DEF Job
    <2>2. Durable(job.job, job.assets)'
      BY <2>1 DEF Durable
    <2>3. JobsOK' /\ Set(w, job)
      BY <1>2, <2>1, <2>2, BeginWork DEF StudyOK
    <2>. QED
      BY <1>2, <2>1, <2>3, MarketKept, CasesKept DEF StudyOK
  <1>. QED
    BY <1>2, <1>4, <1>5 DEF StudyOK, Additions

\* The first capture of a session is its only one.
LEMMA CaptureStep ==
  ASSUME MarketOK, UNCHANGED marketVars, StudyOK, NEW w \in Workers, Capture(w)
  PROVE  StudyOK' /\ Additions
  <1>1. /\ activation # None /\ UNCHANGED <<activation, assessments, successes>>
    BY DEF Capture
  <1>2. PICK s \in ClosedSessions :
          /\ s >= Epoch
          /\ shots' = IF Shot(s) # {} THEN shots
                      ELSE shots \cup {[session |-> s, prepared |-> Prepared(s)]}
          /\ Begin(w, [pc |-> "done", job |-> Job("capture", s), assets |-> Shot(s)'])
    BY DEF Capture
  <1>3. shots \subseteq shots' /\ Shot(s)' \subseteq shots'
    BY <1>2 DEF Shot
  <1>4. ShotsOK'
    <2>1. Epoch' = Epoch /\ ClosedSessions' = ClosedSessions
      BY <1>1 DEF Epoch, BeforeClose, ClosedSessions, marketVars
    <2>2. CASE Shot(s) # {}
      BY <1>1, <1>2, <2>1, <2>2 DEF StudyOK, ShotsOK
    <2>3. CASE Shot(s) = {}
      <3>1. PICK c : c = [session |-> s, prepared |-> Prepared(s)]
        OBVIOUS
      <3>2. c.session = s /\ shots' = shots \cup {c}
        BY <1>2, <2>3, <3>1
      <3>3. \A d \in shots : d.session # s
        BY <2>3 DEF Shot
      <3>. HIDE <3>1
      <3>4. ASSUME NEW d \in shots'
            PROVE  /\ d.session \in ClosedSessions' /\ d.session >= Epoch'
                   /\ \A e \in shots' : e.session = d.session => e = d
        BY <1>2, <2>1, <3>2, <3>3 DEF StudyOK, ShotsOK
      <3>. QED
        BY <1>1, <3>4 DEF ShotsOK
    <2>. QED
      BY <2>2, <2>3
  <1>5. AssessmentsOK'
    BY <1>1, MarketKept, AssessmentsGrown DEF StudyOK
  <1>6. JobsOK' /\ CasesOK'
    <2>1. PICK job : job = [pc |-> "done", job |-> Job("capture", s), assets |-> Shot(s)']
      OBVIOUS
    <2>2. job.job[1] = "capture" /\ job.pc = "done" /\ job.assets = Shot(s)'
      BY <2>1 DEF Job
    <2>3. Durable(job.job, job.assets)'
      BY <1>3, <2>2 DEF Durable
    <2>4. Begin(w, job)
      BY <1>2, <2>1
    <2>5. JobsOK' /\ Set(w, job)
      BY <1>1, <1>3, <2>2, <2>3, <2>4, BeginWork DEF StudyOK
    <2>. QED
      BY <1>1, <2>2, <2>5, MarketKept, CasesKept DEF StudyOK
  <1>. QED
    BY <1>1, <1>3, <1>4, <1>5, <1>6 DEF StudyOK, Additions

LEMMA BeginEvaluateStep ==
  ASSUME MarketOK, UNCHANGED marketVars, StudyOK, NEW w \in Workers, BeginEvaluate(w)
  PROVE  StudyOK' /\ Additions
  <1>1. UNCHANGED <<activation, shots, assessments, successes>>
    BY DEF BeginEvaluate
  <1>2. PICK d, cases :
          Begin(w, [pc |-> "scan", job |-> Job("evaluate", d), assets |-> {}, through |-> d,
                    cases |-> cases])
    BY DEF BeginEvaluate
  <1>3. PICK job : job = [pc |-> "scan", job |-> Job("evaluate", d), assets |-> {},
                          through |-> d, cases |-> cases]
    OBVIOUS
  <1>4. job.pc = "scan" /\ job.job[1] = "evaluate" /\ job.assets = {} /\ Begin(w, job)
    BY <1>2, <1>3 DEF Job
  <1>5. Durable(job.job, job.assets)'
    BY <1>4 DEF Durable
  <1>6. JobsOK' /\ CasesOK'
    <2>1. JobsOK' /\ Set(w, job)
      BY <1>1, <1>4, <1>5, BeginWork DEF StudyOK
    <2>. QED
      BY <1>1, <1>4, <2>1, MarketKept, CasesKept DEF StudyOK
  <1>7. ShotsOK' /\ AssessmentsOK'
    BY <1>1, MarketKept, ShotsGrown, AssessmentsGrown DEF StudyOK
  <1>. QED
    BY <1>1, <1>6, <1>7 DEF StudyOK, Additions

LEMMA SucceedStep ==
  ASSUME MarketOK, UNCHANGED marketVars, StudyOK, NEW w \in Workers, Succeed(w)
  PROVE  StudyOK' /\ Additions
  <1>1. PICK r : r = [job |-> work[w].job, finished |-> clock, assets |-> work[w].assets]
    OBVIOUS
  <1>2. /\ UNCHANGED <<activation, shots, assessments>> /\ work[w].pc # "free"
        /\ successes' = successes \cup {r} /\ Set(w, Free)
    BY <1>1 DEF Succeed, Doing
  <1>3. r.job = work[w].job /\ r.assets = work[w].assets /\ r.finished = clock
    BY <1>1
  <1>. HIDE <1>1
  <1>4. Durable(r.job, r.assets)'
    <2>1. Durable(work[w].job, work[w].assets)
      BY <1>2 DEF StudyOK, JobsOK
    <2>2. Durable(r.job, r.assets)
      BY <1>3, <2>1
    <2>. QED
      BY <1>2, <2>2, DurableGrown
  <1>5. JobsOK' /\ CasesOK'
    <2>1. Free.pc = "free"
      BY DEF Free
    <2>2. PICK job : job = Free
      OBVIOUS
    <2>3. \A x \in successes' :
            x \in successes \/ (Durable(x.job, x.assets)' /\ x.finished \in Nat)
      <3>1. ASSUME NEW x \in successes', x \notin successes
            PROVE  Durable(x.job, x.assets)' /\ x.finished \in Nat
        <4>1. x = r
          BY <1>2, <3>1
        <4>. QED
          BY <1>3, <1>4, <4>1 DEF MarketOK
      <3>. QED
        BY <3>1
    <2>4. Set(w, job) /\ job.pc = "free"
      BY <1>2, <2>1, <2>2
    <2>. HIDE <2>2
    <2>5. CasesOK'
      BY <1>2, <2>4, MarketKept, CasesKept DEF StudyOK
    <2>. QED
      BY <1>2, <2>3, <2>4, <2>5, WorkSet DEF StudyOK
  <1>6. ShotsOK' /\ AssessmentsOK'
    BY <1>2, MarketKept, ShotsGrown, AssessmentsGrown DEF StudyOK
  <1>. QED
    BY <1>2, <1>3, <1>5, <1>6 DEF StudyOK, Additions

LEMMA StopStep ==
  ASSUME MarketOK, UNCHANGED marketVars, StudyOK, NEW w \in Workers, Stop(w)
  PROVE  StudyOK' /\ Additions
  <1>1. UNCHANGED <<activation, shots, assessments, successes>> /\ Set(w, Free)
    BY DEF Stop
  <1>2. ShotsOK' /\ AssessmentsOK'
    BY <1>1, MarketKept, ShotsGrown, AssessmentsGrown DEF StudyOK
  <1>3. Free.pc = "free"
    BY DEF Free
  <1>5. PICK job : job = Free
    OBVIOUS
  <1>4. JobsOK' /\ CasesOK'
    <2>1. \A x \in successes' :
            x \in successes \/ (Durable(x.job, x.assets)' /\ x.finished \in Nat)
      BY <1>1
    <2>2. Set(w, job) /\ job.pc = "free"
      BY <1>1, <1>3, <1>5
    <2>. HIDE <1>5
    <2>3. CasesOK'
      BY <1>1, <2>2, MarketKept, CasesKept DEF StudyOK
    <2>. QED
      BY <1>1, <2>1, <2>2, <2>3, WorkSet DEF StudyOK
  <1>. QED
    BY <1>1, <1>2, <1>4 DEF StudyOK, Additions

\* A case is opened: what the worker knows of it then.
LEMMA OpenCaseStep ==
  ASSUME MarketOK, UNCHANGED marketVars, OutcomeOK, StudyOK, NEW w \in Workers, OpenCase(w)
  PROVE  StudyOK' /\ Additions
  <1>1. PICK s : s = Min(work[w].cases)
    OBVIOUS
  <1>2. PICK first : first = (Terminal(outcome.row) /\ Accepted(s) = {})
    OBVIOUS
  <1>3. PICK case : case = [session |-> s, prior |-> Accepted(s), native |-> outcome,
                            source |-> IF first THEN AsOf(outcome.evaluated) ELSE None,
                            assessed |-> Retrieved]
    OBVIOUS
  <1>4. PICK job : job = [pc |-> "judge", job |-> work[w].job, through |-> work[w].through,
                          cases |-> work[w].cases, assets |-> work[w].assets, case |-> case]
    OBVIOUS
  <1>5. /\ work[w].pc = "scan" /\ Set(w, job) /\ ~CaseLocked(s)
        /\ UNCHANGED <<activation, shots, assessments, successes>>
    BY <1>1, <1>2, <1>3, <1>4 DEF OpenCase, Doing
  <1>6. /\ job.pc = "judge" /\ job.job = work[w].job /\ job.assets = work[w].assets
        /\ job.case = case
    BY <1>4
  <1>7. /\ case.session = s /\ case.prior = Accepted(s) /\ case.native = outcome
        /\ first => case.source = AsOf(outcome.evaluated)
        /\ case.assessed = Retrieved
    BY <1>3
  <1>. HIDE <1>1, <1>3, <1>4
  <1>8. SourceRead(case)
    <2>1. SUFFICES ASSUME case.prior = {}, Terminal(case.native.row)
                   PROVE  /\ prediction # None
                          /\ case.native.evaluated \in 1..Len(fetched)
                          /\ case.assessed \in 1..Len(fetched)
                          /\ case.native.evaluated <= case.assessed
                          /\ case.source \in stored /\ case.source <= case.native.evaluated
      BY DEF SourceRead
    <2>2. PICK e : e = outcome.evaluated
      OBVIOUS
    <2>3. case.native.evaluated = e /\ case.source = AsOf(e) /\ case.assessed = Len(fetched)
      BY <1>2, <1>7, <2>1, <2>2 DEF Retrieved
    <2>4. /\ prediction # None /\ e \in 1..Len(fetched) /\ Len(fetched) \in Nat
          /\ Read # {} /\ Read \subseteq stored
      BY <1>7, <2>1, <2>2 DEF OutcomeOK, MarketOK
    <2>5. Visible(e) # {}
      <3>1. PICK i \in Read : TRUE
        BY <2>4
      <3>2. i \in stored /\ i <= e
        BY <2>2, <2>4, <3>1 DEF Read
      <3>. QED
        BY <3>2 DEF Visible
    <2>6. AsOf(e) \in Visible(e)
      BY <2>5, VisibleFacts DEF AsOf
    <2>7. AsOf(e) \in stored /\ AsOf(e) <= e
      BY <2>6 DEF Visible
    <2>. QED
      BY <2>3, <2>4, <2>7
  <1>9. /\ work'[w] = job
        /\ \A v \in Workers : v # w => work'[v] = work[v]
    BY <1>5 DEF StudyOK, JobsOK, Set
  <1>10. JobsOK'
    <2>1. Durable(work[w].job, work[w].assets) /\ work[w].job[1] = "evaluate"
      BY <1>5 DEF StudyOK, JobsOK
    <2>2. Durable(job.job, job.assets)
      BY <1>6, <2>1
    <2>3. Durable(job.job, job.assets)'
      BY <1>5, <2>2, DurableGrown
    <2>4. job.job[1] = "evaluate"
      BY <1>6, <2>1
    <2>5. \A x \in successes' :
            x \in successes \/ (Durable(x.job, x.assets)' /\ x.finished \in Nat)
      BY <1>5
    <2>. QED
      BY <1>5, <2>3, <2>4, <2>5, WorkSet DEF StudyOK
  <1>11. CasesOK'
    <2>1. \A v \in Workers : work[v].pc = "judge" => work[v].case.session # s
      BY <1>5 DEF CaseLocked, Doing
    <2>2. ASSUME NEW v \in Workers, work'[v].pc = "judge"
          PROVE  (work[v].case.prior = Accepted(work[v].case.session)
                  /\ SourceRead(work[v].case))'
      <3>1. CASE v = w
        <4>1. work'[v].case = case
          BY <1>6, <1>9, <3>1
        <4>2. Accepted(s)' = case.prior
          BY <1>5, <1>7 DEF Accepted
        <4>3. (work[v].case.prior = Accepted(work[v].case.session))'
          BY <1>7, <4>1, <4>2 DEF Accepted
        <4>4. SourceRead(case)'
          BY <1>8, MarketKept, SourceGrown
        <4>5. SourceRead(work[v].case)'
          BY <4>1, <4>4 DEF SourceRead, Terminal
        <4>. QED
          BY <4>3, <4>5
      <3>2. CASE v # w
        <4>1. PICK z : z = work[v].case.session
          OBVIOUS
        <4>2. Accepted(z)' = Accepted(z)
          BY <1>5 DEF Accepted
        <4>3. work'[v] = work[v] /\ work[v].pc = "judge"
          BY <1>9, <2>2, <3>2
        <4>. QED
          BY <4>1, <4>2, <4>3, MarketKept, CaseKept DEF StudyOK
      <3>. QED
        BY <3>1, <3>2
    <2>3. ASSUME NEW v \in Workers, NEW u \in Workers, work'[v].pc = "judge",
                 work'[u].pc = "judge", work'[v].case.session = work'[u].case.session
          PROVE  v = u
      <3>1. \A x \in Workers : x # w /\ work'[x].pc = "judge" =>
                work[x].pc = "judge" /\ work'[x].case.session = work[x].case.session
        BY <1>9
      <3>2. work'[w].case.session = s
        BY <1>6, <1>7, <1>9
      <3>. QED
        BY <2>1, <2>3, <3>1, <3>2 DEF StudyOK, CasesOK
    <2>. QED
      BY <2>2, <2>3 DEF CasesOK
  <1>12. ShotsOK' /\ AssessmentsOK'
    BY <1>5, MarketKept, ShotsGrown, AssessmentsGrown DEF StudyOK
  <1>. QED
    BY <1>5, <1>10, <1>11, <1>12 DEF StudyOK, Additions

\* A first assessment that is accepted: what it says, and that its assets prove it unless
\* the second of them is of the outcome's time too.
LEMMA FirstAccepted ==
  ASSUME MarketOK, NEW case, case.prior = {}, SourceRead(case), NEW t, NEW f,
         f = FirstBody(case, t), f.state = "accepted"
  PROVE  /\ prediction # None
         /\ f.sources \subseteq 1..Len(fetched) /\ (~Torn(f) => AssessmentProved(f))
         /\ \E i \in f.sources : i <= f.native.evaluated
  <1>. DEFINE newest == AsOf(case.assessed)
              strict == Strict(newest, case.native.row.date)
              base == Unsettled(case)
              settle(state, reason) == [base EXCEPT !.state = state, !.reason = reason]
              body == [session |-> case.session, state |-> "accepted", reason |-> None,
                       native |-> case.native, sources |-> {case.source, newest},
                       maturity |-> case.native.row.date, price |-> strict.price]
  <1>1. base.state # "accepted" /\ \A reason : settle("quarantined", reason).state # "accepted"
    BY DEF Unsettled
  <1>2. f = IF ~Terminal(case.native.row) THEN base
            ELSE IF ~NativeReplays(case) THEN settle("quarantined", "cutoff_unverified")
            ELSE IF case.native.row.date > t
                 THEN IF case.native.row.status = "matured" THEN base
                      ELSE settle("quarantined", "basis_incompatible")
            ELSE IF strict.reason # None THEN settle("quarantined", strict.reason)
            ELSE body
    BY DEF FirstBody
  <1>. HIDE DEF settle, base, body, strict, newest
  <1>3. Terminal(case.native.row) /\ NativeReplays(case) /\ strict.reason = None /\ f = body
    BY <1>1, <1>2
  <1>4. PICK e, d : e = case.native.evaluated /\ d = case.native.row.date
    OBVIOUS
  <1>5. /\ f.native = case.native /\ f.maturity = d /\ f.price = strict.price
        /\ f.sources = {case.source, newest} /\ f.native.evaluated = e
    BY <1>3, <1>4 DEF body
  <1>6. /\ prediction # None /\ e \in 1..Len(fetched) /\ Len(fetched) \in Nat
        /\ case.assessed \in 1..Len(fetched) /\ e <= case.assessed
        /\ case.source \in stored /\ case.source <= e
    BY <1>3, <1>4 DEF SourceRead, MarketOK
  <1>7. PICK a \in 1..Len(fetched) : a = case.source
    BY <1>6 DEF MarketOK
  <1>8. a \in Visible(case.assessed)
    BY <1>6, <1>7 DEF Visible
  <1>9. PICK n \in 1..Len(fetched) : n = newest /\ a <= n
    BY <1>8, VisibleFacts DEF AsOf, newest
  <1>11. f.sources = {a, n}
    BY <1>5, <1>7, <1>9
  <1>12. f.sources \in SUBSET (0..Len(fetched)) /\ f.sources \subseteq 1..Len(fetched)
    BY <1>11
  <1>13. Max(f.sources) = n
    <2>1. Max(f.sources) \in f.sources /\ \A j \in f.sources : j <= Max(f.sources)
      BY <1>6, <1>11, <1>12, Extremes
    <2>. QED
      BY <1>6, <1>9, <1>11, <2>1
  <1>14. ~Torn(f) => Max({i \in f.sources : i <= e}) = a
    <2>1. SUFFICES ASSUME ~Torn(f)
                   PROVE  Max({i \in f.sources : i <= e}) = a
      OBVIOUS
    <2>. DEFINE S == {i \in f.sources : i <= e}
    <2>2. S \in SUBSET (0..Len(fetched)) /\ a \in S
      BY <1>6, <1>7, <1>11, <1>12
    <2>3. Max(S) \in S
      BY <1>6, <2>2, Extremes
    <2>4. ~(a < n /\ n <= e)
      BY <1>5, <1>11, <2>1 DEF Torn
    <2>. QED
      BY <1>6, <1>9, <1>11, <2>3, <2>4
  <1>15. Resolve(a, d) = case.native.row
    BY <1>3, <1>4, <1>7 DEF NativeReplays
  <1>16. Strict(n, d) = [reason |-> None, price |-> f.price]
    <2>1. strict = Strict(n, d)
      BY <1>4, <1>9 DEF strict
    <2>2. \/ strict.reason \in {"unavailable", "endpoint_unverified", "basis_incompatible"}
          \/ strict = [reason |-> None, price |-> Closes(n)[d]]
      BY <2>1 DEF Strict
    <2>3. strict = [reason |-> None, price |-> Closes(n)[d]]
      BY <1>3, <2>2, StudyAssumption
    <2>4. strict.price = Closes(n)[d]
      BY <2>3
    <2>. QED
      BY <1>5, <2>1, <2>3, <2>4
  <1>17. ~Torn(f) => AssessmentProved(f)
    BY <1>5, <1>13, <1>14, <1>15, <1>16 DEF AssessmentProved
  <1>18. \E i \in f.sources : i <= f.native.evaluated
    BY <1>5, <1>6, <1>7, <1>11
  <1>. QED
    BY <1>6, <1>12, <1>17, <1>18

\* Whatever is found is of the case.
LEMMA FoundOfCase ==
  ASSUME NEW case, NEW t
  PROVE  FirstBody(case, t).session = case.session
  <1>. DEFINE newest == AsOf(case.assessed)
              strict == Strict(newest, case.native.row.date)
              base == Unsettled(case)
              settle(state, reason) == [base EXCEPT !.state = state, !.reason = reason]
              body == [session |-> case.session, state |-> "accepted", reason |-> None,
                       native |-> case.native, sources |-> {case.source, newest},
                       maturity |-> case.native.row.date, price |-> strict.price]
  <1>1. /\ base.session = case.session /\ body.session = case.session
        /\ \A state, reason : settle(state, reason).session = case.session
    BY DEF Unsettled
  <1>2. PICK f : f = FirstBody(case, t)
    OBVIOUS
  <1>3. f = IF ~Terminal(case.native.row) THEN base
            ELSE IF ~NativeReplays(case) THEN settle("quarantined", "cutoff_unverified")
            ELSE IF case.native.row.date > t
                 THEN IF case.native.row.status = "matured" THEN base
                      ELSE settle("quarantined", "basis_incompatible")
            ELSE IF strict.reason # None THEN settle("quarantined", strict.reason)
            ELSE body
    BY <1>2 DEF FirstBody
  <1>. HIDE DEF settle, base, body, strict, newest
  <1>. QED
    BY <1>1, <1>2, <1>3

\* A case is assessed once: then it is confirmed or challenged.
LEMMA AssessStep ==
  ASSUME MarketOK, UNCHANGED marketVars, StudyOK, NEW w \in Workers, Assess(w)
  PROVE  StudyOK' /\ Additions
  <1>1. PICK case : case = work[w].case
    OBVIOUS
  <1>2. PICK s, accepted : s = case.session /\ accepted = case.prior
    OBVIOUS
  <1>3. PICK found : found = IF accepted = {} THEN FirstBody(case, work[w].through)
                             ELSE LaterBody(case, CHOOSE a \in accepted : TRUE)
    OBVIOUS
  <1>4. PICK job : job = [pc |-> "scan", job |-> work[w].job, through |-> work[w].through,
                          cases |-> work[w].cases \ {s},
                          assets |-> work[w].assets \cup {found} \cup
                                       IF found.state = "challenge" THEN accepted ELSE {}]
    OBVIOUS
  <1>5. /\ work[w].pc = "judge" /\ assessments' = assessments \cup {found} /\ Set(w, job)
        /\ UNCHANGED <<activation, shots, successes>>
    BY <1>1, <1>2, <1>3, <1>4 DEF Assess, Doing
  <1>6. /\ job.pc = "scan" /\ job.job = work[w].job
        /\ job.assets \subseteq work[w].assets \cup {found} \cup accepted
    BY <1>4
  <1>20. accepted = Accepted(s) /\ SourceRead(case)
    BY <1>1, <1>2, <1>5 DEF StudyOK, CasesOK
  <1>7. accepted \subseteq assessments /\ \A a \in assessments :
          a \in accepted <=> a.session = s /\ a.state = "accepted"
    BY <1>20 DEF Accepted
  <1>23. work[w].case.session = s
    BY <1>1, <1>2
  <1>. HIDE <1>1, <1>4
  <1>21. ASSUME accepted # {}
         PROVE  found.session = s /\ (found \in accepted \/ found.state = "challenge")
    <2>1. PICK prior : prior = CHOOSE a \in accepted : TRUE
      OBVIOUS
    <2>2. prior \in accepted
      BY <1>21, <2>1
    <2>3. found = LaterBody(case, prior)
      BY <1>3, <1>21, <2>1
    <2>4. found = prior \/ (found.state = "challenge" /\ found.session = prior.session)
      BY <2>3 DEF LaterBody
    <2>. QED
      BY <1>7, <2>2, <2>4
  <1>22. found.session = s
    <2>1. CASE accepted = {}
      <3>1. PICK t : t = work[w].through
        OBVIOUS
      <3>2. found = FirstBody(case, t)
        BY <1>3, <2>1, <3>1
      <3>. QED
        BY <1>2, <3>2, FoundOfCase
    <2>. QED
      BY <1>21, <2>1
  <1>8. ASSUME found.state = "accepted", found \notin assessments
        PROVE  /\ prediction # None
               /\ found.sources \subseteq 1..Len(fetched)
               /\ ~Torn(found) => AssessmentProved(found)
               /\ \E i \in found.sources : i <= found.native.evaluated
               /\ accepted = {}
    <2>1. accepted = {}
      BY <1>7, <1>8, <1>21
    <2>2. PICK t : t = work[w].through
      OBVIOUS
    <2>3. found = FirstBody(case, t) /\ case.prior = {}
      BY <1>2, <1>3, <2>1, <2>2
    <2>. QED
      BY <1>8, <1>20, <2>1, <2>3, FirstAccepted
  <1>. HIDE <1>2, <1>3
  <1>9. AssessmentsOK'
    <2>1. \A a \in assessments : a.state = "accepted" =>
            /\ prediction # None
            /\ a.sources \subseteq 1..Len(fetched) /\ (~Torn(a) => AssessmentProved(a))
            /\ \E i \in a.sources : i <= a.native.evaluated
            /\ \A b \in assessments : b.state = "accepted" /\ b.session = a.session => b = a
      BY DEF StudyOK, AssessmentsOK
    <2>2. ASSUME NEW a \in assessments', a.state = "accepted"
          PROVE  /\ prediction # None
                 /\ a.sources \subseteq 1..Len(fetched) /\ (~Torn(a) => AssessmentProved(a))
                 /\ \E i \in a.sources : i <= a.native.evaluated
      <3>1. a \in assessments \/ (a = found /\ found \notin assessments)
        BY <1>5
      <3>. QED
        BY <1>8, <2>1, <2>2, <3>1
    <2>3. ASSUME NEW a \in assessments', a.state = "accepted",
                 NEW b \in assessments', b.state = "accepted", b.session = a.session
          PROVE  b = a
      <3>1. \A x \in assessments' : x \in assessments \/ (x = found /\ found \notin assessments)
        BY <1>5
      <3>2. CASE a \in assessments /\ b \in assessments
        BY <2>1, <2>3, <3>2
      <3>3. CASE a = found /\ found \notin assessments
        BY <1>7, <1>8, <1>22, <2>3, <3>1, <3>3
      <3>4. CASE b = found /\ found \notin assessments
        BY <1>7, <1>8, <1>22, <2>3, <3>1, <3>4
      <3>. QED
        BY <3>1, <3>2, <3>3, <3>4
    <2>4. ASSUME NEW a \in assessments', a.state = "accepted"
          PROVE  /\ prediction' # None /\ a.sources \subseteq 1..Len(fetched')
                 /\ ~Torn(a) => AssessmentProved(a)'
      <3>1. ~Torn(a) => AssessmentProved(a)'
        BY <2>2, <2>4, AssessmentGrown, MarketKept
      <3>. QED
        BY <2>2, <2>4, <3>1 DEF marketVars
    <2>. QED
      BY <2>2, <2>3, <2>4 DEF AssessmentsOK, Torn
  <1>10. JobsOK'
    <2>1. Durable(work[w].job, work[w].assets) /\ work[w].job[1] = "evaluate"
      BY <1>5 DEF StudyOK, JobsOK
    <2>2. work[w].assets \subseteq assessments
      BY <2>1 DEF Durable
    <2>3. job.assets \subseteq assessments'
      BY <1>5, <1>6, <1>7, <2>2
    <2>4. job.job[1] = "evaluate"
      BY <1>6, <2>1
    <2>5. Durable(job.job, job.assets)'
      BY <2>3, <2>4 DEF Durable
    <2>6. \A x \in successes' :
            x \in successes \/ (Durable(x.job, x.assets)' /\ x.finished \in Nat)
      BY <1>5
    <2>7. shots \subseteq shots' /\ assessments \subseteq assessments'
      BY <1>5
    <2>. QED
      BY <1>5, <2>4, <2>5, <2>6, <2>7, WorkSet DEF StudyOK
  <1>11. ShotsOK'
    BY <1>5, MarketKept, ShotsGrown DEF StudyOK
  <1>12. CasesOK'
    <2>1. /\ work'[w] = job
          /\ \A v \in Workers : v # w => work'[v] = work[v]
      BY <1>5 DEF StudyOK, JobsOK, Set
    <2>2. \A v \in Workers : work'[v].pc = "judge" =>
            v # w /\ work'[v] = work[v] /\ work[v].pc = "judge"
      BY <1>6, <2>1
    <2>3. \A v \in Workers : v # w /\ work[v].pc = "judge" => work[v].case.session # s
      BY <1>23, <1>5 DEF StudyOK, CasesOK
    <2>4. ASSUME NEW v \in Workers, work'[v].pc = "judge"
          PROVE  (work[v].case.prior = Accepted(work[v].case.session)
                  /\ SourceRead(work[v].case))'
      <3>1. PICK z : z = work[v].case.session
        OBVIOUS
      <3>2. z # s
        BY <2>2, <2>3, <2>4, <3>1
      <3>3. Accepted(z)' = Accepted(z)
        BY <1>5, <1>22, <3>2 DEF Accepted
      <3>4. work'[v] = work[v] /\ work[v].pc = "judge"
        BY <2>2, <2>4
      <3>. QED
        BY <3>1, <3>3, <3>4, MarketKept, CaseKept DEF StudyOK
    <2>5. ASSUME NEW v \in Workers, NEW u \in Workers, work'[v].pc = "judge",
                 work'[u].pc = "judge", work'[v].case.session = work'[u].case.session
          PROVE  v = u
      BY <2>2, <2>5 DEF StudyOK, CasesOK
    <2>. QED
      BY <2>4, <2>5 DEF CasesOK
  <1>. QED
    BY <1>5, <1>9, <1>10, <1>11, <1>12 DEF StudyOK, Additions

LEMMA StudyStep ==
  ASSUME MarketOK, UNCHANGED marketVars, OutcomeOK, StudyOK, Study
  PROVE  StudyOK' /\ Additions
  BY ActivateStudyStep, CaptureStep, BeginEvaluateStep, OpenCaseStep, AssessStep, SucceedStep,
     StopStep
     DEF Study

-----------------------------------------------------------------------------
(* What stands *)

LEMMA StudyIsProved ==
  ASSUME StudyOK
  PROVE  StudyProved
  <1>1. ASSUME NEW c \in shots
        PROVE  Cardinality(Shot(c.session)) = 1 /\ c.session >= Epoch
    <2>1. c.session >= Epoch /\ \A d \in shots : d.session = c.session => d = c
      BY DEF StudyOK, ShotsOK
    <2>2. Shot(c.session) = {c}
      BY <2>1 DEF Shot
    <2>. QED
      BY <2>1, <2>2, FS_Singleton
  <1>2. ASSUME NEW s \in Sessions
        PROVE  Cardinality(Accepted(s)) <= 1
    <2>1. CASE Accepted(s) = {}
      <3>1. Cardinality({}) = 0
        BY FS_EmptySet
      <3>2. Cardinality(Accepted(s)) = 0
        BY ONLY <2>1, <3>1
      <3>. QED
        BY <3>2
    <2>2. CASE Accepted(s) # {}
      <3>1. PICK a \in Accepted(s) : TRUE
        BY <2>2
      <3>2. a \in assessments /\ a.session = s /\ a.state = "accepted"
        BY <3>1 DEF Accepted
      <3>3. \A b \in assessments : b.state = "accepted" /\ b.session = s => b = a
        BY <3>2 DEF StudyOK, AssessmentsOK
      <3>4. Accepted(s) = {a}
        BY <3>2, <3>3 DEF Accepted
      <3>5. Cardinality({a}) = 1
        BY FS_Singleton
      <3>6. Cardinality(Accepted(s)) = 1
        BY <3>4, <3>5
      <3>. QED
        BY <3>6
    <2>. QED
      BY <2>1, <2>2
  <1>3. ASSUME NEW a \in assessments
        PROVE  ~Torn(a) => AssessmentProved(a)
    BY DEF StudyOK, AssessmentsOK, AssessmentProved
  <1>. QED
    BY <1>1, <1>2, <1>3 DEF StudyProved

\* Witnesses of an instant that has passed are what they were.
LEMMA WitnessesStand ==
  ASSUME MarketOK, Additions, NEW t \in Nat, t < clock, NEW kind, NEW asset
  PROVE  WitnessedBy(kind, asset, t)' <=> WitnessedBy(kind, asset, t)
  <1>1. clock \in Nat /\ ~(clock <= t)
    BY DEF MarketOK
  <1>2. \A r : (r \in successes' /\ r.finished <= t) <=> (r \in successes /\ r.finished <= t)
    BY <1>1 DEF Additions
  <1>. QED
    BY <1>2 DEF WitnessedBy, Naming

LEMMA WitnessesStay ==
  ASSUME Additions, NEW t, NEW kind, NEW asset, WitnessedBy(kind, asset, t)
  PROVE  WitnessedBy(kind, asset, t)'
  BY DEF Additions, WitnessedBy, Naming

\* What a success names is durable.
LEMMA WitnessedIsThere ==
  ASSUME StudyOK, NEW t, NEW asset
  PROVE  /\ WitnessedBy("capture", asset, t) => asset \in shots
         /\ WitnessedBy("evaluate", asset, t) => asset \in assessments
  BY DEF StudyOK, JobsOK, Durable, WitnessedBy, Naming

LEMMA ActiveStands ==
  ASSUME MarketOK, Additions, activation # None, NEW t \in Nat, t < clock
  PROVE  ActiveBefore(t)' <=> ActiveBefore(t)
  <1>1. PICK a : a = activation
    OBVIOUS
  <1>2. activation' = a /\ a # None
    BY <1>1 DEF Additions
  <1>3. WitnessedBy("activate", a, t)' <=> WitnessedBy("activate", a, t)
    BY WitnessesStand
  <1>. QED
    BY <1>1, <1>2, <1>3 DEF ActiveBefore

\* A capture that a success named is judged by instants that have passed.
LEMMA ShotStateStands ==
  ASSUME MarketOK, StudyOK, Additions, activation # None, NEW t \in Nat, t < clock,
         NEW c \in shots, WitnessedBy("capture", c, t)
  PROVE  ShotState(c)' = ShotState(c)
  <1>1. PICK s \in Nat : s = c.session /\ 2 * s < clock
    BY ClosedFacts DEF StudyOK, ShotsOK
  <1>2. clock \in Nat
    BY DEF MarketOK
  <1>3. ActiveBefore(2 * s)' <=> ActiveBefore(2 * s)
    BY <1>1, ActiveStands
  <1>4. WitnessedBy("capture", c, 2 * s + 1)' <=> WitnessedBy("capture", c, 2 * s + 1)
    <2>1. CASE 2 * s + 1 < clock
      BY <1>1, <2>1, WitnessesStand
    <2>2. CASE ~(2 * s + 1 < clock)
      <3>1. t <= 2 * s
        BY <1>1, <1>2, <2>2
      <3>2. PICK r \in Naming("capture", c) : r.finished <= t
        BY DEF WitnessedBy
      <3>3. r.finished \in Nat
        BY <3>2 DEF Naming, StudyOK, JobsOK
      <3>4. r.finished <= 2 * s + 1
        BY <1>1, <3>1, <3>2, <3>3
      <3>5. WitnessedBy("capture", c, 2 * s + 1)
        BY <3>2, <3>4 DEF WitnessedBy
      <3>. QED
        BY <3>5, WitnessesStay
    <2>. QED
      BY <2>1, <2>2
  <1>. QED
    BY <1>1, <1>3, <1>4 DEF ShotState, BeforeClose, BeforeOpen

\* The study of an instant that has passed says what it said.
LEMMA ReportStands ==
  ASSUME MarketOK, StudyOK, Additions, NEW t \in Nat, t < clock
  PROVE  ReportsStand(t)
  <1>1. SUFFICES ASSUME Available(t)
                 PROVE  Available(t)' /\ Report(t)' = Report(t)
    BY DEF ReportsStand
  <1>2. activation # None /\ activation' = activation
    BY <1>1 DEF Available, ActiveBefore, Additions
  <1>3. Available(t)'
    BY <1>1, <1>2, ActiveStands DEF Available
  <1>4. Epoch' = Epoch
    BY <1>2 DEF Epoch, BeforeClose
  <1>5. Reported(t)' = Reported(t)
    BY <1>4 DEF Reported, BeforeClose
  <1>6. ASSUME NEW s
        PROVE  /\ SessionState(s, t)' = SessionState(s, t)
               /\ CaseState(s, t)' = CaseState(s, t)
    <2>. DEFINE seen == VisibleShots(t) \cap Shot(s)
                said == {a \in assessments : a.session = s /\ WitnessedBy("evaluate", a, t)}
    <2>1. \A c : c \in seen <=> c.session = s /\ WitnessedBy("capture", c, t)
      BY WitnessedIsThere DEF VisibleShots, Shot
    <2>2. \A c : c \in seen' <=> c.session = s /\ WitnessedBy("capture", c, t)
      <3>1. ASSUME NEW c
            PROVE  c \in seen' <=> c.session = s /\ WitnessedBy("capture", c, t)
        <4>1. WitnessedBy("capture", c, t)' <=> WitnessedBy("capture", c, t)
          BY WitnessesStand
        <4>2. WitnessedBy("capture", c, t) => c \in shots'
          BY WitnessedIsThere DEF Additions
        <4>. QED
          BY <4>1, <4>2 DEF VisibleShots, Shot
      <3>. QED
        BY <3>1
    <2>3. seen' = seen
      BY <2>1, <2>2
    <2>4. \A c \in seen : ShotState(c)' = ShotState(c)
      <3>1. ASSUME NEW c \in seen
            PROVE  ShotState(c)' = ShotState(c)
        <4>1. c \in shots /\ WitnessedBy("capture", c, t)
          BY <2>1 DEF Shot
        <4>. QED
          BY <1>2, <4>1, ShotStateStands
      <3>. QED
        BY <3>1
    <2>5. ASSUME NEW a
          PROVE  a \in said' <=> a \in said
      <3>1. WitnessedBy("evaluate", a, t)' <=> WitnessedBy("evaluate", a, t)
        BY WitnessesStand
      <3>2. WitnessedBy("evaluate", a, t) => a \in assessments /\ a \in assessments'
        BY WitnessedIsThere DEF Additions
      <3>. QED
        BY <3>1, <3>2
    <2>6. said' = said
      BY <2>5
    <2>. HIDE DEF seen, said
    <2>7. {ShotState(c)' : c \in seen} = {ShotState(c) : c \in seen}
      BY <2>4
    <2>8. SessionState(s, t)' = SessionState(s, t)
      BY <2>3, <2>7 DEF SessionState, seen, BeforeOpen
    <2>9. CaseState(s, t)' = CaseState(s, t)
      BY <2>6 DEF CaseState, said
    <2>. QED
      BY <2>8, <2>9
  <1>7. Report(t)' = Report(t)
    BY <1>5, <1>6 DEF Report
  <1>. QED
    BY <1>3, <1>7

\* A captured session gets no further attempt.
LEMMA AttemptsStand ==
  ASSUME MarketOK, UNCHANGED marketVars, PaperOK, Paper
  PROVE  /\ captures \subseteq captures'
         /\ \A c \in captures : Len(jobs'[c.session]) = Len(jobs[c.session])
  <1>1. ASSUME UNCHANGED <<captures, jobs>>
        PROVE  /\ captures \subseteq captures'
               /\ \A c \in captures : Len(jobs'[c.session]) = Len(jobs[c.session])
    BY <1>1
  <1>2. \A c \in captures : c.session \in Sessions
    BY DEF PaperOK, Marks
  <1>3. ASSUME NEW p \in Callers, NEW s \in Sessions, Attempt(p, s)
        PROVE  /\ captures \subseteq captures'
               /\ \A c \in captures : Len(jobs'[c.session]) = Len(jobs[c.session])
    <2>1. /\ Captured(s) = {} /\ Len(jobs[s]) + 1 <= MaxAttempts /\ captures' = captures
          /\ jobs' = [jobs EXCEPT ![s] = Append([i \in DOMAIN @ |-> Superseded(@[i])], Running)]
      BY <1>3 DEF Attempt, Settled
    <2>2. \A t \in Sessions : t # s => Len(jobs'[t]) = Len(jobs[t])
      BY <2>1, RowAdded DEF PaperOK
    <2>3. \A c \in captures : c.session # s
      BY <2>1 DEF Captured
    <2>. QED
      BY <1>2, <2>1, <2>2, <2>3
  <1>4. ASSUME NEW p \in Callers, Publish(p)
        PROVE  /\ captures \subseteq captures'
               /\ \A c \in captures : Len(jobs'[c.session]) = Len(jobs[c.session])
    <2>1. PICK s, j, ref, c : Published(s, j, ref, c)
      BY <1>4, PublishShape
    <2>. QED
      BY <1>2, <2>1 DEF Published
  <1>5. ASSUME NEW p \in Callers, NEW status \in {"running", "failed", "success"},
               SetStatus(p, status), calls[p].pc \in {"task", "prove", "final"},
               UNCHANGED captures
        PROVE  /\ captures \subseteq captures'
               /\ \A c \in captures : Len(jobs'[c.session]) = Len(jobs[c.session])
    <2>1. calls[p].session \in Sessions
      BY <1>5, AtWork
    <2>2. \A t \in Sessions : Len(jobs'[t]) = Len(jobs[t])
      BY <1>5, <2>1, StatusSet DEF PaperOK
    <2>. QED
      BY <1>2, <1>5, <2>2
  <1>6. CASE Declare \/ Activate
    BY <1>1, <1>6 DEF Declare, Activate
  <1>7. ASSUME NEW p \in Callers, Refresh(p) \/ AfterMarket(p) \/ TakeCutoff(p) \/ Die(p)
        PROVE  UNCHANGED <<captures, jobs>>
    BY <1>7 DEF Refresh, AfterMarket, TakeCutoff, Die
  <1>8. ASSUME NEW p \in Callers, Withhold(p)
        PROVE  /\ captures \subseteq captures'
               /\ \A c \in captures : Len(jobs'[c.session]) = Len(jobs[c.session])
    BY <1>5, <1>8 DEF Withhold, At
  <1>9. ASSUME NEW p \in Callers, Finish(p)
        PROVE  /\ captures \subseteq captures'
               /\ \A c \in captures : Len(jobs'[c.session]) = Len(jobs[c.session])
    BY <1>5, <1>9 DEF Finish, At
  <1>. QED
    BY <1>1, <1>3, <1>4, <1>6, <1>7, <1>8, <1>9 DEF Paper

LEMMA CaptureStands ==
  ASSUME PaperOK, PaperOK', captures \subseteq captures',
         \A c \in captures : Len(jobs'[c.session]) = Len(jobs[c.session])
  PROVE  CapturesStand(captures, captures')
  <1>1. SUFFICES ASSUME NEW c \in captures
                 PROVE  /\ {d \in captures' : d.session = c.session} = {c}
                        /\ Len(jobs'[c.session]) = Len(jobs[c.session])
                        /\ jobs'[c.session][c.job].origin = Binding(c)
    BY DEF CapturesStand
  <1>2. c \in captures' /\ \A d \in captures' : d.session = c.session => d = c
    BY DEF PaperOK, Marks
  <1>3. activations' # <<>>
    BY <1>2 DEF PaperOK, BeforeActivation
  <1>4. Readable'
    BY <1>3 DEF PaperOK
  <1>5. OriginProved(c)'
    BY <1>2, <1>4 DEF Readable
  <1>6. jobs'[c.session][c.job].origin = Binding(c)
    BY <1>5 DEF OriginProved, Binding
  <1>. QED
    BY <1>2, <1>6

-----------------------------------------------------------------------------
(* The theorems *)

LEMMA InitOK ==
  ASSUME Init
  PROVE  IInv
  <1>1. LastSession \in Nat /\ MaxVintages \in Nat /\ MaxAttempts \in Nat
    BY HistoriesAssumption, PaperAssumption
  <1>2. MarketOK
    BY <1>1 DEF Init, MarketInit, MarketOK
  <1>3. PaperOK
    <2>1. /\ declarations = <<>> /\ activations = <<>> /\ execution = None /\ captures = {}
          /\ jobs = [s \in Sessions |-> <<>>] /\ calls = [p \in Callers |-> Idle]
          /\ Idle.pc = "idle"
      BY DEF Init, PaperInit, Idle
    <2>2. Declared /\ BeforeActivation /\ Proving /\ Marks
      BY <2>1 DEF Declared, BeforeActivation, Proving, Marks
    <2>3. CallsOK
      <3>1. jobs \in [Sessions -> Seq(Rows)]
        BY <2>1
      <3>2. \A s \in Sessions : Len(jobs[s]) <= MaxAttempts
        BY <1>1, <2>1
      <3>. QED
        BY <2>1, <3>1, <3>2 DEF CallsOK
    <2>. QED
      BY <2>1, <2>2, <2>3 DEF PaperOK
  <1>4. OutcomeOK
    BY DEF Init, OutcomeOK, Terminal, Pending
  <1>5. ShotsOK /\ AssessmentsOK /\ JobsOK /\ CasesOK
    BY DEF Init, StudyInit, ShotsOK, AssessmentsOK, JobsOK, CasesOK, Free
  <1>. QED
    BY <1>2, <1>3, <1>4, <1>5 DEF IInv

\* One step of the record: the invariant, and what the step leaves standing.
LEMMA NextOK ==
  ASSUME IInv, [Next]_vars
  PROVE  /\ IInv'
         /\ [CapturesStand(captures, captures')]_<<captures, jobs>>
         /\ [Terminal(outcome.row) => outcome' = outcome]_outcome
         /\ [recorded' # recorded => \A t \in 0..clock - 1 : ReportsStand(t)]_vars
  <1>. USE DEF IInv
  <1>1. CASE UNCHANGED vars
    <2>1. UNCHANGED <<marketVars, paperVars, outcome, studyVars>>
      BY <1>1 DEF vars
    <2>2. MarketOK' /\ Grows
      BY <2>1, MarketKept
    <2>3. PaperOK' /\ OutcomeOK' /\ StudyOK'
      BY <2>1, <2>2, PaperGrown, OutcomeGrown, StudyGrown DEF StudyOK
    <2>. QED
      BY <1>1, <2>1, <2>2, <2>3 DEF StudyOK, paperVars
  <1>2. CASE Market /\ UNCHANGED <<paperVars, outcome, studyVars>>
    <2>1. MarketOK' /\ Grows
      BY <1>2, MarketStep
    <2>2. PaperOK' /\ OutcomeOK' /\ StudyOK'
      BY <1>2, <2>1, PaperGrown, OutcomeGrown, StudyGrown DEF StudyOK
    <2>. QED
      BY <1>2, <2>1, <2>2 DEF StudyOK, paperVars, studyVars, recorded
  <1>3. CASE Paper /\ UNCHANGED <<marketVars, outcome, studyVars>>
    <2>1. MarketOK' /\ Grows
      BY <1>3, MarketKept
    <2>2. PaperOK'
      BY <1>3, PaperStep
    <2>3. OutcomeOK' /\ StudyOK'
      BY <1>3, <2>1, OutcomeGrown, StudyGrown DEF StudyOK
    <2>4. CapturesStand(captures, captures')
      BY <1>3, <2>2, AttemptsStand, CaptureStands
    <2>. QED
      BY <1>3, <2>1, <2>2, <2>3, <2>4 DEF StudyOK, studyVars, recorded
  <1>4. CASE Evaluate /\ UNCHANGED <<marketVars, paperVars, studyVars>>
    <2>1. MarketOK' /\ Grows
      BY <1>4, MarketKept
    <2>2. PaperOK' /\ StudyOK'
      BY <1>4, <2>1, PaperGrown, StudyGrown DEF StudyOK
    <2>3. OutcomeOK' /\ (Terminal(outcome.row) => outcome' = outcome)
      BY <1>4, EvaluateStep
    <2>. QED
      BY <1>4, <2>1, <2>2, <2>3 DEF StudyOK, paperVars, studyVars, recorded
  <1>5. CASE Study /\ UNCHANGED <<marketVars, paperVars, outcome>>
    <2>1. MarketOK' /\ Grows
      BY <1>5, MarketKept
    <2>2. PaperOK' /\ OutcomeOK'
      BY <1>5, <2>1, PaperGrown, OutcomeGrown
    <2>3. StudyOK' /\ Additions
      BY <1>5, StudyStep DEF StudyOK
    <2>4. ASSUME NEW t \in 0..clock - 1
          PROVE  ReportsStand(t)
      <3>1. t \in Nat /\ t < clock
        BY DEF MarketOK
      <3>. QED
        BY <2>3, <3>1, ReportStands DEF StudyOK
    <2>. QED
      BY <1>5, <2>1, <2>2, <2>3, <2>4 DEF StudyOK, paperVars
  <1>. QED
    BY <1>1, <1>2, <1>3, <1>4, <1>5 DEF Next

\* The state of the market, of both records and of those who write them, as the services
\* of paper_trading, the outcome evaluation and the shadow study keep it.
THEOREM Invariance == Spec => []IInv
  <1>1. Init => IInv
    BY InitOK
  <1>2. IInv /\ [Next]_vars => IInv'
    BY NextOK
  <1>. QED
    BY <1>1, <1>2, PTL DEF Spec

\* Whatever the provider restates, whoever dies or commits late: read_state can prove an
\* activated paper record and every mark of it, and the study proves each accepted
\* assessment from its own assets, at any time, unless the second of these is a history of
\* the outcome's time that committed while the case was being assessed.
THEOREM RecordReadable == Spec => []RecordStaysReadable
  <1>1. IInv => RecordStaysReadable
    BY StudyIsProved DEF IInv, PaperOK, StudyOK, RecordStaysReadable
  <1>. QED
    BY <1>1, Invariance, PTL

\* A terminal outcome resolves to the row that was written, from the histories visible as
\* of its evaluation, unless one of these was uncommitted when it was read.
THEOREM OutcomeStays == Spec => []OutcomeReplays
  <1>1. IInv => OutcomeReplays
    BY OutcomeReplayed DEF IInv
  <1>. QED
    BY <1>1, Invariance, PTL

\* What is committed stands: captures and their rows, a terminal outcome, and every answer
\* of read_shadow_study as of an instant that has passed.
THEOREM Standing == Spec => CommittedStands
  <1>1. IInv /\ [Next]_vars =>
          /\ [CapturesStand(captures, captures')]_<<captures, jobs>>
          /\ [Terminal(outcome.row) => outcome' = outcome]_outcome
          /\ [recorded' # recorded => \A t \in 0..clock - 1 : ReportsStand(t)]_vars
    BY NextOK
  <1>. QED
    BY <1>1, Invariance, PTL DEF Spec, CommittedStands
=============================================================================

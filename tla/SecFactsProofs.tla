-------------------------- MODULE SecFactsProofs --------------------------
(***************************************************************************)
(* Proofs about SecFacts for any accessions, values, payloads and calendar,*)
(* any databases from before the observation events, and any runs that stop*)
(* anywhere.  Every revision of a fact can be traced to the payload it was *)
(* made of, and every payload that facts were made of to a revision that   *)
(* says the same and is shown wherever the payload is; a replay adds       *)
(* nothing.                                                                *)
(***************************************************************************)
EXTENDS SecFacts, TLAPS, WellFoundedInduction

-----------------------------------------------------------------------------
(* The inductive invariant *)

Rows == [value : Values, accepted : Nat, available : Nat, bound : BOOLEAN,
         asset : Nat, filing : Nat]

TypeOK ==
  /\ now \in Times /\ upgraded \in Nat /\ upgraded < now
  /\ observed \in [Times -> Contents \cup {None}]
  /\ \A t \in Retrieved : t <= now
  /\ \A t \in Retrieved : t <= upgraded => \E v \in Values : observed[t] = Only(v)
  /\ submissions \in [SUBSET Accessions -> Nat]
  /\ facts \in [Accessions -> Seq(Rows)]
  /\ normalised \subseteq (SUBSET Accessions) \X Times

\* Lists of filings grow, and name only what has been accepted.
Listed(s) == s \in SUBSET Accessions /\ submissions[s] # 0
ListsOK ==
  /\ \A s \in SUBSET Accessions : Listed(s) =>
       /\ First \in s /\ submissions[s] <= now
       /\ \A a \in s : AcceptedAt[a] <= submissions[s]
  /\ \A s, t \in SUBSET Accessions :
       Listed(s) /\ Listed(t) /\ s \subseteq t => submissions[s] <= submissions[t]
  /\ \A n \in normalised : Listed(n[1]) /\ n[2] \in Retrieved

\* A run has the longest list, and makes facts of the newest payload.  Without an event that
\* is the newest asset, and then nothing has been corrected.
RunOK ==
  /\ run = Idle \/ run = [pc |-> run.pc, listed |-> run.listed, fetched |-> run.fetched,
                          payload |-> run.payload, at |-> run.at, checked |-> run.checked,
                          missing |-> run.missing]
  /\ run.pc \in {"idle", "fetch", "normalise", "verify"}
  /\ run.pc # "idle" =>
       Listed(run.listed) /\ \A s \in SUBSET Accessions : Listed(s) => s \subseteq run.listed
  /\ run.pc = "normalise" =>
       /\ run.at \in Retrieved /\ run.payload = observed[run.at]
       /\ Events # {} => run.at = Max(Events)
       /\ Events = {} =>
            run.at = RetrievedAt(run.payload) /\ \A a \in Accessions : Len(facts[a]) <= 1

Acceptance(s, a) == IF a \in s THEN AcceptedAt[a] ELSE FiledDayAfter[a]
Filed(n, a) == IF a \in n[1] THEN submissions[n[1]] ELSE RetrievedAt(observed[n[2]])

\* Where a revision comes from: an older database, or a payload and a list.
LegacyRow(a, i) ==
  LET f == facts[a][i] IN
  /\ a = First /\ ~f.bound /\ f.accepted = 0 /\ f.available = 0 /\ f.filing = 1
  /\ f.asset \in Retrieved /\ f.asset <= upgraded /\ observed[f.asset][a] = f.value

AppendedRow(n, a, i) ==
  LET accepted == Acceptance(n[1], a) IN
  /\ observed[n[2]][a] # None
  /\ facts[a][i] = Revision(observed[n[2]][a], accepted,
                            IF i = 1 THEN accepted ELSE Max({accepted, n[2]}), i # 1,
                            RetrievedAt(observed[n[2]]), Filed(n, a))

FactsOK ==
  \A a \in Accessions : \A i \in 1..Len(facts[a]) :
    /\ LegacyRow(a, i) \/ \E n \in normalised : AppendedRow(n, a, i)
    /\ i # 1 /\ ~facts[a][i].bound => \A k \in 1..i : LegacyRow(a, k)

MadeOK ==
  /\ \A n \in normalised, a \in Accessions : observed[n[2]][a] # None => facts[a] # <<>>
  /\ Events = {} /\ Len(facts[First]) = 1 =>
       \A n \in normalised : observed[n[2]][First] = facts[First][1].value

\* What making facts of the payload of t once more, with the list s, would find.
HeadAt(s, t, a) ==
  /\ Latest(a).asset = RetrievedAt(observed[t]) /\ Latest(a).accepted = Acceptance(s, a)
  /\ Latest(a).available = Max({Acceptance(s, a), t})
OrderedAt(t) ==
  Events \cup {u \in Retrieved \ Events :
                 /\ u = RetrievedAt(observed[u])
                 /\ \A e \in Events : e <= t => observed[e] # observed[u]}
BeforeAt(t, a) == {u \in OrderedAt(t) : u < t /\ observed[u][a] # None}
SaysSame(s, t, a) ==
  Latest(a).value = observed[t][a] /\ Latest(a).accepted = Acceptance(s, a)
Repeats(s, t, a) ==
  /\ SaysSame(s, t, a)
  /\ HeadAt(s, t, a) \/ BeforeAt(t, a) = {} \/ observed[Max(BeforeAt(t, a))][a] = observed[t][a]
  /\ ~NeedsRebinding(a)
\* An original made of a payload, while an earlier one was left without facts.
Overlooked(s, t, a) ==
  /\ SaysSame(s, t, a) /\ Len(facts[a]) = 1
  /\ \E u \in Retrieved : u < t /\ observed[u][a] # None /\ ~Made(u)

CurrentWith(s, t) ==
  /\ <<s, t>> \in normalised /\ \A n \in normalised : n[1] \subseteq s
  /\ \A a \in Accessions :
       observed[t][a] # None => facts[a] # <<>> /\ (Repeats(s, t, a) \/ Overlooked(s, t, a))
CurrentOK ==
  Events # {} /\ Made(Max(Events)) =>
    \E s \in SUBSET Accessions : CurrentWith(s, Max(Events))

\* The revision that stands for a payload says the same, and is shown from the payload on;
\* later revisions are of later payloads.
Covers(j, n, a) ==
  LET f == facts[a][j] IN
  /\ f.value = observed[n[2]][a] /\ f.accepted = Acceptance(n[1], a)
  /\ f.asset <= n[2] /\ f.available <= Max({Acceptance(n[1], a), n[2]})
  /\ f.filing <= Max({submissions[n[1]], n[2]})
  /\ j = 1 \/ f.bound \/ Proven(facts[a], 1..Len(facts[a]))[j] # None
  /\ \A i \in 1..Len(facts[a]) : j < i =>
       \E m \in normalised : m[2] >= n[2] /\ AppendedRow(m, a, i)
  /\ a \notin n[1] => \A k \in 1..j : facts[a][k].accepted = FiledDayAfter[a]

CoveredOK ==
  \A n \in normalised, a \in Accessions :
    n[2] \in Events /\ observed[n[2]][a] # None =>
      \E j \in 1..Len(facts[a]) : Covers(j, n, a)

IInv == TypeOK /\ ListsOK /\ RunOK /\ FactsOK /\ MadeOK /\ CurrentOK /\ CoveredOK

-----------------------------------------------------------------------------
(* The least and the greatest of some numbers *)

LEMMA Least ==
  ASSUME NEW N \in SUBSET Nat, N # {}
  PROVE  Min(N) \in N /\ \A j \in N : Min(N) <= j
  <1>1. IsWellFoundedOn(OpToRel(<, Nat), Nat)
    BY NatLessThanWellFounded
  <1>2. PICK m \in N : \A k \in N : <<k, m>> \notin OpToRel(<, Nat)
    BY <1>1, WFMin
  <1>3. \A k \in N : ~(k < m)
    BY <1>2 DEF OpToRel
  <1>4. \A k \in N : m <= k
    BY <1>3
  <1>. QED
    BY <1>4 DEF Min

LEMMA Greatest ==
  ASSUME NEW N \in SUBSET Nat, N # {}, NEW n \in Nat, \A j \in N : j <= n
  PROVE  Max(N) \in N /\ \A j \in N : j <= Max(N)
  <1>. DEFINE M == {m \in Nat : \A j \in N : j <= m}
  <1>1. n \in M /\ M \in SUBSET Nat
    OBVIOUS
  <1>2. PICK m \in M : \A k \in M : m <= k
    BY <1>1, Least
  <1>3. ASSUME m \notin N
        PROVE  FALSE
    <2>1. PICK j \in N : TRUE
      OBVIOUS
    <2>2. \A k \in N : k <= m - 1
      BY <1>2, <1>3
    <2>3. m - 1 \in M
      BY <1>2, <2>1, <2>2
    <2>. QED
      BY <1>2, <2>3
  <1>4. \E x \in N : \A y \in N : x >= y
    BY <1>2, <1>3
  <1>. QED
    BY <1>4 DEF Max

LEMMA MaxOfTwo ==
  ASSUME NEW x \in Nat, NEW y \in Nat
  PROVE  /\ Max({x, y}) \in Nat /\ x <= Max({x, y}) /\ y <= Max({x, y})
         /\ \A z \in Nat : x <= z /\ y <= z => Max({x, y}) <= z
  <1>1. \E k \in {x, y} : \A l \in {x, y} : k >= l
    OBVIOUS
  <1>2. Max({x, y}) \in {x, y} /\ \A l \in {x, y} : Max({x, y}) >= l
    BY <1>1 DEF Max
  <1>. QED
    BY <1>2

-----------------------------------------------------------------------------
(* What is proven of a revision depends on the revisions shown up to it *)

LEMMA Positive ==
  ASSUME NEW N \in SUBSET Nat, 0 \notin N
  PROVE  \A j \in N : j \in Nat /\ j >= 1
  OBVIOUS

LEMMA ProvenNextLocal ==
  ASSUME NEW r, NEW s, NEW X \in SUBSET Nat, NEW Y \in SUBSET Nat, NEW p, NEW q, NEW i \in Nat,
         \A j \in Nat : j <= i /\ j >= 1 => r[j] = s[j], i >= 1, 0 \notin X, 0 \notin Y,
         \A j \in Nat : j <= i => (j \in X <=> j \in Y),
         \A j \in X : j < i => p[j] = q[j]
  PROVE  ProvenNext(r, X, p, i) = ProvenNext(s, Y, q, i)
  <1>1. r[i] = s[i] /\ (i \in X <=> i \in Y)
    OBVIOUS
  <1>2. \A j : j \in {k \in X : k < i} <=> j \in {k \in Y : k < i}
    <2>1. \A j \in X : j < i => j \in Y
      OBVIOUS
    <2>2. \A j \in Y : j < i => j \in X
      OBVIOUS
    <2>. QED
      BY <2>1, <2>2
  <1>3. {k \in X : k < i} = {k \in Y : k < i}
    BY <1>2
  <1>4. \A j \in {k \in X : k < i} : r[j] = s[j] /\ p[j] = q[j]
    <2>1. \A j \in X : j \in Nat /\ j >= 1
      BY Positive
    <2>. QED
      BY <2>1
  <1>. DEFINE B == {k \in X : k < i}
              C == {k \in Y : k < i}
              own == Max({s[i].available, s[i].asset})
  <1>5. /\ (\E j \in B : <<r[j].value, r[j].accepted>> = <<s[i].value, s[i].accepted>>)
             <=> (\E j \in C : <<s[j].value, s[j].accepted>> = <<s[i].value, s[i].accepted>>)
        /\ (\E j \in B : p[j] # None /\ p[j] > own) <=> (\E j \in C : q[j] # None /\ q[j] > own)
    BY <1>3, <1>4
  <1>6. ProvenNext(r, X, p, i) =
          IF i \notin X THEN None
          ELSE IF i = 1 \/ s[i].bound THEN s[i].available
          ELSE IF \/ \E j \in B : <<r[j].value, r[j].accepted>> = <<s[i].value, s[i].accepted>>
                  \/ \E j \in B : p[j] # None /\ p[j] > own
               THEN None
          ELSE own
    BY <1>1 DEF ProvenNext
  <1>7. ProvenNext(s, Y, q, i) =
          IF i \notin Y THEN None
          ELSE IF i = 1 \/ s[i].bound THEN s[i].available
          ELSE IF \/ \E j \in C : <<s[j].value, s[j].accepted>> = <<s[i].value, s[i].accepted>>
                  \/ \E j \in C : q[j] # None /\ q[j] > own
               THEN None
          ELSE own
    BY DEF ProvenNext
  <1>. HIDE DEF B, C, own
  <1>. QED
    BY <1>1, <1>5, <1>6, <1>7

\* The recursion has a solution.
LEMMA ProvenIs ==
  ASSUME NEW r, Len(r) \in Nat, NEW X \in SUBSET (1..Len(r))
  PROVE  Proven(r, X) = [i \in 1..Len(r) |-> ProvenNext(r, X, Proven(r, X), i)]
  <1>. DEFINE Bad == {m \in 0..Len(r) :
                        ~\E p : p = [i \in 1..m |-> ProvenNext(r, X, p, i)]}
  <1>1. ASSUME Bad # {}
        PROVE  FALSE
    <2>0. Bad \in SUBSET Nat
      OBVIOUS
    <2>1. PICK m \in Bad : \A k \in Bad : m <= k
      BY <1>1, <2>0, Least
    <2>2. m # 0
      <3>1. <<>> = [i \in 1..0 |-> ProvenNext(r, X, <<>>, i)]
        OBVIOUS
      <3>. QED
        BY <3>1, <2>1
    <2>3. m \in 1..Len(r) /\ m - 1 \in 0..Len(r) /\ m - 1 \notin Bad
      BY <2>1, <2>2
    <2>4. PICK p : p = [i \in 1..(m - 1) |-> ProvenNext(r, X, p, i)]
      BY <2>3
    <2>. DEFINE q == [i \in 1..m |-> IF i < m THEN p[i] ELSE ProvenNext(r, X, p, m)]
    <2>5. ASSUME NEW i \in 1..m
          PROVE  ProvenNext(r, X, p, i) = ProvenNext(r, X, q, i)
      <3>1. \A j \in X : j < i => p[j] = q[j]
        BY <2>3
      <3>2. i \in Nat /\ i >= 1 /\ X \in SUBSET Nat /\ 0 \notin X
        OBVIOUS
      <3>. HIDE DEF q
      <3>. QED
        BY <3>1, <3>2, ProvenNextLocal
    <2>6. ASSUME NEW i \in 1..m
          PROVE  q[i] = ProvenNext(r, X, q, i)
      <3>1. CASE i < m
        <4>1. i \in 1..(m - 1)
          BY <2>3, <3>1
        <4>2. p[i] = ProvenNext(r, X, p, i)
          BY <2>4, <4>1
        <4>. QED
          BY <2>5, <3>1, <4>2
      <3>2. CASE ~(i < m)
        <4>1. i = m
          BY <2>3, <3>2
        <4>. QED
          BY <2>5, <4>1
      <3>. QED
        BY <3>1, <3>2
    <2>7. q = [i \in 1..m |-> ProvenNext(r, X, q, i)]
      <3>1. q = [i \in 1..m |-> q[i]]
        OBVIOUS
      <3>. HIDE DEF q
      <3>. QED
        BY <2>6, <3>1
    <2>. QED
      BY <2>1, <2>7
  <1>2. \E p : p = [i \in 1..Len(r) |-> ProvenNext(r, X, p, i)]
    BY <1>1
  <1>. QED
    BY <1>2 DEF Proven

\* The same revisions up to i, shown alike: the same is proven of i.
LEMMA ProvenLocal ==
  ASSUME NEW r, NEW s, Len(r) \in Nat, Len(s) \in Nat,
         NEW X \in SUBSET (1..Len(r)), NEW Y \in SUBSET (1..Len(s)), NEW n \in Nat,
         n <= Len(r), n <= Len(s), \A j \in 1..n : r[j] = s[j] /\ (j \in X <=> j \in Y)
  PROVE  \A i \in 1..n : Proven(r, X)[i] = Proven(s, Y)[i]
  <1>. DEFINE P == Proven(r, X)
              Q == Proven(s, Y)
              Bad == {i \in 1..n : P[i] # Q[i]}
  <1>1. ASSUME Bad # {}
        PROVE  FALSE
    <2>1. Bad \in SUBSET Nat
      OBVIOUS
    <2>2. PICK m \in Bad : \A k \in Bad : m <= k
      BY <1>1, <2>1, Least
    <2>3. m \in 1..n /\ \A j \in 1..n : j < m => P[j] = Q[j]
      BY <2>2
    <2>4. P[m] = ProvenNext(r, X, P, m)
      BY <2>3, ProvenIs
    <2>5. Q[m] = ProvenNext(s, Y, Q, m)
      BY <2>3, ProvenIs
    <2>6. ProvenNext(r, X, P, m) = ProvenNext(s, Y, Q, m)
      <3>1. /\ X \in SUBSET Nat /\ Y \in SUBSET Nat /\ 0 \notin X /\ 0 \notin Y
            /\ m \in Nat /\ m >= 1
        BY <2>3
      <3>2. /\ \A j \in Nat : j <= m /\ j >= 1 => r[j] = s[j]
            /\ \A j \in Nat : j <= m => (j \in X <=> j \in Y)
            /\ \A j \in X : j < m => P[j] = Q[j]
        BY <2>3
      <3>. HIDE DEF P, Q
      <3>. QED
        BY <3>1, <3>2, ProvenNextLocal
    <2>. QED
      BY <2>2, <2>4, <2>5, <2>6
  <1>. QED
    BY <1>1

-----------------------------------------------------------------------------
(* The times on file *)

LEMMA OnFile ==
  ASSUME TypeOK
  PROVE  /\ now \in Nat /\ upgraded \in Nat /\ Retrieved \in SUBSET Nat /\ Events \in SUBSET Nat
         /\ \A t \in Retrieved : t \in Times /\ t \in 1..now /\ observed[t] \in Contents
         /\ \A t \in Retrieved, a \in Accessions : observed[t][a] \in Values \cup {None}
         /\ \A t \in Retrieved :
              /\ RetrievedAt(observed[t]) \in Retrieved
              /\ observed[RetrievedAt(observed[t])] = observed[t]
              /\ \A u \in Retrieved : observed[u] = observed[t] => RetrievedAt(observed[t]) <= u
         /\ Events # {} => Max(Events) \in Events /\ \A e \in Events : e <= Max(Events)
  <1>1. Times \in SUBSET Nat /\ now \in Nat /\ Retrieved \in SUBSET Nat /\ Events \in SUBSET Nat
    BY SecAssumption DEF TypeOK, Times, Retrieved, Events
  <1>2. \A t \in Retrieved : t \in Times /\ t \in 1..now /\ observed[t] \in Contents
    <2>. SUFFICES ASSUME NEW t \in Retrieved
                  PROVE  t \in Times /\ t \in 1..now /\ observed[t] \in Contents
      OBVIOUS
    <2>1. t \in Times /\ observed[t] # None /\ t <= now
      BY DEF TypeOK, Retrieved
    <2>2. observed[t] \in Contents
      BY <2>1 DEF TypeOK
    <2>. QED
      BY <1>1, <2>1, <2>2 DEF Times
  <1>3. \A t \in Retrieved, a \in Accessions : observed[t][a] \in Values \cup {None}
    BY <1>2 DEF Contents
  <1>4. ASSUME NEW t \in Retrieved
        PROVE  /\ RetrievedAt(observed[t]) \in Retrieved
               /\ observed[RetrievedAt(observed[t])] = observed[t]
               /\ \A u \in Retrieved : observed[u] = observed[t] => RetrievedAt(observed[t]) <= u
    <2>. DEFINE N == {u \in Retrieved : observed[u] = observed[t]}
    <2>1. N \in SUBSET Nat /\ N # {}
      BY <1>1
    <2>2. Min(N) \in N /\ \A j \in N : Min(N) <= j
      BY <2>1, Least
    <2>. QED
      BY <2>2 DEF RetrievedAt
  <1>5. ASSUME Events # {}
        PROVE  Max(Events) \in Events /\ \A e \in Events : e <= Max(Events)
    <2>1. \A e \in Events : e <= now
      BY DEF Events, TypeOK
    <2>. QED
      BY <1>1, <1>5, <2>1, Greatest
  <1>. QED
    BY <1>1, <1>2, <1>3, <1>4, <1>5 DEF TypeOK

-----------------------------------------------------------------------------
(* The initial states *)

LEMMA FunctionIsSeq ==
  ASSUME NEW S, NEW n \in Nat, NEW f \in [1..n -> S]
  PROVE  f \in Seq(S) /\ Len(f) = n
  OBVIOUS

LEMMA InitOK ==
  ASSUME Init
  PROVE  IInv
  <1>1. PICK h \in Legacy :
          /\ now = Len(h.values) + 1 /\ upgraded = Len(h.values)
          /\ observed = [t \in Times |-> IF t <= Len(h.values) THEN Only(h.values[t]) ELSE None]
          /\ submissions = [s \in SUBSET Accessions |->
                             IF s = {First} /\ h.values # <<>> THEN 1 ELSE 0]
          /\ facts = [a \in Accessions |-> IF a = First THEN Chain(h) ELSE <<>>]
          /\ run = Idle
          /\ normalised = {<<{First}, h.made[i]>> : i \in 1..Len(h.made)}
    BY DEF Init
  <1>. DEFINE N == Len(h.values)
              K == Len(h.made)
  <1>2. /\ First \in Accessions /\ None \notin Values /\ None \notin Contents /\ AcceptedAt[First] = 0
        /\ h.values \in Seq(Values) /\ N \in Nat /\ N < MaxTime /\ MaxTime \in Nat
        /\ h.made \in Seq(1..N) /\ K \in Nat
    BY SecAssumption
  <1>3. \A i \in 1..K : h.made[i] \in 1..N /\ h.made[i] \in Nat
    <2>1. \A i \in 1..K : h.made[i] \in 1..N
      BY <1>2
    <2>. QED
      BY <1>2, <2>1
  <1>4. 1..N \subseteq Times /\ \A t \in 1..N : h.values[t] \in Values
    BY <1>2 DEF Times
  <1>5. \A v \in Values : Only(v) \in Contents /\ Only(v)[First] = v
                          /\ \A a \in Accessions : a # First => Only(v)[a] = None
    BY <1>2 DEF Only, Contents
  <1>6. \A t \in 1..N : observed[t] = Only(h.values[t]) /\ observed[t] # None
    <2>1. ASSUME NEW t \in 1..N
          PROVE  observed[t] = Only(h.values[t])
      <3>1. t \in Times /\ t <= Len(h.values)
        BY <1>2, <1>4
      <3>. QED
        BY <1>1, <3>1
    <2>. QED
      BY <1>2, <1>4, <1>5, <2>1
  <1>7. Retrieved = 1..N
    <2>1. \A t \in Times : observed[t] # None <=> t \in 1..N
      <3>1. ASSUME NEW t \in Times, t \notin 1..N
            PROVE  observed[t] = None
        BY <1>1, <1>2, <3>1 DEF Times
      <3>. QED
        BY <1>6, <3>1
    <2>. QED
      BY <1>4, <2>1 DEF Retrieved
  <1>8. Events = {}
    BY <1>1, <1>2, <1>7 DEF Events
  <1>. DEFINE Asset(t) == Min({u \in 1..N : h.values[u] = h.values[t]})
  <1>9. \A t \in 1..N : Asset(t) \in 1..N /\ h.values[Asset(t)] = h.values[t]
    <2>. SUFFICES ASSUME NEW t \in 1..N
                  PROVE  Asset(t) \in 1..N /\ h.values[Asset(t)] = h.values[t]
      OBVIOUS
    <2>. DEFINE M == {u \in 1..N : h.values[u] = h.values[t]}
    <2>1. M \in SUBSET Nat /\ M # {}
      BY <1>2
    <2>2. Min(M) \in M
      BY <2>1, Least
    <2>. QED
      BY <2>2
  <1>. HIDE DEF Asset
  <1>10. Chain(h) = [i \in 1..K |-> Revision(h.values[h.made[i]], 0, 0, FALSE, Asset(h.made[i]), 1)]
    BY DEF Chain, Asset
  <1>11. \A i \in 1..K :
           /\ Chain(h)[i] = Revision(h.values[h.made[i]], 0, 0, FALSE, Asset(h.made[i]), 1)
           /\ Chain(h)[i] \in Rows
    <2>. SUFFICES ASSUME NEW i \in 1..K
                  PROVE  /\ Chain(h)[i] = Revision(h.values[h.made[i]], 0, 0, FALSE, Asset(h.made[i]), 1)
                         /\ Chain(h)[i] \in Rows
      OBVIOUS
    <2>1. Chain(h)[i] = Revision(h.values[h.made[i]], 0, 0, FALSE, Asset(h.made[i]), 1)
      BY <1>10
    <2>2. h.values[h.made[i]] \in Values /\ Asset(h.made[i]) \in Nat
      BY <1>2, <1>3, <1>4, <1>9
    <2>. QED
      BY <2>1, <2>2 DEF Revision, Rows
  <1>12. Chain(h) \in Seq(Rows) /\ Len(Chain(h)) = K
    <2>1. Chain(h) = [i \in 1..K |-> Chain(h)[i]]
      BY <1>10
    <2>2. Chain(h) \in [1..K -> Rows]
      BY <1>11, <2>1
    <2>. QED
      BY <1>2, <2>2, FunctionIsSeq
  <1>13. /\ facts[First] = Chain(h) /\ Len(facts[First]) = K
         /\ \A a \in Accessions : a # First => facts[a] = <<>> /\ Len(facts[a]) = 0
    BY <1>1, <1>2, <1>12
  <1>14. \A s \in SUBSET Accessions : Listed(s) => s = {First} /\ submissions[s] = 1 /\ N >= 1
    <2>. SUFFICES ASSUME NEW s \in SUBSET Accessions, submissions[s] # 0
                  PROVE  s = {First} /\ submissions[s] = 1 /\ N >= 1
      BY DEF Listed
    <2>1. s = {First} /\ h.values # <<>> /\ submissions[s] = 1
      BY <1>1
    <2>2. N # 0
      BY <1>2, <2>1
    <2>. QED
      BY <1>2, <2>1, <2>2
  <1>15. ASSUME NEW n \in normalised
         PROVE  \E i \in 1..K : n[1] = {First} /\ n[2] = h.made[i]
    BY <1>1
  <1>16. TypeOK
    <2>1. now \in Times /\ upgraded \in Nat /\ upgraded < now
      BY <1>1, <1>2 DEF Times
    <2>2. observed \in [Times -> Contents \cup {None}]
      <3>1. observed = [t \in Times |-> observed[t]]
        BY <1>1
      <3>2. \A t \in Times : observed[t] \in Contents \cup {None}
        BY <1>4, <1>5, <1>6, <1>7 DEF Retrieved
      <3>. QED
        BY <3>1, <3>2
    <2>3. \A t \in Retrieved : t <= now
      BY <1>1, <1>2, <1>7
    <2>4. \A t \in Retrieved : t <= upgraded => \E v \in Values : observed[t] = Only(v)
      BY <1>4, <1>6, <1>7
    <2>5. submissions \in [SUBSET Accessions -> Nat]
      BY <1>1
    <2>6. facts \in [Accessions -> Seq(Rows)]
      <3>1. facts = [a \in Accessions |-> facts[a]]
        BY <1>1
      <3>2. \A a \in Accessions : facts[a] \in Seq(Rows)
        <4>1. <<>> \in Seq(Rows)
          OBVIOUS
        <4>. QED
          BY <1>12, <1>13, <4>1
      <3>. QED
        BY <3>1, <3>2
    <2>7. normalised \subseteq (SUBSET Accessions) \X Times
      BY <1>1, <1>2, <1>3, <1>4
    <2>. QED
      BY <2>1, <2>2, <2>3, <2>4, <2>5, <2>6, <2>7 DEF TypeOK
  <1>17. ListsOK
    <2>1. \A s \in SUBSET Accessions : Listed(s) =>
            /\ First \in s /\ submissions[s] <= now
            /\ \A a \in s : AcceptedAt[a] <= submissions[s]
      <3>. SUFFICES ASSUME NEW s \in SUBSET Accessions, Listed(s)
                    PROVE  /\ First \in s /\ submissions[s] <= now
                           /\ \A a \in s : AcceptedAt[a] <= submissions[s]
        OBVIOUS
      <3>1. s = {First} /\ submissions[s] = 1 /\ N >= 1
        BY <1>14
      <3>2. submissions[s] <= now
        BY <1>1, <1>2, <3>1
      <3>3. AcceptedAt[First] <= submissions[s]
        BY <1>2, <3>1
      <3>. QED
        BY <3>1, <3>2, <3>3
    <2>2. \A s, t \in SUBSET Accessions :
            Listed(s) /\ Listed(t) /\ s \subseteq t => submissions[s] <= submissions[t]
      BY <1>14
    <2>3. ASSUME NEW n \in normalised
          PROVE  Listed(n[1]) /\ n[2] \in Retrieved
      <3>1. PICK i \in 1..K : n[1] = {First} /\ n[2] = h.made[i]
        BY <1>15
      <3>2. n[2] \in 1..N
        BY <1>3, <3>1
      <3>3. h.values # <<>>
        BY <1>2, <3>2
      <3>4. submissions[{First}] = 1 /\ {First} \in SUBSET Accessions
        BY <1>1, <1>2, <3>3
      <3>. QED
        BY <1>7, <3>1, <3>2, <3>4 DEF Listed
    <2>. QED
      BY <2>1, <2>2, <2>3 DEF ListsOK
  <1>18. RunOK
    BY <1>1 DEF RunOK, Idle
  <1>19. FactsOK
    <2>1. ASSUME NEW a \in Accessions, NEW i \in 1..Len(facts[a])
          PROVE  LegacyRow(a, i)
      <3>1. a = First /\ i \in 1..K
        BY <1>13
      <3>2. facts[a][i] = Revision(h.values[h.made[i]], 0, 0, FALSE, Asset(h.made[i]), 1)
        BY <1>11, <1>13, <3>1
      <3>3. /\ Asset(h.made[i]) \in 1..N /\ h.values[Asset(h.made[i])] = h.values[h.made[i]]
            /\ h.values[h.made[i]] \in Values
        BY <1>3, <1>4, <1>9, <3>1
      <3>4. observed[Asset(h.made[i])][First] = h.values[h.made[i]]
        BY <1>5, <1>6, <3>3
      <3>5. Asset(h.made[i]) \in Retrieved /\ Asset(h.made[i]) <= upgraded
        BY <1>1, <1>2, <1>7, <3>3
      <3>. QED
        BY <3>1, <3>2, <3>4, <3>5 DEF LegacyRow, Revision
    <2>2. ASSUME NEW a \in Accessions, NEW i \in 1..Len(facts[a])
          PROVE  \A k \in 1..i : LegacyRow(a, k)
      <3>1. 1..i \subseteq 1..Len(facts[a])
        BY <1>2, <1>13
      <3>. QED
        BY <2>1, <3>1
    <2>. QED
      BY <2>1, <2>2 DEF FactsOK
  <1>20. MadeOK
    <2>1. ASSUME NEW n \in normalised, NEW a \in Accessions, observed[n[2]][a] # None
          PROVE  facts[a] # <<>>
      <3>1. PICK i \in 1..K : n[2] = h.made[i]
        BY <1>15
      <3>2. a = First
        BY <1>3, <1>4, <1>5, <1>6, <2>1, <3>1
      <3>. QED
        BY <1>2, <1>13, <3>1, <3>2
    <2>2. ASSUME Len(facts[First]) = 1, NEW n \in normalised
          PROVE  observed[n[2]][First] = facts[First][1].value
      <3>1. PICK i \in 1..K : n[2] = h.made[i]
        BY <1>15
      <3>2. i = 1 /\ K = 1
        BY <1>13, <2>2, <3>1
      <3>3. facts[First][1].value = h.values[h.made[1]]
        BY <1>11, <1>13, <3>2 DEF Revision
      <3>. QED
        BY <1>3, <1>4, <1>5, <1>6, <3>1, <3>2, <3>3
    <2>. QED
      BY <2>1, <2>2 DEF MadeOK
  <1>21. CurrentOK /\ CoveredOK
    BY <1>8 DEF CurrentOK, CoveredOK
  <1>. QED
    BY <1>16, <1>17, <1>18, <1>19, <1>20, <1>21 DEF IInv

-----------------------------------------------------------------------------
(* Steps that add no facts *)

LEMMA NamedNormalised ==
  ASSUME TypeOK, ListsOK, NEW n \in normalised
  PROVE  n[1] \in SUBSET Accessions /\ n[2] \in Retrieved /\ n[2] \in Nat /\ Listed(n[1])
         /\ submissions[n[1]] \in Nat /\ n = <<n[1], n[2]>>
  <1>1. n \in (SUBSET Accessions) \X Times
    BY DEF TypeOK
  <1>2. n[2] \in Retrieved /\ Listed(n[1])
    BY DEF ListsOK
  <1>. QED
    BY <1>1, <1>2, OnFile DEF TypeOK

\* What facts were made of stays on file.
LEMMA FactsFrame ==
  ASSUME IInv, facts' = facts, normalised' = normalised, upgraded' = upgraded,
         \A t \in Retrieved : /\ t \in Retrieved' /\ observed'[t] = observed[t]
                              /\ RetrievedAt(observed[t])' = RetrievedAt(observed[t]),
         \A s \in SUBSET Accessions : Listed(s) => submissions'[s] = submissions[s]
  PROVE  FactsOK' /\ CoveredOK'
  <1>1. \A n \in normalised : /\ n[1] \in SUBSET Accessions /\ n[2] \in Retrieved
                              /\ submissions'[n[1]] = submissions[n[1]]
                              /\ observed'[n[2]] = observed[n[2]]
                              /\ RetrievedAt(observed[n[2]])' = RetrievedAt(observed[n[2]])
    BY NamedNormalised DEF IInv
  <1>2. ASSUME NEW a, NEW i, LegacyRow(a, i)
        PROVE  LegacyRow(a, i)'
    BY <1>2 DEF LegacyRow
  <1>3. ASSUME NEW a, NEW i, NEW n \in normalised, AppendedRow(n, a, i)
        PROVE  AppendedRow(n, a, i)'
    <2>1. Filed(n, a)' = Filed(n, a)
      BY <1>1 DEF Filed
    <2>. QED
      BY <1>1, <1>3, <2>1 DEF AppendedRow
  <1>4. ASSUME NEW a, NEW j, NEW n \in normalised, Covers(j, n, a)
        PROVE  Covers(j, n, a)'
    <2>1. \A i \in 1..Len(facts[a]) : j < i =>
            \E m \in normalised : m[2] >= n[2] /\ AppendedRow(m, a, i)'
      BY <1>3, <1>4 DEF Covers
    <2>. QED
      BY <1>1, <1>4, <2>1 DEF Covers
  <1>5. FactsOK'
    BY <1>2, <1>3 DEF FactsOK, IInv
  <1>6. CoveredOK'
    <2>. SUFFICES ASSUME NEW n \in normalised, NEW a \in Accessions, n[2] \in Events',
                         observed'[n[2]][a] # None
                  PROVE  \E j \in 1..Len(facts[a]) : Covers(j, n, a)'
      BY DEF CoveredOK
    <2>1. n[2] \in Events /\ observed[n[2]][a] # None
      BY <1>1 DEF Events
    <2>2. PICK j \in 1..Len(facts[a]) : Covers(j, n, a)
      BY <2>1 DEF CoveredOK, IInv
    <2>. QED
      BY <1>4, <2>2
  <1>. QED
    BY <1>5, <1>6

LEMMA SameFiles ==
  ASSUME IInv, UNCHANGED <<observed, upgraded, facts, normalised>>,
         \A s \in SUBSET Accessions : Listed(s) => submissions'[s] = submissions[s]
  PROVE  FactsOK' /\ MadeOK' /\ CurrentOK' /\ CoveredOK'
  <1>1. Retrieved' = Retrieved /\ Events' = Events
    BY DEF Retrieved, Events
  <1>2. \A p : RetrievedAt(p)' = RetrievedAt(p)
    BY <1>1 DEF RetrievedAt
  <1>3. FactsOK' /\ CoveredOK'
    BY <1>1, <1>2, FactsFrame
  <1>4. MadeOK'
    BY <1>1 DEF MadeOK, IInv
  <1>5. CurrentOK'
    <2>1. \A t : Made(t)' <=> Made(t)
      BY DEF Made
    <2>2. \A s, t, a : SaysSame(s, t, a)' <=> SaysSame(s, t, a)
      BY DEF SaysSame, Latest
    <2>3. \A s, t, a : HeadAt(s, t, a)' <=> HeadAt(s, t, a)
      BY <1>2 DEF HeadAt, Latest
    <2>4. \A t, a : BeforeAt(t, a)' = BeforeAt(t, a)
      BY <1>1, <1>2 DEF BeforeAt, OrderedAt
    <2>5. \A a : NeedsRebinding(a)' <=> NeedsRebinding(a)
      BY DEF NeedsRebinding, Latest
    <2>6. \A s, t, a : Repeats(s, t, a)' <=> Repeats(s, t, a)
      BY <2>2, <2>3, <2>4, <2>5 DEF Repeats
    <2>7. \A s, t, a : Overlooked(s, t, a)' <=> Overlooked(s, t, a)
      BY <1>1, <2>1, <2>2 DEF Overlooked
    <2>8. \A s, t : CurrentWith(s, t)' <=> CurrentWith(s, t)
      BY <2>6, <2>7 DEF CurrentWith
    <2>. QED
      BY <1>1, <2>1, <2>8 DEF CurrentOK, IInv
  <1>. QED
    BY <1>3, <1>4, <1>5

LEMMA StepTick ==
  ASSUME IInv, Tick
  PROVE  IInv'
  <1>1. FactsOK' /\ MadeOK' /\ CurrentOK' /\ CoveredOK'
    BY SameFiles DEF Tick
  <1>2. Retrieved' = Retrieved /\ Events' = Events /\ \A p : RetrievedAt(p)' = RetrievedAt(p)
    BY DEF Retrieved, Events, RetrievedAt, Tick
  <1>3. now \in Nat /\ now' = now + 1 /\ now' \in Times /\ upgraded \in Nat
    BY SecAssumption DEF Tick, TypeOK, Times, IInv
  <1>4. TypeOK'
    <2>1. upgraded' \in Nat /\ upgraded' < now'
      BY <1>3 DEF Tick, TypeOK, IInv
    <2>2. \A t \in Retrieved : t <= now'
      BY <1>3, OnFile DEF TypeOK, IInv
    <2>. QED
      BY <1>2, <1>3, <2>1, <2>2 DEF Tick, TypeOK, IInv
  <1>5. ListsOK'
    <2>1. \A s : Listed(s)' <=> Listed(s)
      BY DEF Listed, Tick
    <2>2. ASSUME NEW s \in SUBSET Accessions, Listed(s)
          PROVE  submissions[s] <= now'
      <3>1. submissions[s] <= now /\ submissions[s] \in Nat
        BY <2>2 DEF ListsOK, TypeOK, IInv
      <3>. QED
        BY <1>3, <3>1
    <2>. QED
      BY <1>2, <2>1, <2>2 DEF Tick, ListsOK, IInv
  <1>6. RunOK'
    <2>1. \A s : Listed(s)' <=> Listed(s)
      BY DEF Listed, Tick
    <2>. QED
      BY <1>2, <2>1 DEF Tick, RunOK, IInv
  <1>. QED
    BY <1>1, <1>4, <1>5, <1>6 DEF IInv

\* Nothing but the run and the verification changes.
LEMMA StepRun ==
  ASSUME IInv, RunOK', UNCHANGED <<now, observed, upgraded, submissions, facts, normalised>>
  PROVE  IInv'
  <1>1. FactsOK' /\ MadeOK' /\ CurrentOK' /\ CoveredOK'
    BY SameFiles
  <1>2. Retrieved' = Retrieved /\ \A s : Listed(s)' <=> Listed(s)
    BY DEF Retrieved, Listed
  <1>. QED
    BY <1>1, <1>2 DEF IInv, TypeOK, ListsOK

LEMMA StepOver ==
  ASSUME IInv, Verify \/ Fail
  PROVE  IInv'
  <1>1. UNCHANGED <<now, observed, upgraded, submissions, facts, normalised>> /\ run' = Idle
    BY DEF Verify, Fail
  <1>2. RunOK'
    BY <1>1 DEF RunOK, Idle
  <1>. QED
    BY <1>1, <1>2, StepRun

LEMMA StepStutter ==
  ASSUME IInv, UNCHANGED vars
  PROVE  IInv'
  <1>1. UNCHANGED <<now, observed, upgraded, submissions, facts, normalised, run>>
    BY DEF vars
  <1>2. RunOK'
    <2>1. Retrieved' = Retrieved /\ Events' = Events /\ \A p : RetrievedAt(p)' = RetrievedAt(p)
      BY <1>1 DEF Retrieved, Events, RetrievedAt
    <2>2. \A s : Listed(s)' <=> Listed(s)
      BY <1>1 DEF Listed
    <2>. QED
      BY <1>1, <2>1, <2>2 DEF RunOK, IInv
  <1>. QED
    BY <1>1, <1>2, StepRun

\* Without an event, the newest asset is recovered.
LEMMA RecoveredIs ==
  ASSUME TypeOK, Retrieved # {}
  PROVE  /\ Recovered.at \in Retrieved /\ Recovered.payload = observed[Recovered.at]
         /\ Events # {} => Recovered.at = Max(Events)
         /\ Events = {} => Recovered.legacy /\ Recovered.at = RetrievedAt(Recovered.payload)
  <1>1. CASE Events # {}
    <2>1. Recovered = [payload |-> observed[Max(Events)], at |-> Max(Events), legacy |-> FALSE]
      BY <1>1 DEF Recovered
    <2>2. Max(Events) \in Retrieved
      BY <1>1, OnFile DEF Events
    <2>. QED
      BY <1>1, <2>1, <2>2
  <1>2. CASE Events = {}
    <2>. DEFINE N == {RetrievedAt(observed[u]) : u \in Retrieved}
                t == Max(N)
    <2>1. N # {} /\ N \in SUBSET Nat /\ \A n \in N : n <= now
      <3>1. \A u \in Retrieved : RetrievedAt(observed[u]) \in Retrieved
        BY OnFile
      <3>2. \A u \in Retrieved : u \in Nat /\ u <= now
        BY OnFile
      <3>. QED
        BY <3>1, <3>2
    <2>2. t \in N
      <3>. HIDE DEF N
      <3>. QED
        BY <2>1, Greatest, OnFile
    <2>3. PICK u \in Retrieved : t = RetrievedAt(observed[u])
      BY <2>2
    <2>4. t \in Retrieved /\ t = RetrievedAt(observed[t])
      BY <2>3, OnFile
    <2>5. Recovered = [payload |-> observed[t], at |-> t, legacy |-> TRUE]
      BY <1>2 DEF Recovered
    <2>. HIDE DEF t
    <2>. QED
      BY <1>2, <2>4, <2>5
  <1>. QED
    BY <1>1, <1>2

LEMMA StepBegin ==
  ASSUME IInv, NEW listed \in SUBSET Accessions, Listable(listed), Begin(listed)
  PROVE  IInv'
  <1>. DEFINE new == submissions[listed] = 0
  <1>1. /\ TypeOK /\ ListsOK /\ RunOK
        /\ UNCHANGED <<now, observed, upgraded, facts, normalised>>
        /\ submissions' = [submissions EXCEPT ![listed] = IF new THEN now ELSE @]
        /\ now \in Nat /\ now >= 1 /\ submissions \in [SUBSET Accessions -> Nat]
    BY SecAssumption DEF Begin, IInv, TypeOK, Times
  <1>2. /\ \A s \in SUBSET Accessions : submissions'[s] = IF s = listed /\ new THEN now ELSE submissions[s]
        /\ submissions' \in [SUBSET Accessions -> Nat]
    BY <1>1
  <1>3. /\ First \in listed /\ \A a \in listed : AcceptedAt[a] <= now
        /\ \A t \in SUBSET Accessions : Listed(t) => t \subseteq listed
    BY DEF Listable, Listed
  <1>4. \A s \in SUBSET Accessions : Listed(s)' <=> Listed(s) \/ s = listed
    BY <1>1, <1>2 DEF Listed
  <1>5. \A s \in SUBSET Accessions : Listed(s) => submissions'[s] = submissions[s]
    BY <1>2 DEF Listed
  <1>6. FactsOK' /\ MadeOK' /\ CurrentOK' /\ CoveredOK'
    BY <1>1, <1>5, SameFiles
  <1>7. Retrieved' = Retrieved /\ Events' = Events /\ \A p : RetrievedAt(p)' = RetrievedAt(p)
    BY <1>1 DEF Retrieved, Events, RetrievedAt
  <1>8. TypeOK'
    BY <1>1, <1>2, <1>7 DEF TypeOK
  <1>9. ListsOK'
    <2>1. ASSUME NEW s \in SUBSET Accessions, Listed(s)'
          PROVE  First \in s /\ submissions'[s] <= now /\ \A a \in s : AcceptedAt[a] <= submissions'[s]
      <3>1. CASE Listed(s)
        BY <1>1, <1>5, <3>1 DEF ListsOK
      <3>2. CASE s = listed /\ new
        BY <1>1, <1>2, <1>3, <3>2
      <3>. QED
        BY <1>4, <2>1, <3>1, <3>2 DEF Listed
    <2>2. ASSUME NEW s \in SUBSET Accessions, NEW t \in SUBSET Accessions,
                 Listed(s)', Listed(t)', s \subseteq t
          PROVE  submissions'[s] <= submissions'[t]
      <3>1. submissions'[s] \in Nat /\ submissions'[s] <= now
        BY <1>2, <2>1, <2>2
      <3>2. CASE t = listed /\ new
        BY <1>2, <3>1, <3>2
      <3>3. CASE ~(t = listed /\ new) /\ Listed(s)
        <4>1. Listed(t)
          BY <1>4, <2>2, <3>3 DEF Listed
        <4>. QED
          BY <1>1, <1>5, <2>2, <3>3, <4>1 DEF ListsOK
      <3>4. CASE ~(t = listed /\ new) /\ ~Listed(s)
        <4>1. Listed(t) /\ s = listed
          BY <1>4, <2>2, <3>4 DEF Listed
        <4>2. s = t
          BY <1>3, <2>2, <4>1
        <4>. QED
          BY <1>2, <3>1, <4>2
      <3>. QED
        BY <3>2, <3>3, <3>4
    <2>3. ASSUME NEW n \in normalised
          PROVE  Listed(n[1])' /\ n[2] \in Retrieved
      BY <1>1, <1>4, NamedNormalised
    <2>. QED
      BY <1>1, <1>7, <2>1, <2>2, <2>3 DEF ListsOK
  <1>10. RunOK'
    <2>1. ASSUME run' = Idle
          PROVE  RunOK'
      BY <2>1 DEF RunOK, Idle
    <2>2. Listed(listed)' /\ \A s \in SUBSET Accessions : Listed(s)' => s \subseteq listed
      BY <1>3, <1>4
    <2>3. ASSUME run' = Task("fetch", listed, TRUE, None, 0)
          PROVE  RunOK'
      <3>1. run'.pc = "fetch" /\ run'.listed = listed
            /\ run' = [pc |-> run'.pc, listed |-> run'.listed, fetched |-> run'.fetched,
                       payload |-> run'.payload, at |-> run'.at, checked |-> run'.checked,
                       missing |-> run'.missing]
        BY <2>3 DEF Task
      <3>. QED
        BY <2>2, <3>1 DEF RunOK
    <2>4. ASSUME run' = Task("normalise", listed, FALSE, Recovered.payload, Recovered.at),
                 Retrieved # {}, Recoverable
          PROVE  RunOK'
      <3>1. run'.pc = "normalise" /\ run'.listed = listed
            /\ run'.payload = Recovered.payload /\ run'.at = Recovered.at
            /\ run' = [pc |-> run'.pc, listed |-> run'.listed, fetched |-> run'.fetched,
                       payload |-> run'.payload, at |-> run'.at, checked |-> run'.checked,
                       missing |-> run'.missing]
        BY <2>4 DEF Task
      <3>2. /\ Recovered.at \in Retrieved /\ Recovered.payload = observed[Recovered.at]
            /\ Events # {} => Recovered.at = Max(Events)
            /\ Events = {} => Recovered.legacy /\ Recovered.at = RetrievedAt(Recovered.payload)
        BY <1>1, <2>4, RecoveredIs
      <3>3. Events = {} => \A a \in Accessions : Len(facts[a]) <= 1
        BY <2>4, <3>2 DEF Recoverable
      <3>. QED
        BY <1>1, <1>7, <2>2, <3>1, <3>2, <3>3 DEF RunOK
    <2>5. MustFetch(listed, new) \/ Retrieved # {}
      BY DEF MustFetch
    <2>6. run' = IF MustFetch(listed, new) THEN Task("fetch", listed, TRUE, None, 0)
                 ELSE IF ~(~MustFetch(listed, new) /\ NormalisationComplete(listed)) /\ Recoverable
                      THEN Task("normalise", listed, FALSE, Recovered.payload, Recovered.at)
                 ELSE Idle
      BY DEF Begin
    <2>. HIDE DEF new
    <2>. QED
      BY <2>1, <2>3, <2>4, <2>5, <2>6
  <1>. QED
    BY <1>6, <1>8, <1>9, <1>10 DEF IInv

\* The retrieval of a payload: again the one that was retrieved at this instant, or a new event.
LEMMA StepFetch ==
  ASSUME IInv, NEW p \in Payloads, Fetch(p)
  PROVE  IInv'
  <1>1. /\ TypeOK /\ ListsOK /\ RunOK /\ MadeOK
        /\ UNCHANGED <<now, upgraded, submissions, facts, normalised>>
        /\ observed' = [observed EXCEPT ![now] = p]
        /\ observed[now] \in {None, p} /\ run.pc = "fetch"
        /\ run' = [run EXCEPT !.pc = "normalise", !.payload = p, !.at = now]
    BY DEF Fetch, IInv
  <1>2. /\ now \in Times /\ now \in Nat /\ upgraded \in Nat /\ upgraded < now
        /\ p \in Contents /\ p # None
    BY <1>1, SecAssumption, OnFile DEF TypeOK
  <1>3. /\ observed'[now] = p /\ \A t \in Times : t # now => observed'[t] = observed[t]
        /\ observed' \in [Times -> Contents \cup {None}]
    BY <1>1, <1>2 DEF TypeOK
  <1>4. Retrieved' = Retrieved \cup {now}
    <2>1. \A t \in Times : observed'[t] # None <=> observed[t] # None \/ t = now
      BY <1>2, <1>3
    <2>. QED
      BY <1>2, <2>1 DEF Retrieved
  <1>5. Events' = Events \cup {now}
    <2>1. \A t \in Retrieved' : t > upgraded <=> t \in Events \/ t = now
      BY <1>2, <1>4 DEF Events
    <2>. QED
      BY <1>1, <1>2, <1>4, <2>1 DEF Events
  <1>6. \A t \in Retrieved : observed'[t] = observed[t] /\ t \in Nat /\ t <= now
    BY <1>1, <1>2, <1>3, OnFile DEF Retrieved
  <1>7. Max(Events') = now
    <2>1. Events' \in SUBSET Nat /\ Events' # {} /\ \A e \in Events' : e <= now
      BY <1>2, <1>5, <1>6 DEF Events
    <2>2. Max(Events') \in Events' /\ \A e \in Events' : e <= Max(Events')
      BY <1>2, <2>1, Greatest
    <2>3. now \in Events'
      BY <1>5
    <2>4. Max(Events') \in Nat /\ Max(Events') <= now /\ now <= Max(Events')
      BY <2>1, <2>2, <2>3
    <2>5. \A m \in Nat : m <= now /\ now <= m => m = now
      BY <1>2
    <2>. QED
      BY <2>4, <2>5
  <1>8. \A t \in Retrieved : RetrievedAt(observed[t])' = RetrievedAt(observed[t])
    <2>. SUFFICES ASSUME NEW t \in Retrieved
                  PROVE  RetrievedAt(observed[t])' = RetrievedAt(observed[t])
      OBVIOUS
    <2>. DEFINE N == {u \in Retrieved : observed[u] = observed[t]}
                M == {u \in Retrieved' : observed'[u] = observed'[t]}
    <2>1. N \in SUBSET Nat /\ N # {} /\ Min(N) \in N /\ \A j \in N : Min(N) <= j
      <3>1. N \in SUBSET Nat /\ N # {}
        BY <1>6
      <3>. HIDE DEF N
      <3>. QED
        BY <3>1, Least
    <2>2. \A j : j \in M => j \in N \/ j = now
      BY <1>4, <1>6
    <2>3. N \subseteq M /\ Min(N) <= now
      BY <1>4, <1>6, <2>1
    <2>4. M \in SUBSET Nat /\ M # {} /\ Min(M) \in M /\ \A j \in M : Min(M) <= j
      <3>1. M \in SUBSET Nat /\ M # {}
        BY <1>2, <2>1, <2>2, <2>3
      <3>. HIDE DEF M
      <3>. QED
        BY <3>1, Least
    <2>5. Min(M) = Min(N)
      <3>. HIDE DEF M, N
      <3>1. Min(M) <= Min(N) /\ Min(M) \in Nat /\ Min(N) \in Nat
        BY <2>1, <2>3, <2>4
      <3>2. Min(N) <= Min(M)
        BY <1>2, <2>1, <2>2, <2>3, <2>4
      <3>. QED
        BY <3>1, <3>2
    <2>. QED
      BY <2>5 DEF RetrievedAt
  <1>9. FactsOK' /\ CoveredOK'
    BY <1>1, <1>4, <1>6, <1>8, FactsFrame
  <1>10. TypeOK'
    <2>1. \A t \in Retrieved' : t <= now
      BY <1>2, <1>4, <1>6
    <2>2. \A t \in Retrieved' : t <= upgraded => \E v \in Values : observed'[t] = Only(v)
      BY <1>1, <1>2, <1>4, <1>6 DEF TypeOK
    <2>. QED
      BY <1>1, <1>3, <2>1, <2>2 DEF TypeOK
  <1>11. \A s : Listed(s)' <=> Listed(s)
    BY <1>1 DEF Listed
  <1>12. ListsOK'
    BY <1>1, <1>4, <1>11 DEF ListsOK
  <1>13. RunOK'
    <2>1. run = [pc |-> run.pc, listed |-> run.listed, fetched |-> run.fetched,
                 payload |-> run.payload, at |-> run.at, checked |-> run.checked,
                 missing |-> run.missing]
      BY <1>1 DEF RunOK, Idle
    <2>2. run' = [pc |-> "normalise", listed |-> run.listed, fetched |-> run.fetched,
                  payload |-> p, at |-> now, checked |-> run.checked, missing |-> run.missing]
      BY <1>1, <2>1
    <2>3. /\ run'.pc = "normalise" /\ run'.listed = run.listed /\ run'.payload = p /\ run'.at = now
          /\ run' = [pc |-> run'.pc, listed |-> run'.listed, fetched |-> run'.fetched,
                     payload |-> run'.payload, at |-> run'.at, checked |-> run'.checked,
                     missing |-> run'.missing]
      BY <2>2
    <2>. QED
      BY <1>1, <1>3, <1>4, <1>5, <1>7, <1>11, <2>3 DEF RunOK
  <1>14. CASE observed[now] = p
    <2>1. observed' = observed
      BY <1>1, <1>2, <1>3, <1>14 DEF TypeOK
    <2>2. MadeOK' /\ CurrentOK'
      BY <1>1, <2>1, SameFiles
    <2>. QED
      BY <1>9, <1>10, <1>12, <1>13, <2>2 DEF IInv
  <1>15. CASE observed[now] = None
    <2>1. now \notin Retrieved
      BY <1>15 DEF Retrieved
    <2>2. \A n \in normalised : n[2] # now
      BY <1>1, <2>1, NamedNormalised
    <2>3. CurrentOK'
      <3>1. ~Made(Max(Events))'
        BY <1>1, <1>7, <2>2 DEF Made
      <3>. QED
        BY <3>1 DEF CurrentOK
    <2>4. MadeOK'
      <3>1. \A n \in normalised, a \in Accessions : observed'[n[2]][a] # None => facts[a] # <<>>
        BY <1>1, <1>6, NamedNormalised DEF MadeOK
      <3>. QED
        BY <1>1, <1>5, <3>1 DEF MadeOK
    <2>. QED
      BY <1>9, <1>10, <1>12, <1>13, <2>3, <2>4 DEF IInv
  <1>. QED
    BY <1>1, <1>14, <1>15

-----------------------------------------------------------------------------
(* Making facts of a payload *)

NewRow(s, t, a) ==
  LET accepted == Acceptance(s, a)
  IN  Revision(observed[t][a], accepted,
               IF facts[a] = <<>> THEN accepted ELSE Max({accepted, t}), facts[a] # <<>>,
               RetrievedAt(observed[t]), Filed(<<s, t>>, a))

Keeps(s, t, a) ==
  /\ facts'[a] = facts[a]
  /\ observed[t][a] = None \/ (facts[a] # <<>> /\ Repeats(s, t, a))
Adds(s, t, a) ==
  /\ facts'[a] = Append(facts[a], NewRow(s, t, a)) /\ observed[t][a] # None
  /\ facts[a] # <<>> => ~Repeats(s, t, a)

\* Facts are made of the payload of t with the list s.
MakesFacts(s, t) ==
  /\ Listed(s) /\ \A u \in SUBSET Accessions : Listed(u) => u \subseteq s
  /\ Events # {} => t = Max(Events)
  /\ Events = {} => t = RetrievedAt(observed[t]) /\ \A a \in Accessions : Len(facts[a]) <= 1
  /\ normalised' = normalised \cup {<<s, t>>}
  /\ facts' = [a \in Accessions |-> facts'[a]]
  /\ \A a \in Accessions : Keeps(s, t, a) \/ Adds(s, t, a)
  /\ UNCHANGED <<now, observed, upgraded, submissions>>

LEMMA NormaliseIs ==
  ASSUME IInv, Normalise
  PROVE  \E s \in SUBSET Accessions, t \in Retrieved : MakesFacts(s, t)
  <1>. DEFINE s == run.listed
              t == run.at
  <1>1. /\ UNCHANGED <<now, observed, upgraded, submissions>>
        /\ normalised' = normalised \cup {<<s, t>>}
        /\ facts' = [a \in Accessions |->
             IF run.payload[a] = None \/ Reused(a) THEN facts[a]
             ELSE Append(facts[a],
                    Revision(run.payload[a], Accepted(a), AvailableAt(a), facts[a] # <<>>,
                             RetrievedAt(run.payload), FilingEvidence(a)))]
        /\ run.pc = "normalise"
    BY DEF Normalise
  <1>2. /\ Listed(s) /\ \A u \in SUBSET Accessions : Listed(u) => u \subseteq s
        /\ t \in Retrieved /\ run.payload = observed[t]
        /\ Events # {} => t = Max(Events)
        /\ Events = {} => t = RetrievedAt(observed[t]) /\ \A a \in Accessions : Len(facts[a]) <= 1
    BY <1>1 DEF RunOK, IInv
  <1>3. s \in SUBSET Accessions
    BY <1>2 DEF Listed
  <1>4. ASSUME NEW a \in Accessions
        PROVE  Keeps(s, t, a) \/ Adds(s, t, a)
    <2>1. Accepted(a) = Acceptance(s, a)
      BY DEF Accepted, Acceptance
    <2>2. FilingEvidence(a) = Filed(<<s, t>>, a)
      BY <1>2 DEF FilingEvidence, Filed
    <2>3. Before(a) = BeforeAt(t, a)
      BY DEF Before, BeforeAt, Ordered, OrderedAt
    <2>4. ReplaysHead(a) <=> HeadAt(s, t, a)
      BY <1>2, <2>1 DEF ReplaysHead, HeadAt
    <2>5. Latest(a).value = observed[t][a] =>
            (Signature(a) = observed[t][a] <=>
               \/ HeadAt(s, t, a) \/ BeforeAt(t, a) = {}
               \/ observed[Max(BeforeAt(t, a))][a] = observed[t][a])
      BY <2>3, <2>4 DEF Signature
    <2>6. Reused(a) <=> facts[a] # <<>> /\ Repeats(s, t, a)
      BY <1>2, <2>1, <2>5 DEF Reused, Repeats, SaysSame
    <2>7. Revision(run.payload[a], Accepted(a), AvailableAt(a), facts[a] # <<>>,
                   RetrievedAt(run.payload), FilingEvidence(a)) = NewRow(s, t, a)
      BY <1>2, <2>1, <2>2 DEF NewRow, AvailableAt
    <2>. HIDE DEF s, t
    <2>8. facts'[a] = IF run.payload[a] = None \/ Reused(a) THEN facts[a]
                      ELSE Append(facts[a], NewRow(s, t, a))
      BY <1>1, <2>7
    <2>9. CASE observed[t][a] = None \/ Reused(a)
      BY <1>2, <2>6, <2>8, <2>9 DEF Keeps
    <2>10. CASE ~(observed[t][a] = None \/ Reused(a))
      BY <1>2, <2>6, <2>8, <2>10 DEF Adds
    <2>. QED
      BY <2>9, <2>10
  <1>5. facts' = [a \in Accessions |-> facts'[a]]
    BY <1>1
  <1>6. MakesFacts(s, t)
    <2>. HIDE DEF s, t
    <2>. QED
      BY <1>1, <1>2, <1>4, <1>5 DEF MakesFacts
  <1>. HIDE DEF s, t
  <1>. QED
    BY <1>2, <1>3, <1>6

LEMMA AcceptanceIsNat ==
  ASSUME NEW s, NEW a \in Accessions
  PROVE  Acceptance(s, a) \in Nat
  BY SecAssumption DEF Acceptance

LEMMA FactsAreRows ==
  ASSUME TypeOK, NEW a \in Accessions
  PROVE  /\ facts[a] \in Seq(Rows) /\ Len(facts[a]) \in Nat
         /\ facts[a] # <<>> <=> Len(facts[a]) >= 1
         /\ \A i \in 1..Len(facts[a]) : facts[a][i] \in Rows
  <1>1. facts[a] \in Seq(Rows)
    BY DEF TypeOK
  <1>2. \A r \in Seq(Rows) : \A i \in 1..Len(r) : r[i] \in Rows
    OBVIOUS
  <1>3. \A r \in Seq(Rows) : Len(r) \in Nat /\ (r # <<>> <=> Len(r) >= 1)
    OBVIOUS
  <1>. QED
    BY <1>1, <1>2, <1>3

LEMMA AddedRow ==
  ASSUME IInv, NEW s \in SUBSET Accessions, NEW t \in Retrieved, MakesFacts(s, t),
         NEW a \in Accessions, Adds(s, t, a)
  PROVE  /\ facts'[a] \in Seq(Rows) /\ Len(facts'[a]) = Len(facts[a]) + 1
         /\ \A i \in 1..Len(facts[a]) : facts'[a][i] = facts[a][i]
         /\ facts'[a][Len(facts[a]) + 1] = NewRow(s, t, a)
         /\ \A n \in Nat : n = Len(facts[a]) + 1 => AppendedRow(<<s, t>>, a, n)'
         /\ NewRow(s, t, a) \in Rows
  <1>. DEFINE row == NewRow(s, t, a)
  <1>1. TypeOK /\ ListsOK
    BY DEF IInv
  <1>2. row \in Rows
    <2>1. observed[t][a] \in Values
      BY <1>1, OnFile DEF Adds
    <2>2. Acceptance(s, a) \in Nat /\ t \in Nat /\ Max({Acceptance(s, a), t}) \in Nat
      BY <1>1, AcceptanceIsNat, OnFile, MaxOfTwo
    <2>3. RetrievedAt(observed[t]) \in Nat
      BY <1>1, OnFile
    <2>4. Filed(<<s, t>>, a) \in Nat
      BY <1>1, <2>3 DEF Filed, TypeOK
    <2>. QED
      BY <2>1, <2>2, <2>3, <2>4 DEF NewRow, Revision, Rows
  <1>3. facts[a] \in Seq(Rows) /\ Len(facts[a]) \in Nat /\ (facts[a] # <<>> <=> Len(facts[a]) >= 1)
    BY <1>1, FactsAreRows
  <1>. HIDE DEF row
  <1>4. facts'[a] = Append(facts[a], row)
    BY DEF Adds, row
  <1>5. \A r \in Seq(Rows) : /\ Append(r, row) \in Seq(Rows) /\ Len(Append(r, row)) = Len(r) + 1
                             /\ \A i \in 1..Len(r) : Append(r, row)[i] = r[i]
                             /\ Append(r, row)[Len(r) + 1] = row
    BY <1>2
  <1>6. /\ facts'[a] \in Seq(Rows) /\ Len(facts'[a]) = Len(facts[a]) + 1
        /\ \A i \in 1..Len(facts[a]) : facts'[a][i] = facts[a][i]
        /\ facts'[a][Len(facts[a]) + 1] = row
    BY <1>3, <1>4, <1>5
  <1>7. ASSUME NEW n \in Nat, n = Len(facts[a]) + 1
        PROVE  AppendedRow(<<s, t>>, a, n)'
    <2>1. /\ observed' = observed /\ submissions' = submissions /\ observed[t][a] # None
          /\ Retrieved' = Retrieved
      BY DEF MakesFacts, Adds, Retrieved
    <2>4. facts[a] = <<>> <=> n = 1
      BY <1>3, <1>7
    <2>5. row = Revision(observed[t][a], Acceptance(s, a),
                         IF n = 1 THEN Acceptance(s, a) ELSE Max({Acceptance(s, a), t}), n # 1,
                         RetrievedAt(observed[t]), Filed(<<s, t>>, a))
      BY <2>4 DEF row, NewRow
    <2>6. RetrievedAt(observed[t])' = RetrievedAt(observed[t]) /\ Filed(<<s, t>>, a)' = Filed(<<s, t>>, a)
      BY <2>1 DEF RetrievedAt, Filed
    <2>. QED
      BY <1>6, <1>7, <2>1, <2>5, <2>6 DEF AppendedRow
  <1>. QED
    BY <1>2, <1>6, <1>7 DEF row

\* Making facts only appends rows, at most one to each fact.
LEMMA RowsStay ==
  ASSUME IInv, NEW s \in SUBSET Accessions, NEW t \in Retrieved, MakesFacts(s, t),
         NEW a \in Accessions
  PROVE  /\ facts'[a] \in Seq(Rows) /\ Len(facts[a]) \in Nat /\ Len(facts'[a]) \in Nat
         /\ Len(facts[a]) <= Len(facts'[a])
         /\ \A i \in 1..Len(facts[a]) : facts'[a][i] = facts[a][i]
         /\ \A i \in 1..Len(facts'[a]) :
              \/ i \in 1..Len(facts[a])
              \/ i = Len(facts[a]) + 1 /\ Adds(s, t, a) /\ AppendedRow(<<s, t>>, a, i)'
         /\ \A i \in 1..Len(facts[a]) : LegacyRow(a, i) => LegacyRow(a, i)'
         /\ \A i \in 1..Len(facts[a]), n \in normalised : AppendedRow(n, a, i) => AppendedRow(n, a, i)'
  <1>0. TypeOK
    BY DEF IInv
  <1>1. facts[a] \in Seq(Rows) /\ Len(facts[a]) \in Nat
    BY <1>0, FactsAreRows
  <1>2. /\ facts'[a] \in Seq(Rows) /\ Len(facts'[a]) \in Nat /\ Len(facts[a]) <= Len(facts'[a])
        /\ \A i \in 1..Len(facts[a]) : facts'[a][i] = facts[a][i]
        /\ \A i \in 1..Len(facts'[a]) :
             \/ i \in 1..Len(facts[a])
             \/ i = Len(facts[a]) + 1 /\ Adds(s, t, a) /\ AppendedRow(<<s, t>>, a, i)'
    <2>1. CASE Keeps(s, t, a)
      BY <1>1, <2>1 DEF Keeps
    <2>2. CASE Adds(s, t, a)
      <3>1. /\ facts'[a] \in Seq(Rows) /\ Len(facts'[a]) = Len(facts[a]) + 1
            /\ \A i \in 1..Len(facts[a]) : facts'[a][i] = facts[a][i]
            /\ \A n \in Nat : n = Len(facts[a]) + 1 => AppendedRow(<<s, t>>, a, n)'
        BY <2>2, AddedRow
      <3>2. \A i \in 1..(Len(facts[a]) + 1) : i \in 1..Len(facts[a]) \/ i = Len(facts[a]) + 1
        BY <1>1
      <3>3. Len(facts[a]) + 1 \in Nat /\ Len(facts[a]) <= Len(facts[a]) + 1
        BY <1>1
      <3>. QED
        BY <2>2, <3>1, <3>2, <3>3
    <2>. QED
      BY <2>1, <2>2 DEF MakesFacts
  <1>3. Retrieved' = Retrieved /\ UNCHANGED <<observed, upgraded, submissions>>
        /\ \A p : RetrievedAt(p)' = RetrievedAt(p)
    BY DEF Retrieved, RetrievedAt, MakesFacts
  <1>4. ASSUME NEW i \in 1..Len(facts[a]), LegacyRow(a, i)
        PROVE  LegacyRow(a, i)'
    BY <1>2, <1>3, <1>4 DEF LegacyRow
  <1>5. ASSUME NEW i \in 1..Len(facts[a]), NEW n \in normalised, AppendedRow(n, a, i)
        PROVE  AppendedRow(n, a, i)'
    <2>1. Filed(n, a)' = Filed(n, a)
      BY <1>3 DEF Filed
    <2>. QED
      BY <1>2, <1>3, <1>5, <2>1 DEF AppendedRow
  <1>. QED
    BY <1>1, <1>2, <1>4, <1>5

LEMMA MakesFrame ==
  ASSUME NEW s, NEW t, MakesFacts(s, t)
  PROVE  /\ UNCHANGED <<now, observed, upgraded, submissions>> /\ normalised' = normalised \cup {<<s, t>>}
         /\ Retrieved' = Retrieved /\ Events' = Events
         /\ \A p : RetrievedAt(p)' = RetrievedAt(p)
         /\ \A u : Listed(u)' <=> Listed(u)
         /\ \A u, a : BeforeAt(u, a)' = BeforeAt(u, a)
  <1>1. UNCHANGED <<now, observed, upgraded, submissions>> /\ normalised' = normalised \cup {<<s, t>>}
    BY DEF MakesFacts
  <1>2. Retrieved' = Retrieved /\ Events' = Events
    BY <1>1 DEF Retrieved, Events
  <1>3. \A p : RetrievedAt(p)' = RetrievedAt(p)
    BY <1>2, <1>1 DEF RetrievedAt
  <1>4. \A u : Listed(u)' <=> Listed(u)
    BY <1>1 DEF Listed
  <1>5. \A u, a : BeforeAt(u, a)' = BeforeAt(u, a)
    BY <1>1, <1>2, <1>3 DEF BeforeAt, OrderedAt
  <1>. QED
    BY <1>1, <1>2, <1>3, <1>4, <1>5

LEMMA MakesTypes ==
  ASSUME IInv, NEW s \in SUBSET Accessions, NEW t \in Retrieved, MakesFacts(s, t)
  PROVE  TypeOK' /\ ListsOK'
  <1>1. TypeOK'
    <2>1. facts' \in [Accessions -> Seq(Rows)]
      <3>1. \A a \in Accessions : facts'[a] \in Seq(Rows)
        BY RowsStay
      <3>. QED
        BY <3>1 DEF MakesFacts
    <2>2. normalised' \subseteq (SUBSET Accessions) \X Times
      <3>1. t \in Times
        BY DEF Retrieved
      <3>. QED
        BY <3>1, MakesFrame DEF TypeOK, IInv
    <2>. QED
      BY <2>1, <2>2, MakesFrame DEF TypeOK, IInv
  <1>2. ListsOK'
    <2>1. \A n \in normalised' : Listed(n[1]) /\ n[2] \in Retrieved
      <3>1. Listed(s)
        BY DEF MakesFacts
      <3>2. \A n \in normalised : Listed(n[1]) /\ n[2] \in Retrieved
        BY DEF ListsOK, IInv
      <3>3. normalised' = normalised \cup {<<s, t>>}
        BY MakesFrame
      <3>. QED
        BY <3>1, <3>2, <3>3
    <2>. QED
      BY <2>1, MakesFrame DEF ListsOK, IInv
  <1>. QED
    BY <1>1, <1>2

LEMMA MakesFactsOK ==
  ASSUME IInv, NEW s \in SUBSET Accessions, NEW t \in Retrieved, MakesFacts(s, t)
  PROVE  FactsOK'
  <1>. SUFFICES ASSUME NEW a \in Accessions, NEW i \in 1..Len(facts'[a])
                PROVE  /\ LegacyRow(a, i)' \/ \E n \in normalised' : AppendedRow(n, a, i)'
                       /\ i # 1 /\ ~facts'[a][i].bound => \A k \in 1..i : LegacyRow(a, k)'
    BY DEF FactsOK
  <1>1. normalised' = normalised \cup {<<s, t>>}
    BY MakesFrame
  <1>2. CASE i \in 1..Len(facts[a])
    <2>1. LegacyRow(a, i)' \/ \E n \in normalised' : AppendedRow(n, a, i)'
      <3>1. LegacyRow(a, i) \/ \E n \in normalised : AppendedRow(n, a, i)
        BY <1>2 DEF FactsOK, IInv
      <3>. QED
        BY <1>1, <1>2, <3>1, RowsStay
    <2>2. ASSUME i # 1, ~facts'[a][i].bound
          PROVE  \A k \in 1..i : LegacyRow(a, k)'
      <3>1. ~facts[a][i].bound
        BY <1>2, <2>2, RowsStay
      <3>2. \A k \in 1..i : LegacyRow(a, k)
        BY <1>2, <2>2, <3>1 DEF FactsOK, IInv
      <3>3. 1..i \subseteq 1..Len(facts[a])
        BY <1>2, RowsStay
      <3>. QED
        BY <3>2, <3>3, RowsStay
    <2>. QED
      BY <2>1, <2>2
  <1>3. CASE i \notin 1..Len(facts[a])
    <2>1. i = Len(facts[a]) + 1 /\ Adds(s, t, a) /\ AppendedRow(<<s, t>>, a, i)'
      BY <1>3, RowsStay
    <2>2. facts'[a][i].bound = (i # 1)
      BY <2>1 DEF AppendedRow, Revision
    <2>. QED
      BY <1>1, <2>1, <2>2
  <1>. QED
    BY <1>2, <1>3

LEMMA MakesMadeOK ==
  ASSUME IInv, NEW s \in SUBSET Accessions, NEW t \in Retrieved, MakesFacts(s, t)
  PROVE  MadeOK'
  <1>1. /\ normalised' = normalised \cup {<<s, t>>} /\ observed' = observed
        /\ Retrieved' = Retrieved /\ Events' = Events
    BY MakesFrame
  <1>2. TypeOK /\ ListsOK /\ MadeOK
    BY DEF IInv
  <1>3. ASSUME NEW n \in normalised', NEW a \in Accessions, observed[n[2]][a] # None
        PROVE  facts'[a] # <<>>
    <2>0. Len(facts[a]) <= Len(facts'[a]) /\ Len(facts[a]) \in Nat /\ Len(facts'[a]) \in Nat
          /\ (facts[a] # <<>> <=> Len(facts[a]) >= 1)
      BY <1>2, RowsStay, FactsAreRows
    <2>1. CASE n \in normalised
      <3>1. facts[a] # <<>>
        BY <1>2, <1>3, <2>1 DEF MadeOK
      <3>. QED
        BY <2>0, <3>1
    <2>2. CASE n = <<s, t>>
      <3>1. CASE Keeps(s, t, a)
        <4>1. observed[t][a] # None
          BY <1>3, <2>2
        <4>. QED
          BY <4>1, <3>1 DEF Keeps
      <3>2. CASE Adds(s, t, a)
        <4>1. Len(facts'[a]) = Len(facts[a]) + 1
          BY <3>2, AddedRow
        <4>. QED
          BY <2>0, <4>1
      <3>. QED
        BY <3>1, <3>2 DEF MakesFacts
    <2>. QED
      BY <1>1, <2>1, <2>2
  <1>4. ASSUME Events = {}, Len(facts'[First]) = 1, NEW n \in normalised'
        PROVE  observed[n[2]][First] = facts'[First][1].value
    <2>1. First \in Accessions /\ None \notin Values
      BY SecAssumption
    <2>2. \A u \in Retrieved : observed[u][First] # None
      <3>1. \A u \in Retrieved : u <= upgraded
        BY <1>2, <1>4, OnFile DEF Events
      <3>. QED
        BY <1>2, <2>1, <3>1 DEF TypeOK, Only
    <2>3. /\ Len(facts[First]) <= Len(facts'[First]) /\ Len(facts[First]) \in Nat
          /\ (facts[First] # <<>> <=> Len(facts[First]) >= 1)
          /\ \A i \in 1..Len(facts[First]) : facts'[First][i] = facts[First][i]
      BY <1>2, <2>1, RowsStay, FactsAreRows
    <2>4. CASE Adds(s, t, First)
      <3>1. Len(facts'[First]) = Len(facts[First]) + 1
            /\ facts'[First][Len(facts[First]) + 1] = NewRow(s, t, First)
        BY <2>1, <2>4, AddedRow
      <3>2. Len(facts[First]) = 0 /\ facts'[First][1].value = observed[t][First]
        BY <1>4, <2>3, <3>1 DEF NewRow, Revision
      <3>3. n = <<s, t>>
        <4>1. ASSUME n \in normalised
              PROVE  FALSE
          <5>1. observed[n[2]][First] # None
            BY <1>2, <2>2, <4>1, NamedNormalised
          <5>. QED
            BY <1>2, <2>1, <2>3, <3>2, <4>1, <5>1 DEF MadeOK
        <4>. QED
          BY <1>1, <4>1
      <3>. QED
        BY <3>2, <3>3
    <2>5. CASE Keeps(s, t, First)
      <3>1. facts'[First] = facts[First] /\ facts[First] # <<>> /\ SaysSame(s, t, First)
        BY <2>2, <2>5 DEF Keeps, Repeats
      <3>2. facts[First][1].value = observed[t][First]
        BY <1>4, <3>1 DEF SaysSame, Latest
      <3>3. n \in normalised => observed[n[2]][First] = facts[First][1].value
        BY <1>2, <1>4, <3>1 DEF MadeOK
      <3>. QED
        BY <1>1, <3>1, <3>2, <3>3
    <2>. QED
      BY <2>1, <2>4, <2>5 DEF MakesFacts
  <1>. QED
    BY <1>1, <1>3, <1>4 DEF MadeOK

LEMMA MakesCurrentOK ==
  ASSUME IInv, NEW s \in SUBSET Accessions, NEW t \in Retrieved, MakesFacts(s, t)
  PROVE  CurrentOK'
  <1>1. /\ normalised' = normalised \cup {<<s, t>>} /\ observed' = observed
        /\ Retrieved' = Retrieved /\ Events' = Events
        /\ \A p : RetrievedAt(p)' = RetrievedAt(p)
        /\ \A u, a : BeforeAt(u, a)' = BeforeAt(u, a)
    BY MakesFrame
  <1>2. TypeOK /\ ListsOK /\ MadeOK
    BY DEF IInv
  <1>. SUFFICES ASSUME Events # {}
                PROVE  CurrentWith(s, t)'
    <2>1. Events # {} => t = Max(Events)
      BY DEF MakesFacts
    <2>. QED
      BY <1>1, <2>1 DEF CurrentOK
  <1>3. \A n \in normalised : n[1] \subseteq s
    BY <1>2, NamedNormalised DEF MakesFacts
  <1>4. ASSUME NEW a \in Accessions, observed[t][a] # None
        PROVE  facts'[a] # <<>> /\ (Repeats(s, t, a)' \/ Overlooked(s, t, a)')
    <2>1. facts'[a] # <<>>
      <3>1. \A n \in normalised' : observed'[n[2]][a] # None => facts'[a] # <<>>
        BY MakesMadeOK DEF MadeOK
      <3>2. <<s, t>> \in normalised' /\ <<s, t>>[2] = t
        BY <1>1
      <3>3. observed'[<<s, t>>[2]][a] # None
        BY <1>1, <1>4, <3>2
      <3>. QED
        BY <3>1, <3>2, <3>3
    <2>2. CASE Keeps(s, t, a)
      <3>1. facts'[a] = facts[a] /\ Repeats(s, t, a)
        BY <1>4, <2>2 DEF Keeps
      <3>2. Latest(a)' = Latest(a)
        BY <3>1 DEF Latest
      <3>3. NeedsRebinding(a)' <=> NeedsRebinding(a)
        BY <3>1, <3>2 DEF NeedsRebinding
      <3>. QED
        BY <1>1, <2>1, <3>1, <3>2, <3>3 DEF Repeats, SaysSame, HeadAt
    <2>3. CASE Adds(s, t, a)
      <3>1. /\ Len(facts'[a]) = Len(facts[a]) + 1 /\ Len(facts[a]) \in Nat
            /\ (facts[a] # <<>> <=> Len(facts[a]) >= 1)
            /\ Latest(a)' = NewRow(s, t, a)
        BY <1>2, <2>3, AddedRow, FactsAreRows DEF Latest
      <3>2. SaysSame(s, t, a)'
        BY <1>1, <3>1 DEF SaysSame, NewRow, Revision
      <3>3. CASE facts[a] # <<>>
        <4>1. HeadAt(s, t, a)'
          BY <1>1, <3>1, <3>3 DEF HeadAt, NewRow, Revision
        <4>2. ~NeedsRebinding(a)'
          <5>1. Latest(a)'.bound = TRUE
            <6>1. (facts[a] # <<>>) = TRUE
              BY <3>3
            <6>2. Latest(a)'.bound = (facts[a] # <<>>)
              BY <3>1 DEF NewRow, Revision
            <6>. QED
              BY <6>1, <6>2
          <5>. QED
            BY <5>1 DEF NeedsRebinding
        <4>. QED
          BY <2>1, <3>2, <4>1, <4>2 DEF Repeats
      <3>4. CASE facts[a] = <<>>
        <4>1. Len(facts'[a]) = 1
          BY <3>1, <3>4
        <4>2. ~NeedsRebinding(a)'
          BY <4>1 DEF NeedsRebinding
        <4>3. CASE BeforeAt(t, a) = {}
          BY <1>1, <2>1, <3>2, <4>2, <4>3 DEF Repeats
        <4>4. ASSUME NEW u \in BeforeAt(t, a)
              PROVE  Overlooked(s, t, a)'
          <5>1. u \in Retrieved /\ u < t /\ observed[u][a] # None
            BY <4>4 DEF BeforeAt, OrderedAt, Events
          <5>2. ~Made(u)'
            <6>1. \A n \in normalised : n[2] # u
              BY <1>2, <3>4, <5>1 DEF MadeOK
            <6>2. t # u
              BY <1>2, <5>1, OnFile
            <6>. QED
              BY <1>1, <6>1, <6>2 DEF Made
          <5>. QED
            BY <1>1, <3>2, <4>1, <5>1, <5>2 DEF Overlooked
        <4>. QED
          BY <2>1, <4>3, <4>4
      <3>. QED
        BY <3>3, <3>4
    <2>. QED
      BY <2>2, <2>3 DEF MakesFacts
  <1>. QED
    BY <1>1, <1>3, <1>4 DEF CurrentWith

\* The rows of a fact made of no later payloads, with no longer lists.
LEMMA EarlierRow ==
  ASSUME IInv, NEW s \in SUBSET Accessions, NEW t \in Retrieved, MakesFacts(s, t), Events # {},
         NEW a \in Accessions, NEW i \in 1..Len(facts[a])
  PROVE  /\ facts[a][i].asset <= t
         /\ \A c \in Nat : facts[a][i].accepted = c => facts[a][i].available <= Max({c, t})
         /\ facts[a][i].filing <= Max({submissions[s], t})
         /\ a \notin s => facts[a][i].accepted = FiledDayAfter[a]
  <1>1. /\ TypeOK /\ ListsOK /\ t \in Nat /\ t >= 1 /\ submissions[s] \in Nat /\ First \in s
        /\ t = Max(Events) /\ upgraded \in Nat
    <2>1. Listed(s) /\ t = Max(Events)
      BY DEF MakesFacts
    <2>2. TypeOK /\ ListsOK
      BY DEF IInv
    <2>3. t \in Nat /\ t >= 1 /\ upgraded \in Nat
      BY <2>2, OnFile
    <2>4. submissions[s] \in Nat /\ First \in s
      BY <2>1, <2>2 DEF TypeOK, ListsOK
    <2>. QED
      BY <2>1, <2>2, <2>3, <2>4
  <1>2. upgraded < t /\ \A u \in Retrieved : u <= t
    <2>1. t \in Events /\ \A e \in Events : e <= t
      BY <1>1, OnFile
    <2>2. upgraded < t
      BY <2>1 DEF Events
    <2>3. ASSUME NEW u \in Retrieved
          PROVE  u <= t
      <3>1. CASE u \in Events
        BY <2>1, <3>1
      <3>2. CASE u \notin Events
        <4>1. u <= upgraded /\ u \in Nat
          BY <1>1, <3>2, OnFile DEF Events
        <4>. QED
          BY <1>1, <2>2, <4>1
      <3>. QED
        BY <3>1, <3>2
    <2>. QED
      BY <2>2, <2>3
  <1>3. submissions[s] <= Max({submissions[s], t}) /\ t <= Max({submissions[s], t})
        /\ Max({submissions[s], t}) \in Nat
    BY <1>1, MaxOfTwo
  <1>4. CASE LegacyRow(a, i)
    <2>1. /\ a = First /\ facts[a][i].asset <= upgraded /\ facts[a][i].asset \in Nat
          /\ facts[a][i].available = 0 /\ facts[a][i].filing = 1
      BY <1>1, <1>4, OnFile DEF LegacyRow
    <2>2. \A c \in Nat : 0 <= Max({c, t})
      <3>1. \A c \in Nat : Max({c, t}) \in Nat
        BY <1>1, MaxOfTwo
      <3>. QED
        BY <3>1
    <2>3. facts[a][i].asset <= t
      BY <1>1, <1>2, <2>1
    <2>4. facts[a][i].filing <= Max({submissions[s], t})
      BY <1>1, <1>3, <2>1
    <2>. QED
      BY <1>1, <2>1, <2>2, <2>3, <2>4
  <1>5. ASSUME NEW n \in normalised, AppendedRow(n, a, i)
        PROVE  /\ facts[a][i].asset <= t
               /\ \A c \in Nat : facts[a][i].accepted = c => facts[a][i].available <= Max({c, t})
               /\ facts[a][i].filing <= Max({submissions[s], t})
               /\ a \notin s => facts[a][i].accepted = FiledDayAfter[a]
    <2>. DEFINE accepted == Acceptance(n[1], a)
    <2>1. /\ n[1] \in SUBSET Accessions /\ n[2] \in Retrieved /\ n[2] \in Nat /\ Listed(n[1])
          /\ submissions[n[1]] \in Nat
      BY <1>1, NamedNormalised
    <2>2. n[1] \subseteq s /\ submissions[n[1]] <= submissions[s]
      BY <1>1, <2>1 DEF MakesFacts, ListsOK
    <2>3. n[2] <= t
      BY <1>2, <2>1
    <2>4. RetrievedAt(observed[n[2]]) <= n[2] /\ RetrievedAt(observed[n[2]]) \in Nat
      BY <1>1, <2>1, OnFile
    <2>5. /\ facts[a][i].accepted = accepted /\ facts[a][i].asset = RetrievedAt(observed[n[2]])
          /\ facts[a][i].filing = Filed(n, a)
          /\ facts[a][i].available = IF i = 1 THEN accepted ELSE Max({accepted, n[2]})
      BY <1>5 DEF AppendedRow, Revision
    <2>6. accepted \in Nat
      BY AcceptanceIsNat
    <2>. HIDE DEF accepted
    <2>7. facts[a][i].available <= Max({accepted, t})
      <3>1. /\ accepted <= Max({accepted, t}) /\ t <= Max({accepted, t})
            /\ Max({accepted, t}) \in Nat
        BY <1>1, <2>6, MaxOfTwo
      <3>2. n[2] <= Max({accepted, t})
        BY <1>1, <2>1, <2>3, <3>1
      <3>3. Max({accepted, n[2]}) <= Max({accepted, t})
        BY <2>1, <2>6, <3>1, <3>2, MaxOfTwo
      <3>. QED
        BY <2>5, <3>1, <3>3
    <2>8. Filed(n, a) <= Max({submissions[s], t})
      <3>1. CASE a \in n[1]
        <4>1. submissions[n[1]] <= Max({submissions[s], t})
          BY <1>1, <1>3, <2>1, <2>2
        <4>. QED
          BY <3>1, <4>1 DEF Filed
      <3>2. CASE a \notin n[1]
        <4>1. RetrievedAt(observed[n[2]]) <= Max({submissions[s], t})
          BY <1>1, <1>3, <2>1, <2>3, <2>4
        <4>. QED
          BY <3>2, <4>1 DEF Filed
      <3>. QED
        BY <3>1, <3>2
    <2>9. a \notin s => accepted = FiledDayAfter[a]
      BY <2>2 DEF accepted, Acceptance
    <2>10. facts[a][i].asset <= t
      BY <1>1, <2>1, <2>3, <2>4, <2>5
    <2>. QED
      BY <2>5, <2>7, <2>8, <2>9, <2>10
  <1>. QED
    BY <1>4, <1>5 DEF FactsOK, IInv

\* A revision that stands for a payload still does with one more row.
LEMMA CoverStays ==
  ASSUME IInv, NEW s \in SUBSET Accessions, NEW t \in Retrieved, MakesFacts(s, t), Events # {},
         NEW n \in normalised, NEW a \in Accessions, NEW j \in 1..Len(facts[a]), Covers(j, n, a)
  PROVE  Covers(j, n, a)'
  <1>1. /\ TypeOK /\ ListsOK /\ UNCHANGED <<observed, submissions>>
        /\ normalised' = normalised \cup {<<s, t>>}
    BY MakesFrame DEF IInv
  <1>2. /\ Len(facts[a]) \in Nat /\ Len(facts'[a]) \in Nat /\ Len(facts[a]) <= Len(facts'[a])
        /\ \A i \in 1..Len(facts[a]) : facts'[a][i] = facts[a][i]
    BY RowsStay
  <1>3. facts'[a][j] = facts[a][j]
    BY <1>2
  <1>4. Proven(facts'[a], 1..Len(facts'[a]))[j] = Proven(facts[a], 1..Len(facts[a]))[j]
    <2>1. PICK r : r = facts[a]
      OBVIOUS
    <2>2. PICK q : q = facts'[a]
      OBVIOUS
    <2>3. /\ Len(r) \in Nat /\ Len(q) \in Nat /\ Len(r) <= Len(q)
          /\ \A i \in 1..Len(r) : q[i] = r[i]
          /\ \A i \in 1..Len(r) : i \in 1..Len(q) /\ i \in 1..Len(r)
      BY <1>2, <2>1, <2>2
    <2>4. \A i \in 1..Len(r) : Proven(q, 1..Len(q))[i] = Proven(r, 1..Len(r))[i]
      <3>1. /\ 1..Len(r) \in SUBSET (1..Len(r)) /\ 1..Len(q) \in SUBSET (1..Len(q))
            /\ Len(r) <= Len(r)
            /\ \A i \in 1..Len(r) : q[i] = r[i] /\ (i \in 1..Len(q) <=> i \in 1..Len(r))
        BY <2>3
      <3>. QED
        BY <2>3, <3>1, ProvenLocal
    <2>. QED
      BY <2>1, <2>2, <2>4
  <1>5. ASSUME NEW i \in 1..Len(facts'[a]), j < i
        PROVE  \E m \in normalised' : m[2] >= n[2] /\ AppendedRow(m, a, i)'
    <2>1. CASE i \in 1..Len(facts[a])
      <3>1. PICK m \in normalised : m[2] >= n[2] /\ AppendedRow(m, a, i)
        BY <1>5, <2>1 DEF Covers
      <3>2. AppendedRow(m, a, i)'
        BY <2>1, <3>1, RowsStay
      <3>. QED
        BY <1>1, <3>1, <3>2
    <2>2. CASE i \notin 1..Len(facts[a])
      <3>1. AppendedRow(<<s, t>>, a, i)'
        BY <2>2, RowsStay
      <3>2. t >= n[2]
        <4>1. n[2] \in Retrieved /\ n[2] \in Nat /\ t \in Nat
          BY <1>1, NamedNormalised, OnFile
        <4>2. t = Max(Events) /\ upgraded \in Nat /\ upgraded < t
          <5>1. t = Max(Events)
            BY DEF MakesFacts
          <5>. QED
            BY <1>1, <5>1, OnFile DEF Events
        <4>3. CASE n[2] \in Events
          BY <1>1, <4>1, <4>2, <4>3, OnFile
        <4>4. CASE n[2] \notin Events
          <5>1. n[2] <= upgraded
            BY <1>1, <4>1, <4>2, <4>4 DEF Events
          <5>. QED
            BY <4>1, <4>2, <5>1
        <4>. QED
          BY <4>3, <4>4
      <3>. QED
        BY <1>1, <3>1, <3>2
    <2>. QED
      BY <2>1, <2>2
  <1>6. \A k \in 1..j : facts'[a][k] = facts[a][k]
    BY <1>2
  <1>. QED
    BY <1>1, <1>3, <1>4, <1>5, <1>6 DEF Covers

LEMMA MakesCoveredOK ==
  ASSUME IInv, NEW s \in SUBSET Accessions, NEW t \in Retrieved, MakesFacts(s, t)
  PROVE  CoveredOK'
  <1>1. /\ normalised' = normalised \cup {<<s, t>>} /\ UNCHANGED <<observed, submissions>>
        /\ Retrieved' = Retrieved /\ Events' = Events
        /\ \A p : RetrievedAt(p)' = RetrievedAt(p)
    BY MakesFrame
  <1>2. TypeOK /\ ListsOK
    BY DEF IInv
  <1>. SUFFICES ASSUME NEW n \in normalised', NEW a \in Accessions, n[2] \in Events,
                       observed[n[2]][a] # None
                PROVE  \E j \in 1..Len(facts'[a]) : Covers(j, n, a)'
    BY <1>1 DEF CoveredOK
  <1>3. /\ Len(facts[a]) \in Nat /\ Len(facts'[a]) \in Nat /\ Len(facts[a]) <= Len(facts'[a])
        /\ \A i \in 1..Len(facts[a]) : facts'[a][i] = facts[a][i]
        /\ (facts[a] # <<>> <=> Len(facts[a]) >= 1)
    BY <1>2, RowsStay, FactsAreRows
  <1>4. CASE n \in normalised
    <2>1. PICK j \in 1..Len(facts[a]) : Covers(j, n, a)
      BY <1>4 DEF CoveredOK, IInv
    <2>2. j \in 1..Len(facts'[a])
      BY <1>3
    <2>. QED
      BY <1>4, <2>1, <2>2, CoverStays
  <1>5. CASE n = <<s, t>>
    <2>0. /\ n[1] = s /\ n[2] = t /\ observed[t][a] # None /\ Events # {} /\ t \in Nat
          /\ submissions[s] \in Nat /\ Acceptance(s, a) \in Nat
          /\ Acceptance(s, a) <= Max({Acceptance(s, a), t})
          /\ submissions[s] <= Max({submissions[s], t}) /\ t <= Max({submissions[s], t})
      <3>1. n[1] = s /\ n[2] = t
        BY <1>5
      <3>2. submissions[s] \in Nat /\ t \in Nat /\ Acceptance(s, a) \in Nat
        BY <1>2, OnFile, AcceptanceIsNat DEF TypeOK
      <3>. QED
        BY <3>1, <3>2, MaxOfTwo
    <2>1. CASE Keeps(s, t, a)
      <3>. DEFINE j == Len(facts[a])
      <3>1. facts'[a] = facts[a] /\ facts[a] # <<>> /\ SaysSame(s, t, a) /\ ~NeedsRebinding(a)
        BY <2>0, <2>1 DEF Keeps, Repeats
      <3>2. j \in 1..Len(facts[a]) /\ j \in Nat
        BY <1>3, <3>1
      <3>3. facts[a][j].value = observed[t][a] /\ facts[a][j].accepted = Acceptance(s, a)
        BY <3>1 DEF SaysSame, Latest
      <3>4. /\ facts[a][j].asset <= t /\ facts[a][j].available <= Max({Acceptance(s, a), t})
            /\ facts[a][j].filing <= Max({submissions[s], t})
        BY <2>0, <3>2, <3>3, EarlierRow
      <3>5. j = 1 \/ facts[a][j].bound \/ Proven(facts[a], 1..Len(facts[a]))[j] # None
        <4>1. j > 1 => facts[a][j].bound \/ Proven(facts[a], 1..Len(facts[a]))[j] # None
          BY <3>1 DEF NeedsRebinding, Latest
        <4>2. j = 1 \/ j > 1
          <5>1. j \in Nat /\ j >= 1
            BY <1>3, <3>1
          <5>. HIDE DEF j
          <5>. QED
            BY <5>1
        <4>. QED
          BY <4>1, <4>2
      <3>6. a \notin s => \A k \in 1..j : facts[a][k].accepted = FiledDayAfter[a]
        BY <2>0, EarlierRow
      <3>7. \A i \in 1..Len(facts[a]) : ~(j < i)
        BY <1>3
      <3>8. Covers(j, n, a)'
        BY <1>1, <2>0, <3>1, <3>3, <3>4, <3>5, <3>6, <3>7 DEF Covers
      <3>. QED
        BY <3>1, <3>2, <3>8
    <2>2. CASE Adds(s, t, a)
      <3>1. PICK j \in Nat : j = Len(facts[a]) + 1
        BY <1>3
      <3>2. facts'[a][j] = NewRow(s, t, a) /\ Len(facts'[a]) = j /\ j \in 1..Len(facts'[a])
        <4>1. facts'[a][j] = NewRow(s, t, a) /\ Len(facts'[a]) = j
          BY <2>2, <3>1, AddedRow
        <4>2. j \in 1..j
          BY <1>3, <3>1
        <4>. QED
          BY <4>1, <4>2
      <3>3. /\ facts'[a][j].value = observed[t][a] /\ facts'[a][j].accepted = Acceptance(s, a)
            /\ facts'[a][j].asset = RetrievedAt(observed[t])
            /\ facts'[a][j].filing = Filed(n, a) /\ facts'[a][j].bound = (facts[a] # <<>>)
            /\ facts'[a][j].available = IF facts[a] = <<>> THEN Acceptance(s, a)
                                        ELSE Max({Acceptance(s, a), t})
        BY <1>5, <3>2 DEF NewRow, Revision
      <3>4. Max({Acceptance(s, a), t}) \in Nat
        BY <2>0, MaxOfTwo
      <3>5. facts'[a][j].available <= Max({Acceptance(s, a), t})
        BY <2>0, <3>3, <3>4
      <3>6. RetrievedAt(observed[t]) <= t /\ RetrievedAt(observed[t]) \in Nat
        BY <1>2, OnFile
      <3>7. facts'[a][j].filing <= Max({submissions[s], t})
        <4>1. RetrievedAt(observed[t]) <= Max({submissions[s], t})
          <5>1. Max({submissions[s], t}) \in Nat
            BY <2>0, MaxOfTwo
          <5>. QED
            BY <2>0, <3>6, <5>1
        <4>. QED
          BY <2>0, <3>3, <4>1 DEF Filed
      <3>8. j = 1 \/ facts'[a][j].bound
        <4>1. CASE facts[a] = <<>>
          BY <1>3, <3>1, <4>1
        <4>2. CASE facts[a] # <<>>
          <5>1. (facts[a] # <<>>) = TRUE
            BY <4>2
          <5>2. facts'[a][j].bound = (facts[a] # <<>>)
            BY <3>3
          <5>. QED
            BY <5>1, <5>2
        <4>. QED
          BY <4>1, <4>2
      <3>9. \A i \in 1..Len(facts'[a]) : ~(j < i)
        BY <3>2
      <3>10. ASSUME a \notin s, NEW k \in 1..j
             PROVE  facts'[a][k].accepted = FiledDayAfter[a]
        <4>1. CASE k = j
          BY <3>3, <3>10, <4>1 DEF Acceptance
        <4>2. CASE k # j
          <5>1. k \in 1..Len(facts[a])
            BY <1>3, <3>1, <4>2
          <5>2. facts[a][k].accepted = FiledDayAfter[a]
            BY <2>0, <3>10, <5>1, EarlierRow
          <5>. QED
            BY <1>3, <5>1, <5>2
        <4>. QED
          BY <4>1, <4>2
      <3>11. Covers(j, n, a)'
        BY <1>1, <2>0, <3>3, <3>5, <3>6, <3>7, <3>8, <3>9, <3>10 DEF Covers
      <3>. QED
        BY <3>2, <3>11
    <2>. QED
      BY <2>1, <2>2 DEF MakesFacts
  <1>. QED
    BY <1>1, <1>4, <1>5

LEMMA StepNormalise ==
  ASSUME IInv, Normalise
  PROVE  IInv'
  <1>1. PICK s \in SUBSET Accessions, t \in Retrieved : MakesFacts(s, t)
    BY NormaliseIs
  <1>2. RunOK'
    <2>1. /\ run = [pc |-> run.pc, listed |-> run.listed, fetched |-> run.fetched,
                    payload |-> run.payload, at |-> run.at, checked |-> run.checked,
                    missing |-> run.missing]
          /\ run.pc = "normalise"
          /\ Listed(run.listed) /\ \A u \in SUBSET Accessions : Listed(u) => u \subseteq run.listed
      BY DEF RunOK, IInv, Normalise, Idle
    <2>2. run' = [run EXCEPT !.pc = "verify"]
      BY DEF Normalise
    <2>3. run' = [pc |-> "verify", listed |-> run.listed, fetched |-> run.fetched,
                  payload |-> run.payload, at |-> run.at, checked |-> run.checked,
                  missing |-> run.missing]
      BY <2>1, <2>2
    <2>4. /\ run'.pc = "verify" /\ run'.listed = run.listed
          /\ run' = [pc |-> run'.pc, listed |-> run'.listed, fetched |-> run'.fetched,
                     payload |-> run'.payload, at |-> run'.at, checked |-> run'.checked,
                     missing |-> run'.missing]
      BY <2>3
    <2>. QED
      BY <1>1, <2>1, <2>4, MakesFrame DEF RunOK
  <1>. QED
    BY <1>1, <1>2, MakesTypes, MakesFactsOK, MakesMadeOK, MakesCurrentOK, MakesCoveredOK DEF IInv

-----------------------------------------------------------------------------
(* The inductive invariant holds *)

LEMMA StepOK ==
  ASSUME IInv, [Next]_vars
  PROVE  IInv'
  <1>1. CASE Tick
    BY <1>1, StepTick
  <1>2. ASSUME NEW s \in SUBSET Accessions, Listable(s), Begin(s)
        PROVE  IInv'
    BY <1>2, StepBegin
  <1>3. ASSUME NEW p \in Payloads, Fetch(p)
        PROVE  IInv'
    BY <1>3, StepFetch
  <1>4. CASE Normalise
    BY <1>4, StepNormalise
  <1>5. CASE Verify \/ Fail
    BY <1>5, StepOver
  <1>6. CASE UNCHANGED vars
    BY <1>6, StepStutter
  <1>. QED
    BY <1>1, <1>2, <1>3, <1>4, <1>5, <1>6 DEF Next

\* Every revision comes from a payload and every payload that facts were made of has its
\* revision, whatever _ingest_company retrieves, restates, replays or leaves unfinished.
THEOREM Invariance == Spec => []IInv
  <1>1. Init => IInv
    BY InitOK
  <1>2. IInv /\ [Next]_vars => IInv'
    BY StepOK
  <1>. QED
    BY <1>1, <1>2, PTL DEF Spec

-----------------------------------------------------------------------------
(* What a reader is shown *)

LEMMA ProvenAt ==
  ASSUME NEW r, Len(r) \in Nat, NEW X \in SUBSET (1..Len(r)), NEW i \in X
  PROVE  /\ i = 1 \/ r[i].bound => Proven(r, X)[i] = r[i].available
         /\ i # 1 /\ ~r[i].bound => Proven(r, X)[i] \in {None, Max({r[i].available, r[i].asset})}
  <1>1. Proven(r, X)[i] = ProvenNext(r, X, Proven(r, X), i)
    <2>1. i \in 1..Len(r)
      OBVIOUS
    <2>2. PICK p : p = Proven(r, X)
      OBVIOUS
    <2>3. p = [k \in 1..Len(r) |-> ProvenNext(r, X, p, k)]
      BY <2>2, ProvenIs
    <2>4. p[i] = ProvenNext(r, X, p, i)
      BY <2>1, <2>3
    <2>. QED
      BY <2>2, <2>4
  <1>. QED
    BY <1>1 DEF ProvenNext

\* The last revision that is admitted is shown.
LEMMA LastIsRead ==
  ASSUME TypeOK, NEW a \in Accessions, NEW d
  PROVE  /\ Admitted(facts[a], d) \in SUBSET (1..Len(facts[a]))
         /\ Admitted(facts[a], d) = {} => Read(a, d) = None
         /\ Admitted(facts[a], d) # {} =>
              \E i \in Admitted(facts[a], d) :
                /\ \A j \in Admitted(facts[a], d) : j <= i
                /\ Read(a, d) = facts[a][i].value
  <1>1. Len(facts[a]) \in Nat
    BY FactsAreRows
  <1>2. Admitted(facts[a], d) \in SUBSET (1..Len(facts[a]))
    BY DEF Admitted, Shown
  <1>3. ASSUME Admitted(facts[a], d) # {}
        PROVE  /\ Max(Admitted(facts[a], d)) \in Admitted(facts[a], d)
               /\ \A j \in Admitted(facts[a], d) : j <= Max(Admitted(facts[a], d))
    <2>1. /\ Admitted(facts[a], d) \in SUBSET Nat
          /\ \A j \in Admitted(facts[a], d) : j <= Len(facts[a])
      BY <1>1, <1>2
    <2>. QED
      BY <1>1, <1>3, <2>1, Greatest
  <1>. QED
    BY <1>2, <1>3 DEF Read

LEMMA RowTimes ==
  ASSUME IInv, NEW a \in Accessions, NEW i \in 1..Len(facts[a])
  PROVE  /\ facts[a][i].asset \in Nat /\ facts[a][i].asset <= now
         /\ facts[a][i].filing \in Nat /\ facts[a][i].filing <= now
         /\ facts[a][i].available \in Nat
         /\ \A e \in Nat : e >= now /\ FiledDayAfter[a] <= e => facts[a][i].available <= e
  <1>1. /\ TypeOK /\ ListsOK /\ now \in Nat /\ now >= 1
        /\ AcceptedAt[a] \in Nat /\ FiledDayAfter[a] \in Nat
    <2>1. TypeOK /\ ListsOK
      BY DEF IInv
    <2>2. now \in Nat /\ now >= 1
      BY <2>1, SecAssumption DEF TypeOK, Times
    <2>. QED
      BY <2>1, <2>2, SecAssumption
  <1>2. CASE LegacyRow(a, i)
    <2>1. /\ facts[a][i].asset \in Nat /\ facts[a][i].asset <= now
          /\ facts[a][i].filing = 1 /\ facts[a][i].available = 0
      BY <1>1, <1>2, OnFile DEF LegacyRow
    <2>. QED
      BY <1>1, <2>1
  <1>3. ASSUME NEW n \in normalised, AppendedRow(n, a, i)
        PROVE  /\ facts[a][i].asset \in Nat /\ facts[a][i].asset <= now
               /\ facts[a][i].filing \in Nat /\ facts[a][i].filing <= now
               /\ facts[a][i].available \in Nat
               /\ \A e \in Nat : e >= now /\ FiledDayAfter[a] <= e => facts[a][i].available <= e
    <2>. DEFINE accepted == Acceptance(n[1], a)
                u == RetrievedAt(observed[n[2]])
    <2>1. /\ n[1] \in SUBSET Accessions /\ n[2] \in Retrieved /\ n[2] \in Nat /\ n[2] <= now
          /\ submissions[n[1]] \in Nat /\ submissions[n[1]] <= now
          /\ \A b \in n[1] : AcceptedAt[b] <= submissions[n[1]]
      <3>1. /\ n[1] \in SUBSET Accessions /\ n[2] \in Retrieved /\ n[2] \in Nat
            /\ submissions[n[1]] \in Nat /\ Listed(n[1])
        BY <1>1, NamedNormalised
      <3>. QED
        BY <1>1, <3>1 DEF ListsOK, TypeOK
    <2>2. u \in Nat /\ u <= now
      <3>1. u \in Retrieved
        BY <1>1, <2>1, OnFile
      <3>. HIDE DEF u
      <3>. QED
        BY <1>1, <3>1, OnFile DEF TypeOK
    <2>3. /\ facts[a][i].accepted = accepted /\ facts[a][i].asset = u
          /\ facts[a][i].filing = Filed(n, a)
          /\ facts[a][i].available = IF i = 1 THEN accepted ELSE Max({accepted, n[2]})
      BY <1>3 DEF AppendedRow, Revision
    <2>4. accepted \in Nat /\ Max({accepted, n[2]}) \in Nat
      BY <2>1, AcceptanceIsNat, MaxOfTwo
    <2>5. Filed(n, a) \in Nat /\ Filed(n, a) <= now
      BY <2>1, <2>2 DEF Filed
    <2>6. ASSUME NEW e \in Nat, e >= now, FiledDayAfter[a] <= e
          PROVE  facts[a][i].available <= e
      <3>1. n[2] <= e
        BY <1>1, <2>1, <2>6
      <3>2. accepted <= e
        <4>1. CASE a \in n[1]
          <5>1. AcceptedAt[a] <= submissions[n[1]] /\ accepted = AcceptedAt[a]
            BY <2>1, <4>1 DEF Acceptance
          <5>. HIDE DEF accepted
          <5>. QED
            BY <1>1, <2>1, <2>6, <5>1
        <4>2. CASE a \notin n[1]
          BY <2>6, <4>2 DEF Acceptance
        <4>. QED
          BY <4>1, <4>2
      <3>. HIDE DEF accepted
      <3>3. Max({accepted, n[2]}) <= e
        BY <2>1, <2>4, <2>6, <3>1, <3>2, MaxOfTwo
      <3>. QED
        BY <2>3, <3>2, <3>3
    <2>. HIDE DEF accepted, u
    <2>. QED
      BY <2>2, <2>3, <2>4, <2>5, <2>6
  <1>4. /\ facts[a][i].asset \in Nat /\ facts[a][i].asset <= now
        /\ facts[a][i].filing \in Nat /\ facts[a][i].filing <= now
        /\ facts[a][i].available \in Nat
        /\ \A e \in Nat : e >= now /\ FiledDayAfter[a] <= e => facts[a][i].available <= e
    BY <1>2, <1>3 DEF FactsOK, IInv
  <1>. QED
    BY <1>1, <1>4

LEMMA NewestShown ==
  ASSUME IInv
  PROVE  NewestIsRead
  <1>. DEFINE t == Max(Events)
  <1>. SUFFICES ASSUME Events # {}, Made(t), NEW a \in Accessions, NEW d \in now..MaxTime + 1,
                       observed[t][a] # None, FiledDayAfter[a] <= d
                PROVE  Read(a, d) = observed[t][a]
    BY DEF NewestIsRead
  <1>1. TypeOK /\ now \in Nat /\ d \in Nat /\ d >= now
    <2>1. TypeOK
      BY DEF IInv
    <2>2. now \in Nat /\ MaxTime \in Nat
      BY <2>1, SecAssumption, OnFile
    <2>. QED
      BY <2>1, <2>2
  <1>2. PICK s \in SUBSET Accessions : CurrentWith(s, t)
    BY DEF CurrentOK, IInv
  <1>. HIDE DEF t
  <1>3. /\ facts[a] # <<>> /\ Latest(a).value = observed[t][a]
        /\ Len(facts[a]) = 1 \/ ~NeedsRebinding(a)
    BY <1>2 DEF CurrentWith, Repeats, Overlooked, SaysSame
  <1>4. Len(facts[a]) \in Nat /\ Len(facts[a]) >= 1
    BY <1>1, <1>3, FactsAreRows
  <1>5. ASSUME NEW i \in 1..Len(facts[a])
        PROVE  facts[a][i].available <= d /\ facts[a][i].asset <= d /\ facts[a][i].filing <= d
               /\ Max({facts[a][i].available, facts[a][i].asset}) <= d
    <2>1. /\ facts[a][i].asset \in Nat /\ facts[a][i].asset <= now
          /\ facts[a][i].filing \in Nat /\ facts[a][i].filing <= now
          /\ facts[a][i].available \in Nat /\ facts[a][i].available <= d
      BY <1>1, RowTimes
    <2>2. facts[a][i].asset <= d /\ facts[a][i].filing <= d
      BY <1>1, <2>1
    <2>. QED
      BY <1>1, <2>1, <2>2, MaxOfTwo
  <1>6. Shown(facts[a], d) = 1..Len(facts[a])
    BY <1>5 DEF Shown
  <1>. DEFINE l == Len(facts[a])
  <1>7. Proven(facts[a], 1..l)[l] # None /\ Proven(facts[a], 1..l)[l] <= d
    <2>1. /\ l = 1 \/ facts[a][l].bound => Proven(facts[a], 1..l)[l] = facts[a][l].available
          /\ l # 1 /\ ~facts[a][l].bound =>
               Proven(facts[a], 1..l)[l] \in {None, Max({facts[a][l].available, facts[a][l].asset})}
      <3>1. l \in 1..l /\ 1..l \in SUBSET (1..l)
        BY <1>4
      <3>. QED
        BY <1>4, <3>1, ProvenAt
    <2>2. l \in 1..l
      BY <1>4
    <2>3. CASE l = 1 \/ facts[a][l].bound
      <3>1. facts[a][l].available \in Nat /\ None \notin Nat
        BY <2>2, RowTimes, SecAssumption
      <3>. QED
        BY <1>5, <2>1, <2>2, <2>3, <3>1
    <2>4. CASE ~(l = 1 \/ facts[a][l].bound)
      <3>1. Proven(facts[a], 1..l)[l] # None
        <4>1. l > 1
          <5>1. l \in Nat /\ l >= 1 /\ l # 1
            BY <1>4, <2>4
          <5>. HIDE DEF l
          <5>. QED
            BY <5>1
        <4>. QED
          BY <1>3, <2>4, <4>1 DEF NeedsRebinding, Latest
      <3>. QED
        BY <1>5, <2>1, <2>2, <2>4, <3>1
    <2>. QED
      BY <2>3, <2>4
  <1>8. l \in Admitted(facts[a], d)
    <2>1. l \in 1..l
      BY <1>4
    <2>. QED
      BY <1>6, <1>7, <2>1 DEF Admitted
  <1>9. PICK i \in Admitted(facts[a], d) :
          /\ \A j \in Admitted(facts[a], d) : j <= i
          /\ Read(a, d) = facts[a][i].value
    BY <1>1, <1>8, LastIsRead
  <1>10. i = l
    <2>1. i \in 1..l /\ l <= i /\ l \in Nat
      BY <1>1, <1>4, <1>8, <1>9, LastIsRead
    <2>. HIDE DEF l
    <2>. QED
      BY <2>1
  <1>. QED
    BY <1>3, <1>9, <1>10 DEF Latest

\* Once facts were made of the newest payload, every later reader sees its values
\* (SecIngestion's replay and correction order, observation events and rebinding).
THEOREM NewestRead == Spec => []NewestIsRead
  <1>1. IInv => NewestIsRead
    BY NewestShown
  <1>. QED
    BY <1>1, Invariance, PTL

\* A row made of a payload is not of an older database, unless it is the first.
LEMMA RowKinds ==
  ASSUME NEW a, NEW i, NEW n, i # 1, LegacyRow(a, i), AppendedRow(n, a, i)
  PROVE  FALSE
  <1>1. facts[a][i].bound = (i # 1)
    BY DEF AppendedRow, Revision
  <1>. QED
    BY <1>1 DEF LegacyRow

\* A payload that facts were made of by d has its revision no later than what is read at d.
LEMMA CoverIsBefore ==
  ASSUME IInv, NEW a \in Accessions, NEW d \in 1..now, NEW i \in Admitted(facts[a], d),
         \A j \in Admitted(facts[a], d) : j <= i,
         NEW n \in normalised, NEW j \in 1..Len(facts[a]), Covers(j, n, a),
         n[2] \in Events, n[2] <= d, submissions[n[1]] <= d
  PROVE  j <= i
  <1>1. /\ TypeOK /\ ListsOK /\ d \in Nat /\ now \in Nat /\ upgraded \in Nat
        /\ n[1] \in SUBSET Accessions /\ n[2] \in Retrieved /\ n[2] \in Nat /\ n[2] >= 1 /\ Listed(n[1])
        /\ submissions[n[1]] \in Nat /\ First \in n[1]
        /\ \A b \in n[1] : AcceptedAt[b] <= submissions[n[1]]
        /\ Len(facts[a]) \in Nat /\ i \in 1..Len(facts[a])
    <2>1. TypeOK /\ ListsOK
      BY DEF IInv
    <2>2. /\ n[1] \in SUBSET Accessions /\ n[2] \in Retrieved /\ n[2] \in Nat /\ Listed(n[1])
          /\ submissions[n[1]] \in Nat /\ now \in Nat /\ upgraded \in Nat /\ n[2] >= 1
      BY <2>1, NamedNormalised, OnFile
    <2>3. First \in n[1] /\ \A b \in n[1] : AcceptedAt[b] <= submissions[n[1]]
      BY <2>1, <2>2 DEF ListsOK
    <2>4. d \in Nat
      BY <2>2
    <2>5. Len(facts[a]) \in Nat /\ i \in 1..Len(facts[a])
      BY <2>1, FactsAreRows, LastIsRead
    <2>. QED
      BY <2>1, <2>2, <2>3, <2>4, <2>5
  <1>. DEFINE accepted == Acceptance(n[1], a)
              f == facts[a][j]
  <1>2. /\ f.accepted = accepted /\ f.asset <= n[2] /\ f.available <= Max({accepted, n[2]})
        /\ f.filing <= Max({submissions[n[1]], n[2]})
        /\ j = 1 \/ f.bound \/ Proven(facts[a], 1..Len(facts[a]))[j] # None
        /\ a \notin n[1] => \A k \in 1..j : facts[a][k].accepted = FiledDayAfter[a]
    BY DEF Covers
  <1>3. f.asset \in Nat /\ f.available \in Nat /\ f.filing \in Nat
    BY RowTimes
  <1>4. accepted \in Nat
    BY AcceptanceIsNat
  <1>5. CASE accepted <= d
    <2>1. f.available <= d /\ f.asset <= d /\ f.filing <= d
      <3>1. Max({accepted, n[2]}) \in Nat /\ Max({accepted, n[2]}) <= d
        BY <1>1, <1>4, <1>5, MaxOfTwo
      <3>2. Max({submissions[n[1]], n[2]}) \in Nat /\ Max({submissions[n[1]], n[2]}) <= d
        BY <1>1, MaxOfTwo
      <3>. HIDE DEF f, accepted
      <3>3. f.available <= d
        BY <1>1, <1>2, <1>3, <3>1
      <3>4. f.filing <= d
        BY <1>1, <1>2, <1>3, <3>2
      <3>5. f.asset <= d
        BY <1>1, <1>2, <1>3
      <3>. QED
        BY <3>3, <3>4, <3>5
    <2>2. j \in Shown(facts[a], d)
      BY <2>1 DEF Shown
    <2>. DEFINE X == Shown(facts[a], d)
    <2>3. X \in SUBSET (1..Len(facts[a]))
      BY DEF Shown
    <2>4. /\ j = 1 \/ f.bound => Proven(facts[a], X)[j] = f.available
          /\ j # 1 /\ ~f.bound => Proven(facts[a], X)[j] \in {None, Max({f.available, f.asset})}
      BY <1>1, <2>2, <2>3, ProvenAt
    <2>5. Proven(facts[a], X)[j] # None /\ Proven(facts[a], X)[j] <= d
      <3>1. CASE j = 1 \/ f.bound
        <4>1. f.available # None
          BY <1>3, SecAssumption
        <4>. QED
          BY <2>1, <2>4, <3>1, <4>1
      <3>2. CASE ~(j = 1 \/ f.bound)
        <4>1. \A k \in 1..j : LegacyRow(a, k)
          BY <3>2 DEF FactsOK, IInv
        <4>2. \A k \in 1..j : k \in X
          <5>. SUFFICES ASSUME NEW k \in 1..j
                        PROVE  k \in X
            OBVIOUS
          <5>1. k \in 1..Len(facts[a])
            BY <1>1
          <5>2. facts[a][k].available = 0 /\ facts[a][k].filing = 1 /\ facts[a][k].asset <= upgraded
                /\ facts[a][k].asset \in Nat
            BY <4>1, <5>1, RowTimes DEF LegacyRow
          <5>3. upgraded < n[2]
            BY DEF Events
          <5>4. facts[a][k].asset <= d /\ 0 <= d /\ 1 <= d
            BY <1>1, <5>2, <5>3
          <5>. QED
            BY <5>1, <5>2, <5>4 DEF Shown
        <4>3. Proven(facts[a], X)[j] = Proven(facts[a], 1..Len(facts[a]))[j]
          <5>1. PICK r : r = facts[a]
            OBVIOUS
          <5>2. PICK Y \in SUBSET (1..Len(r)) : Y = X
            BY <2>3, <5>1
          <5>3. /\ Len(r) \in Nat /\ j \in 1..Len(r) /\ j \in Nat /\ j <= Len(r) /\ j \in 1..j
                /\ 1..Len(r) \in SUBSET (1..Len(r))
                /\ \A k \in 1..j : k \in Y /\ k \in 1..Len(r)
            BY <1>1, <4>2, <5>1, <5>2
          <5>4. \A k \in 1..j : Proven(r, Y)[k] = Proven(r, 1..Len(r))[k]
            BY <5>3, ProvenLocal
          <5>. QED
            BY <5>1, <5>2, <5>3, <5>4
        <4>4. Max({f.available, f.asset}) <= d
          BY <1>1, <1>3, <2>1, MaxOfTwo
        <4>. QED
          BY <1>2, <2>4, <3>2, <4>3, <4>4
      <3>. QED
        BY <3>1, <3>2
    <2>6. j \in Admitted(facts[a], d)
      BY <2>2, <2>5 DEF Admitted
    <2>. QED
      BY <2>6
  <1>6. CASE ~(accepted <= d)
    <2>1. a \notin n[1]
      <3>1. ASSUME a \in n[1]
            PROVE  FALSE
        <4>1. accepted = AcceptedAt[a] /\ AcceptedAt[a] <= submissions[n[1]]
          BY <1>1, <3>1 DEF Acceptance
        <4>. HIDE DEF accepted
        <4>. QED
          BY <1>1, <1>4, <1>6, <4>1
      <3>. QED
        BY <3>1
    <2>2. FiledDayAfter[a] > d /\ FiledDayAfter[a] \in Nat
      BY <1>1, <1>4, <1>6, <2>1, SecAssumption DEF Acceptance
    <2>3. ASSUME i <= j
          PROVE  FALSE
      <3>1. facts[a][i].accepted = FiledDayAfter[a]
        BY <1>1, <1>2, <2>1, <2>3
      <3>2. facts[a][i].available <= d
        BY DEF Admitted, Shown
      <3>3. facts[a][i].accepted <= facts[a][i].available
        <4>1. ~LegacyRow(a, i)
          BY <1>1, <2>1 DEF LegacyRow
        <4>2. PICK m \in normalised : AppendedRow(m, a, i)
          BY <1>1, <4>1 DEF FactsOK, IInv
        <4>3. /\ facts[a][i].accepted = Acceptance(m[1], a)
              /\ facts[a][i].available = IF i = 1 THEN Acceptance(m[1], a)
                                         ELSE Max({Acceptance(m[1], a), m[2]})
          BY <4>2 DEF AppendedRow, Revision
        <4>4. Acceptance(m[1], a) \in Nat /\ m[2] \in Nat
          BY <1>1, AcceptanceIsNat, NamedNormalised
        <4>5. Acceptance(m[1], a) <= Max({Acceptance(m[1], a), m[2]})
          BY <4>4, MaxOfTwo
        <4>. QED
          BY <4>3, <4>4, <4>5
      <3>4. facts[a][i].available \in Nat
        BY <1>1, RowTimes
      <3>. QED
        BY <1>1, <2>2, <3>1, <3>2, <3>3, <3>4
    <2>. QED
      BY <1>1, <2>3
  <1>. QED
    BY <1>5, <1>6

\* Where the revision that is read at d came from, and from when on it stands.
LEMMA SourceOfRead ==
  ASSUME IInv, NEW a \in Accessions, NEW d \in 1..now, NEW i \in Admitted(facts[a], d)
  PROVE  \E t \in Retrieved :
           /\ t <= d /\ observed[t][a] = facts[a][i].value
           /\ i # 1 => \A m \in normalised : AppendedRow(m, a, i) => m[2] <= t
  <1>1. TypeOK /\ ListsOK /\ i \in 1..Len(facts[a]) /\ d \in Nat /\ now \in Nat
    <2>1. TypeOK /\ ListsOK
      BY DEF IInv
    <2>2. now \in Nat
      BY <2>1, OnFile
    <2>. QED
      BY <2>1, <2>2, LastIsRead
  <1>2. facts[a][i].available <= d /\ facts[a][i].asset <= d
    BY DEF Admitted, Shown
  <1>3. CASE LegacyRow(a, i)
    <2>1. facts[a][i].asset \in Retrieved /\ observed[facts[a][i].asset][a] = facts[a][i].value
      BY <1>3 DEF LegacyRow
    <2>. QED
      BY <1>2, <1>3, <2>1, RowKinds
  <1>4. CASE ~LegacyRow(a, i) /\ i = 1
    <2>1. PICK m \in normalised : AppendedRow(m, a, i)
      BY <1>1, <1>4 DEF FactsOK, IInv
    <2>2. /\ facts[a][i].asset = RetrievedAt(observed[m[2]])
          /\ facts[a][i].value = observed[m[2]][a]
      BY <2>1 DEF AppendedRow, Revision
    <2>3. /\ RetrievedAt(observed[m[2]]) \in Retrieved
          /\ observed[RetrievedAt(observed[m[2]])] = observed[m[2]]
      BY <1>1, NamedNormalised, OnFile
    <2>. QED
      BY <1>2, <1>4, <2>2, <2>3
  <1>5. CASE ~LegacyRow(a, i) /\ i # 1
    <2>. DEFINE M == {m \in normalised : AppendedRow(m, a, i)}
                N == {m[2] : m \in M}
    <2>1. \A m \in M : /\ m[2] \in Retrieved /\ m[2] \in Nat /\ m[2] <= d
                       /\ observed[m[2]][a] = facts[a][i].value
      <3>. SUFFICES ASSUME NEW m \in M
                    PROVE  /\ m[2] \in Retrieved /\ m[2] \in Nat /\ m[2] <= d
                           /\ observed[m[2]][a] = facts[a][i].value
        OBVIOUS
      <3>1. m[2] \in Retrieved /\ m[2] \in Nat /\ Acceptance(m[1], a) \in Nat
        BY <1>1, NamedNormalised, AcceptanceIsNat
      <3>2. /\ facts[a][i].value = observed[m[2]][a]
            /\ facts[a][i].available = Max({Acceptance(m[1], a), m[2]})
        BY <1>5 DEF AppendedRow, Revision
      <3>3. m[2] <= facts[a][i].available /\ facts[a][i].available \in Nat
        BY <3>1, <3>2, MaxOfTwo
      <3>. QED
        BY <1>1, <1>2, <3>1, <3>2, <3>3
    <2>2. N # {}
      BY <1>1, <1>5 DEF FactsOK, IInv
    <2>3. N \in SUBSET Nat /\ \A k \in N : k <= d
      BY <2>1
    <2>4. Max(N) \in N /\ \A k \in N : k <= Max(N)
      <3>. HIDE DEF N
      <3>. QED
        BY <1>1, <2>2, <2>3, Greatest
    <2>5. PICK m \in M : Max(N) = m[2]
      BY <2>4
    <2>6. \A q \in normalised : AppendedRow(q, a, i) => q[2] <= m[2]
      BY <2>4, <2>5
    <2>. QED
      BY <2>1, <2>6
  <1>. QED
    BY <1>3, <1>4, <1>5

LEMMA ReadsWereObserved ==
  ASSUME IInv
  PROVE  ReadsAreObserved
  <1>. SUFFICES ASSUME NEW a \in Accessions, NEW d \in 1..now, Read(a, d) # None
                PROVE  \E t \in Retrieved :
                         /\ t <= d /\ observed[t][a] = Read(a, d)
                         /\ \A n \in normalised :
                              n[2] \in Events /\ t < n[2] /\ n[2] <= d /\ submissions[n[1]] <= d
                                => observed[n[2]][a] \in {None, Read(a, d)}
    BY DEF ReadsAreObserved
  <1>1. TypeOK /\ ListsOK
    BY DEF IInv
  <1>2. PICK i \in Admitted(facts[a], d) :
          /\ \A j \in Admitted(facts[a], d) : j <= i
          /\ Read(a, d) = facts[a][i].value
    BY <1>1, LastIsRead
  <1>3. PICK t \in Retrieved :
          /\ t <= d /\ observed[t][a] = facts[a][i].value
          /\ i # 1 => \A m \in normalised : AppendedRow(m, a, i) => m[2] <= t
    BY SourceOfRead
  <1>4. ASSUME NEW n \in normalised, n[2] \in Events, t < n[2], n[2] <= d, submissions[n[1]] <= d,
               observed[n[2]][a] # None, observed[n[2]][a] # facts[a][i].value
        PROVE  FALSE
    <2>1. PICK j \in 1..Len(facts[a]) : Covers(j, n, a)
      BY <1>4 DEF CoveredOK, IInv
    <2>2. j <= i
      BY <1>2, <1>4, <2>1, CoverIsBefore
    <2>3. j # i
      BY <1>4, <2>1 DEF Covers
    <2>4. Len(facts[a]) \in Nat /\ i \in 1..Len(facts[a]) /\ j < i /\ i # 1
      <3>1. Len(facts[a]) \in Nat /\ i \in 1..Len(facts[a])
        BY <1>1, FactsAreRows, LastIsRead
      <3>. QED
        BY <2>2, <2>3, <3>1
    <2>5. PICK m \in normalised : m[2] >= n[2] /\ AppendedRow(m, a, i)
      BY <2>1, <2>4 DEF Covers
    <2>6. m[2] <= t /\ m[2] \in Nat /\ t \in Nat /\ n[2] \in Nat
      BY <1>1, <1>3, <2>4, <2>5, NamedNormalised, OnFile
    <2>. QED
      BY <1>4, <2>5, <2>6
  <1>. QED
    BY <1>2, <1>3, <1>4

\* No reader of any day sees a value that had not been retrieved by then, nor one that a payload
\* with facts had replaced by then (_derive_sec_fact's availability and _resolve_one's proofs).
THEOREM ReadsObserved == Spec => []ReadsAreObserved
  <1>1. IInv => ReadsAreObserved
    BY ReadsWereObserved
  <1>. QED
    BY <1>1, Invariance, PTL

-----------------------------------------------------------------------------
(* The past *)

\* A row that is not shown at d changes nothing there.
LEMMA UnseenRow ==
  ASSUME NEW r, NEW q, Len(r) \in Nat, Len(q) = Len(r) + 1, NEW d,
         \A i \in 1..Len(r) : q[i] = r[i], Len(q) \notin Shown(q, d)
  PROVE  Admitted(q, d) = Admitted(r, d)
  <1>. DEFINE X == Shown(r, d)
              Y == Shown(q, d)
  <1>1. X \in SUBSET (1..Len(r)) /\ Y \in SUBSET (1..Len(q))
    BY DEF Shown
  <1>2. \A i \in 1..Len(r) : i \in 1..Len(q) /\ (i \in Y <=> i \in X)
    BY DEF Shown
  <1>3. \A i \in Y : i \in 1..Len(r)
    BY <1>1
  <1>4. \A i \in 1..Len(r) : Proven(q, Y)[i] = Proven(r, X)[i]
    <2>1. /\ Len(q) \in Nat /\ Len(r) <= Len(q) /\ Len(r) <= Len(r)
          /\ \A i \in 1..Len(r) : q[i] = r[i] /\ (i \in Y <=> i \in X)
      BY <1>2
    <2>. HIDE DEF X, Y
    <2>. QED
      BY <1>1, <2>1, ProvenLocal
  <1>5. \A i : i \in Admitted(q, d) <=> i \in Admitted(r, d)
    BY <1>1, <1>2, <1>3, <1>4 DEF Admitted
  <1>. QED
    BY <1>1, <1>5 DEF Admitted

\* Making facts once more of what was settled by d adds no row that d would see.
LEMMA SettledRepeats ==
  ASSUME IInv, NEW s \in SUBSET Accessions, NEW t \in Retrieved, MakesFacts(s, t),
         NEW d \in Times, d < now, Settled(d), NEW a \in Accessions, Adds(s, t, a),
         NewRow(s, t, a).available <= d, NewRow(s, t, a).asset <= d, NewRow(s, t, a).filing <= d
  PROVE  FALSE
  <1>1. /\ TypeOK /\ ListsOK /\ MadeOK /\ t \in Nat /\ d \in Nat /\ observed[t][a] # None
        /\ RetrievedAt(observed[t]) \in Retrieved
        /\ observed[RetrievedAt(observed[t])] = observed[t]
        /\ \A u \in Retrieved : u <= d => Made(u)
    <2>1. TypeOK /\ ListsOK /\ MadeOK
      BY DEF IInv
    <2>2. d \in Nat
      BY SecAssumption DEF Times
    <2>. QED
      BY <2>1, <2>2, OnFile DEF Adds, Settled
  <1>2. /\ NewRow(s, t, a).asset = RetrievedAt(observed[t])
        /\ NewRow(s, t, a).available = IF facts[a] = <<>> THEN Acceptance(s, a)
                                       ELSE Max({Acceptance(s, a), t})
        /\ NewRow(s, t, a).filing = IF a \in s THEN submissions[s] ELSE RetrievedAt(observed[t])
    BY DEF NewRow, Revision, Filed
  <1>3. CASE facts[a] = <<>>
    <2>1. Made(RetrievedAt(observed[t]))
      BY <1>1, <1>2
    <2>2. PICK n \in normalised : n[2] = RetrievedAt(observed[t])
      BY <2>1 DEF Made
    <2>. QED
      BY <1>1, <1>3, <2>2 DEF MadeOK
  <1>4. CASE facts[a] # <<>>
    <2>1. t <= d
      <3>1. Acceptance(s, a) \in Nat
        BY AcceptanceIsNat
      <3>2. t <= Max({Acceptance(s, a), t}) /\ Max({Acceptance(s, a), t}) \in Nat
        BY <1>1, <3>1, MaxOfTwo
      <3>3. Max({Acceptance(s, a), t}) <= d
        BY <1>2, <1>4
      <3>. QED
        BY <1>1, <3>2, <3>3
    <2>2. ~Repeats(s, t, a)
      BY <1>4 DEF Adds
    <2>3. PICK n \in normalised : n[2] = t
      BY <1>1, <2>1 DEF Made
    <2>4. CASE Events = {}
      <3>1. a = First
        <4>1. t <= upgraded
          BY <1>1, <2>4, OnFile DEF Events
        <4>2. PICK v \in Values : observed[t] = Only(v)
          BY <1>1, <4>1 DEF TypeOK
        <4>. QED
          BY <1>1, <4>2 DEF Only
      <3>2. Len(facts[a]) = 1
        <4>1. Len(facts[a]) <= 1
          BY <2>4 DEF MakesFacts
        <4>2. Len(facts[a]) \in Nat /\ Len(facts[a]) >= 1
          BY <1>1, <1>4, FactsAreRows
        <4>3. \A k \in Nat : k >= 1 /\ k <= 1 => k = 1
          OBVIOUS
        <4>. QED
          BY <4>1, <4>2, <4>3
      <3>3. \A q \in normalised : observed[q[2]][a] = facts[a][1].value
        BY <1>1, <2>4, <3>1, <3>2 DEF MadeOK
      <3>4. Latest(a) = facts[a][1]
        BY <3>2 DEF Latest
      <3>5. Latest(a).value = observed[t][a]
        BY <2>3, <3>3, <3>4
      <3>6. Latest(a).accepted = Acceptance(s, a)
        <4>1. Acceptance(s, a) = 0
          <5>1. First \in s
            BY <1>1 DEF ListsOK, MakesFacts
          <5>. QED
            BY <3>1, <5>1, SecAssumption DEF Acceptance
        <4>2. facts[a][1].accepted = 0
          <5>1. CASE LegacyRow(a, 1)
            BY <5>1 DEF LegacyRow
          <5>2. ASSUME NEW m \in normalised, AppendedRow(m, a, 1)
                PROVE  facts[a][1].accepted = 0
            <6>1. First \in m[1]
              BY <1>1, NamedNormalised DEF ListsOK
            <6>. QED
              BY <3>1, <5>2, <6>1, SecAssumption DEF AppendedRow, Revision, Acceptance
          <5>3. 1 \in 1..Len(facts[a])
            BY <3>2
          <5>. QED
            BY <5>1, <5>2, <5>3 DEF FactsOK, IInv
        <4>. QED
          BY <3>4, <4>1, <4>2
      <3>7. BeforeAt(t, a) = {} \/ observed[Max(BeforeAt(t, a))][a] = observed[t][a]
        <4>. DEFINE B == BeforeAt(t, a)
        <4>1. \A u \in B : u \in Retrieved /\ u < t /\ u \in Nat
          BY <1>1, OnFile DEF BeforeAt, OrderedAt, Events
        <4>2. ASSUME B # {}
              PROVE  observed[Max(B)][a] = observed[t][a]
          <5>1. Max(B) \in B
            <6>1. B \in SUBSET Nat /\ \A u \in B : u <= t
              BY <1>1, <4>1
            <6>. HIDE DEF B
            <6>. QED
              BY <1>1, <4>2, <6>1, Greatest
          <5>2. PICK u \in B : u = Max(B)
            BY <5>1
          <5>3. Made(u)
            BY <1>1, <2>1, <4>1
          <5>4. observed[u][a] = facts[a][1].value
            BY <3>3, <5>3 DEF Made
          <5>. QED
            BY <3>4, <3>5, <5>2, <5>4
        <4>. QED
          BY <4>2
      <3>8. ~NeedsRebinding(a)
        BY <3>2 DEF NeedsRebinding
      <3>. QED
        BY <2>2, <3>5, <3>6, <3>7, <3>8 DEF Repeats, SaysSame
    <2>5. CASE Events # {}
      <3>1. t = Max(Events) /\ Made(t)
        BY <1>1, <2>1, <2>5 DEF MakesFacts
      <3>2. PICK u \in SUBSET Accessions : CurrentWith(u, t)
        BY <2>5, <3>1 DEF CurrentOK, IInv
      <3>3. Repeats(u, t, a)
        <4>1. ~Overlooked(u, t, a)
          <5>1. \A v \in Retrieved : v < t => Made(v)
            BY <1>1, <2>1, OnFile
          <5>. QED
            BY <5>1 DEF Overlooked
        <4>. QED
          BY <1>1, <3>2, <4>1 DEF CurrentWith
      <3>4. u \subseteq s
        <4>1. Listed(u)
          <5>1. <<u, t>> \in normalised
            BY <3>2 DEF CurrentWith
          <5>2. Listed(<<u, t>>[1])
            BY <1>1, <5>1, NamedNormalised
          <5>. QED
            BY <5>2
        <4>. QED
          BY <4>1 DEF MakesFacts
      <3>5. a \in s => a \in u
        <4>. SUFFICES ASSUME a \in s
                      PROVE  a \in u
          OBVIOUS
        <4>1. submissions[s] \in 1..d
          <5>1. submissions[s] \in Nat /\ submissions[s] # 0
            BY <1>1 DEF TypeOK, MakesFacts, Listed
          <5>2. submissions[s] <= d
            BY <1>2
          <5>. QED
            BY <1>1, <5>1, <5>2
        <4>2. PICK m \in normalised : m[1] = s
          BY <4>1 DEF Settled
        <4>. QED
          BY <3>2, <4>2 DEF CurrentWith
      <3>6. Acceptance(s, a) = Acceptance(u, a)
        BY <3>4, <3>5 DEF Acceptance
      <3>7. Repeats(s, t, a)
        BY <3>3, <3>6 DEF Repeats, SaysSame, HeadAt
      <3>. QED
        BY <2>2, <3>7
    <2>. QED
      BY <2>4, <2>5
  <1>. QED
    BY <1>3, <1>4

LEMMA SettledStands ==
  ASSUME IInv, Normalise, NEW d \in Times, d < now, Settled(d), NEW a \in Accessions
  PROVE  Read(a, d)' = Read(a, d)
  <1>1. PICK s \in SUBSET Accessions, t \in Retrieved : MakesFacts(s, t)
    BY NormaliseIs
  <1>2. CASE Keeps(s, t, a)
    BY <1>2 DEF Keeps, Read
  <1>3. CASE Adds(s, t, a)
    <2>1. PICK r : r = facts[a]
      OBVIOUS
    <2>2. PICK q : q = facts'[a]
      OBVIOUS
    <2>3. /\ Len(r) \in Nat /\ Len(q) = Len(r) + 1 /\ \A i \in 1..Len(r) : q[i] = r[i]
          /\ q[Len(q)] = NewRow(s, t, a)
      <3>1. TypeOK
        BY DEF IInv
      <3>2. Len(r) \in Nat
        BY <2>1, <3>1, FactsAreRows
      <3>. QED
        BY <1>1, <1>3, <2>1, <2>2, <3>2, AddedRow
    <2>4. Len(q) \notin Shown(q, d)
      BY <1>1, <1>3, <2>3, SettledRepeats DEF Shown
    <2>5. Admitted(q, d) = Admitted(r, d)
      BY <2>3, <2>4, UnseenRow
    <2>6. ASSUME Admitted(r, d) # {}
          PROVE  q[Max(Admitted(r, d))] = r[Max(Admitted(r, d))]
      <3>1. Max(Admitted(r, d)) \in Admitted(r, d)
        <4>1. Admitted(r, d) \in SUBSET Nat /\ \A i \in Admitted(r, d) : i <= Len(r)
          BY <2>3 DEF Admitted, Shown
        <4>. QED
          BY <2>3, <2>6, <4>1, Greatest
      <3>2. Max(Admitted(r, d)) \in 1..Len(r)
        BY <3>1 DEF Admitted, Shown
      <3>. QED
        BY <2>3, <3>2
    <2>7. Read(a, d) = IF Admitted(r, d) = {} THEN None ELSE r[Max(Admitted(r, d))].value
      BY <2>1 DEF Read
    <2>8. Read(a, d)' = IF Admitted(q, d) = {} THEN None ELSE q[Max(Admitted(q, d))].value
      BY <2>2 DEF Read
    <2>. QED
      BY <2>5, <2>6, <2>7, <2>8
  <1>. QED
    BY <1>1, <1>2, <1>3 DEF MakesFacts

\* A past decision whose evidence had all been made facts of is never shown anything else,
\* whatever is retrieved, restated or replayed afterwards.
THEOREM PastStands == Spec => PastReadsStand
  <1>1. ASSUME IInv, [Next]_vars, NEW d \in Times, d < now, Settled(d), NEW a \in Accessions
        PROVE  Read(a, d)' = Read(a, d)
    <2>1. CASE Normalise
      BY <1>1, <2>1, SettledStands
    <2>2. CASE ~Normalise
      <3>1. facts' = facts
        BY <1>1, <2>2 DEF Next, vars, Tick, Begin, Fetch, Verify, Fail
      <3>. QED
        BY <3>1 DEF Read
    <2>. QED
      BY <2>1, <2>2
  <1>2. IInv /\ [Next]_vars =>
          [\A d \in Times : d < now /\ Settled(d) => \A a \in Accessions : Read(a, d)' = Read(a, d)]_vars
    BY <1>1
  <1>. QED
    BY <1>2, Invariance, PTL DEF Spec, PastReadsStand
=============================================================================

------------------------ MODULE ResearchDailyProofs ------------------------
(***************************************************************************)
(* Proofs about ResearchDaily for any issuances, symbols, price vintages    *)
(* and publications by others.                                              *)
(***************************************************************************)
EXTENDS ResearchDaily, TLAPS

Covered(i, a) == Admitted(a) \subseteq Core \cup intake[i]

\* Each piece of an issuance's evidence stands on the one before.
Chain ==
  \A i \in Issuances :
    /\ batch[i] # None => i \in V2 /\ intake[i] # None /\ Covered(i, batch[i])
    /\ snap[i] # None =>
         /\ intake[i] # None /\ Covered(i, snap[i]) /\ Admitted(snap[i]) # {}
         /\ i \in V2 => batch[i] = snap[i]
    /\ i \in child => snap[i] # None
    /\ issued[i] = 1 => i \in child /\ output[i] = snap[i]

BeforeIssue == {"capture", "child", "intake", "pair", "fetch", "close", "materialize",
                "admitted", "nodata", "analyze"}

\* Where a call is tells which evidence its issuance has.
CallChain ==
  /\ pc \in BeforeIssue => issued[cur] = 0
  /\ pc \in BeforeIssue => (pc = "capture" <=> intake[cur] = None)
  /\ pc \in {"pair", "fetch", "close", "materialize"} => snap[cur] = None
  /\ pc \in {"pair", "fetch", "close"} /\ cur \in V2 => batch[cur] = None
  /\ pc = "close" => cur \in V2
  /\ pc = "admitted" => snap[cur] # None
  /\ pc = "analyze" => cur \in child
  /\ pc \in {"project", "finish"} => issued[cur] = 1

\* What a call has selected was asked for, and what it is about to materialise is closed.
Selection ==
  /\ pc \in {"pair", "fetch", "close", "materialize"} => Covered(cur, adm)
  /\ pc = "pair" => listed \subseteq Requested /\ todo \subseteq Requested
  /\ pc = "fetch" => todo \subseteq Requested \cup {Benchmark}
  /\ pc = "materialize" => Admitted(adm) # {} /\ (cur \in V2 => batch[cur] = adm)

\* The market rows a call has visited after its analysis are as new as the analysis.
Projection ==
  /\ pc \in {"project", "finish"} =>
       \A s \in ToProject(output[cur]) :
         (pc = "project" /\ s \in todo) \/ market[s] >= output[cur][s]
  /\ pc = "finish" => (cur \notin Scheduled => cur \in frequencies)

IInv == TypeOK /\ Chain /\ CallChain /\ Selection /\ Projection /\ SuccessComplete

-----------------------------------------------------------------------------
(* Facts about the data *)

\* A new vintage is a vintage and not older; the later of two is as new as both.
LEMMA Vintages ==
  \A v, w \in 0..MaxVintage :
    /\ Newer(v) \in 0..MaxVintage /\ Newer(v) >= v
    /\ Later(v, w) \in 0..MaxVintage /\ Later(v, w) >= v /\ Later(v, w) >= w
  BY ConstantsAssumption DEF Newer, Later

\* No membership, no request and no issuance is None.
LEMMA NoneApart ==
  /\ \A s \in SUBSET Saved : s # None
  /\ \A a \in Admission : a # None
  /\ \A i \in Issuances : i # None
  BY ConstantsAssumption, NoneAssumption

LEMMA NothingAdmitted == NoAdmission \in Admission
  BY ConstantsAssumption DEF NoAdmission, Admission

\* Changing one symbol of an admission that is covered keeps it so, when that symbol was
\* asked for or is no symbol at all.
LEMMA CoveredExcept ==
  ASSUME NEW i \in Issuances, NEW a \in Admission, Covered(i, a),
         NEW s \in Priced, s \in Core \cup intake[i] \cup {Benchmark},
         NEW v \in 0..MaxVintage
  PROVE  /\ [a EXCEPT ![s] = v] \in Admission
         /\ Covered(i, [a EXCEPT ![s] = v])
  BY ConstantsAssumption DEF Covered, Admitted, Admission, Priced, Symbols

\* What is selected again was selected, and has a usable history.
LEMMA ReselectedKept ==
  ASSUME TypeOK
  PROVE  /\ Reselected \in Admission
         /\ Admitted(Reselected) \subseteq Admitted(adm)
  BY ConstantsAssumption DEF Reselected, Usable, Admitted, Admission, Priced, Symbols, TypeOK

-----------------------------------------------------------------------------
(* What a step that leaves the evidence alone preserves *)

LEMMA ChainFrame ==
  ASSUME Chain, UNCHANGED <<evidence, child>>
  PROVE  Chain'
  BY DEF Chain, Covered, evidence

LEMMA SuccessFrame ==
  ASSUME TypeOK, Chain, SuccessComplete,
         UNCHANGED <<evidence, jobs>>, frequencies \subseteq frequencies',
         market' \in Admission, \A s \in Priced : market'[s] >= market[s]
  PROVE  SuccessComplete'
  <1> SUFFICES ASSUME NEW i \in daily, NEW s \in Admitted(output[i]) \cup {Benchmark}
               PROVE  market'[s] >= output[i][s]
    BY DEF SuccessComplete, evidence, jobs
  <1>1. s \in Priced
    BY DEF Admitted, Priced
  <1>2. output[i] \in Admission
    BY NoneApart DEF TypeOK, Chain, SuccessComplete
  <1>3. market[s] >= output[i][s]
    BY DEF SuccessComplete
  <1>. QED
    BY <1>1, <1>2, <1>3 DEF Admission, TypeOK

\* A call that ends leaves nothing behind but its evidence.
LEMMA LeaveKeeps ==
  ASSUME IInv, Leave, UNCHANGED <<env, prices, evidence, frequencies, jobs>>
  PROVE  IInv'
  <1> USE DEF IInv
  <1>1. TypeOK'
    BY NothingAdmitted, NoneApart
    DEF TypeOK, Leave, ForgetLocals, env, prices, evidence, jobs
  <1>2. Chain'
    BY ChainFrame DEF jobs
  <1>3. CallChain' /\ Selection' /\ Projection'
    BY DEF Leave, CallChain, BeforeIssue, Selection, Projection
  <1>4. SuccessComplete'
    BY DEF SuccessComplete, evidence, jobs, prices
  <1>. QED
    BY <1>1, <1>2, <1>3, <1>4

\* What others do while a call is under way.
LEMMA BesideKeeps ==
  ASSUME IInv, UNCHANGED <<evidence, jobs, cur, pc, locals>>,
         saved' \subseteq Saved, enabled' \in BOOLEAN, declared' \in BOOLEAN,
         open' \in BOOLEAN, corrections' \in 0..MaxCorrections,
         vintage' \in Admission, market' \in Admission, conflict' \subseteq Priced,
         frequencies' \subseteq Issuances, frequencies \subseteq frequencies',
         \A s \in Priced : market'[s] >= market[s]
  PROVE  IInv'
  <1> USE DEF IInv
  <1>1. TypeOK'
    BY DEF TypeOK, evidence, jobs, locals
  <1>2. Chain'
    BY ChainFrame DEF jobs
  <1>3. CallChain'
    BY DEF CallChain, evidence, jobs
  <1>4. Selection'
    BY DEF Selection, Covered, Requested, evidence, locals
  <1>5. ASSUME pc \in {"project", "finish"}, NEW s \in ToProject(output[cur]),
               ~(pc = "project" /\ s \in todo)
        PROVE  market'[s] >= output[cur][s]
    <2>1. market[s] >= output[cur][s] /\ s \in Priced
      BY <1>5 DEF Projection, ToProject, Admitted, Priced
    <2>2. cur \in Issuances /\ issued[cur] = 1
      BY <1>5 DEF TypeOK, CallChain
    <2>3. output[cur] \in Admission
      BY <2>2, NoneApart DEF Chain, TypeOK
    <2>. QED
      BY <2>1, <2>3 DEF TypeOK, Admission
  <1>6. Projection'
    BY <1>5 DEF Projection, ToProject, Admitted, evidence, locals
  <1>7. SuccessComplete'
    BY SuccessFrame
  <1>. QED
    BY <1>1, <1>2, <1>3, <1>4, <1>6, <1>7

-----------------------------------------------------------------------------
(* Steps that only choose what to do next *)

LEMMA StartKeeps ==
  ASSUME IInv, NEW i \in Issuances, Start(i)
  PROVE  IInv'
  <1> USE DEF IInv, Start, Goto
  <1>1. TypeOK'
    BY NoneApart DEF TypeOK, InTask, env, prices, evidence, jobs, locals
  <1>2. Chain'
    BY ChainFrame DEF jobs
  <1>3. CallChain' /\ Selection' /\ Projection'
    BY DEF CallChain, BeforeIssue, Selection, Projection
  <1>4. SuccessComplete'
    BY DEF SuccessComplete, evidence, jobs, prices
  <1>. QED
    BY <1>1, <1>2, <1>3, <1>4

LEMMA RecoverKeeps ==
  ASSUME IInv, Recover
  PROVE  IInv'
  <1> USE DEF IInv, Recover, Goto
  <1>1. TypeOK'
    BY NoneApart, ConstantsAssumption
    DEF TypeOK, InTask, env, prices, evidence, jobs, locals, ToProject, Completed, Admitted, Priced
  <1>2. Chain'
    BY ChainFrame DEF jobs
  <1>3. CallChain'
    BY NoneApart DEF CallChain, BeforeIssue, Chain, TypeOK, env, prices, evidence, jobs, locals, Completed
  <1>4. Selection'
    BY DEF Selection, Requested, Covered, CallChain, TypeOK, env, prices, evidence, jobs, locals
  <1>5. Projection'
    BY DEF Projection, CallChain, env, prices, evidence, jobs, locals, Completed
  <1>6. SuccessComplete'
    BY DEF SuccessComplete, env, prices, evidence, jobs, locals
  <1>. QED
    BY <1>1, <1>2, <1>3, <1>4, <1>5, <1>6

LEMMA ProceedKeeps ==
  ASSUME IInv, Proceed
  PROVE  IInv'
  <1> USE DEF IInv, Proceed, Goto
  <1>1. TypeOK'
    BY NoneApart, ConstantsAssumption
    DEF TypeOK, InTask, env, prices, evidence, jobs, locals, MayIssue
  <1>2. Chain'
    BY ChainFrame DEF jobs
  <1>3. CallChain'
    BY NoneApart DEF CallChain, BeforeIssue, Chain, TypeOK, env, prices, evidence, jobs, locals, Completed, MayIssue
  <1>4. Selection'
    BY DEF Selection, Requested, Covered, CallChain, TypeOK, env, prices, evidence, jobs, locals
  <1>5. Projection'
    BY DEF Projection, CallChain, env, prices, evidence, jobs, locals
  <1>6. SuccessComplete'
    BY DEF SuccessComplete, env, prices, evidence, jobs, locals
  <1>. QED
    BY <1>1, <1>2, <1>3, <1>4, <1>5, <1>6

LEMMA BeginChildKeeps ==
  ASSUME IInv, BeginChild
  PROVE  IInv'
  <1> USE DEF IInv, BeginChild, Goto
  <1>1. TypeOK'
    BY NoneApart, ConstantsAssumption
    DEF TypeOK, InTask, env, prices, evidence, jobs, locals
  <1>2. Chain'
    BY ChainFrame DEF jobs
  <1>3. CallChain'
    BY NoneApart DEF CallChain, BeforeIssue, Chain, TypeOK, env, prices, evidence, jobs, locals
  <1>4. Selection'
    BY DEF Selection, Requested, Covered, CallChain, TypeOK, env, prices, evidence, jobs, locals
  <1>5. Projection'
    BY DEF Projection, CallChain, env, prices, evidence, jobs, locals
  <1>6. SuccessComplete'
    BY DEF SuccessComplete, env, prices, evidence, jobs, locals
  <1>. QED
    BY <1>1, <1>2, <1>3, <1>4, <1>5, <1>6

LEMMA RecoverSnapshotKeeps ==
  ASSUME IInv, RecoverSnapshot
  PROVE  IInv'
  <1> USE DEF IInv, RecoverSnapshot, Goto
  <1>1. TypeOK'
    BY NoneApart, ConstantsAssumption
    DEF TypeOK, InTask, env, prices, evidence, jobs, locals
  <1>2. Chain'
    BY ChainFrame DEF jobs
  <1>3. CallChain'
    BY NoneApart DEF CallChain, BeforeIssue, Chain, TypeOK, env, prices, evidence, jobs, locals
  <1>4. Selection'
    BY DEF Selection, Requested, Covered, CallChain, TypeOK, env, prices, evidence, jobs, locals
  <1>5. Projection'
    BY DEF Projection, CallChain, env, prices, evidence, jobs, locals
  <1>6. SuccessComplete'
    BY DEF SuccessComplete, env, prices, evidence, jobs, locals
  <1>. QED
    BY <1>1, <1>2, <1>3, <1>4, <1>5, <1>6

LEMMA RecoverBatchKeeps ==
  ASSUME IInv, RecoverBatch
  PROVE  IInv'
  <1> USE DEF IInv, RecoverBatch, Goto
  <1>1. TypeOK'
    BY NoneApart, ConstantsAssumption
    DEF TypeOK, InTask, env, prices, evidence, jobs, locals, Qualify, ClosedBatch
  <1>2. Chain'
    BY ChainFrame DEF jobs
  <1>3. CallChain'
    BY NoneApart DEF CallChain, BeforeIssue, Chain, TypeOK, env, prices, evidence, jobs, locals, Qualify, ClosedBatch
  <1>4. Selection'
    BY NoneApart DEF Selection, Requested, Covered, CallChain, TypeOK, env, prices, evidence, jobs, locals, Chain, Qualify, ClosedBatch
  <1>5. Projection'
    BY DEF Projection, CallChain, env, prices, evidence, jobs, locals, Qualify
  <1>6. SuccessComplete'
    BY DEF SuccessComplete, env, prices, evidence, jobs, locals
  <1>. QED
    BY <1>1, <1>2, <1>3, <1>4, <1>5, <1>6

LEMMA SelectKeeps ==
  ASSUME IInv, Select
  PROVE  IInv'
  <1> USE DEF IInv, Select, Goto
  <1>1. TypeOK'
    <2>1. PICK ls \in SUBSET Requested :
            /\ listed' = ls
            /\ adm' = [s \in Priced |-> IF s \in ls \cup {Benchmark} THEN Usable(s) ELSE 0]
            /\ todo' = IF cur \in V2 /\ Witness \in ls THEN ls ELSE {}
      OBVIOUS
    <2>2. Requested \subseteq Symbols
      BY DEF Requested, Symbols, CallChain, BeforeIssue, TypeOK
    <2>3. \A s \in Priced : Usable(s) \in 0..MaxVintage
      BY ConstantsAssumption DEF Usable, Admission, TypeOK
    <2>4. adm' \in Admission
      BY <2>1, <2>3, ConstantsAssumption DEF Admission
    <2>. QED
      BY <2>1, <2>2, <2>4, NoneApart
      DEF TypeOK, InTask, Priced, env, prices, evidence, jobs
  <1>2. Chain'
    BY ChainFrame DEF jobs
  <1>3. CallChain'
    BY NoneApart DEF CallChain, BeforeIssue, Chain, TypeOK, env, prices, evidence, jobs, locals, ClosedBatch
  <1>4. Selection'
    BY ConstantsAssumption, NoneApart DEF Selection, Requested, Covered, CallChain, TypeOK, env, prices, evidence, jobs, locals, Admitted, Priced, Symbols
  <1>5. Projection'
    BY DEF Projection, CallChain, env, prices, evidence, jobs, locals
  <1>6. SuccessComplete'
    BY DEF SuccessComplete, env, prices, evidence, jobs, locals
  <1>. QED
    BY <1>1, <1>2, <1>3, <1>4, <1>5, <1>6

LEMMA BeginFetchKeeps ==
  ASSUME IInv, BeginFetch
  PROVE  IInv'
  <1> USE DEF IInv, BeginFetch, Goto
  <1>1. TypeOK'
    BY NoneApart, ConstantsAssumption
    DEF TypeOK, InTask, env, prices, evidence, jobs, locals, Priced
  <1>2. Chain'
    BY ChainFrame DEF jobs
  <1>3. CallChain'
    BY NoneApart DEF CallChain, BeforeIssue, Chain, TypeOK, env, prices, evidence, jobs, locals
  <1>4. Selection'
    BY DEF Selection, Requested, Covered, CallChain, TypeOK, env, prices, evidence, jobs, locals, Priced, Symbols
  <1>5. Projection'
    BY DEF Projection, CallChain, env, prices, evidence, jobs, locals
  <1>6. SuccessComplete'
    BY DEF SuccessComplete, env, prices, evidence, jobs, locals
  <1>. QED
    BY <1>1, <1>2, <1>3, <1>4, <1>5, <1>6

LEMMA DecideKeeps ==
  ASSUME IInv, Decide
  PROVE  IInv'
  <1> USE DEF IInv, Decide, Goto
  <1>1. TypeOK'
    BY NoneApart, ConstantsAssumption, ReselectedKept
    DEF TypeOK, InTask, env, prices, evidence, jobs, locals, Qualify
  <1>2. Chain'
    BY ChainFrame DEF jobs
  <1>3. CallChain'
    BY NoneApart DEF CallChain, BeforeIssue, Chain, TypeOK, env, prices, evidence, jobs, locals, Qualify
  <1>4. Selection'
    BY ReselectedKept DEF Selection, Requested, Covered, CallChain, TypeOK, env, prices, evidence, jobs, locals, Qualify
  <1>5. Projection'
    BY DEF Projection, CallChain, env, prices, evidence, jobs, locals, Qualify
  <1>6. SuccessComplete'
    BY DEF SuccessComplete, env, prices, evidence, jobs, locals
  <1>. QED
    BY <1>1, <1>2, <1>3, <1>4, <1>5, <1>6

-----------------------------------------------------------------------------
(* Steps of the request loops and of the projection *)

\* A market row that takes the later of two vintages never goes back.
LEMMA Raised ==
  ASSUME TypeOK, NEW s \in Priced, NEW v \in 0..MaxVintage,
         market' = [market EXCEPT ![s] = Later(@, v)]
  PROVE  /\ market' \in Admission /\ market'[s] >= v
         /\ \A t \in Priced : market'[t] >= market[t]
  <1>1. \A t \in Priced : market[t] \in 0..MaxVintage
    BY DEF TypeOK, Admission
  <1>2. /\ Later(market[s], v) \in 0..MaxVintage
        /\ Later(market[s], v) >= market[s] /\ Later(market[s], v) >= v
    BY <1>1, Vintages
  <1>3. \A t \in Priced : market'[t] = IF t = s THEN Later(market[s], v) ELSE market[t]
    BY DEF TypeOK, Admission
  <1>4. market' \in Admission
    BY <1>1, <1>2 DEF TypeOK, Admission
  <1>. QED
    BY <1>1, <1>2, <1>3, <1>4, ConstantsAssumption

LEMMA PairKeeps ==
  ASSUME IInv, NEW s \in Symbols, Pair(s)
  PROVE  IInv'
  <1> USE DEF IInv, Pair, Pairable
  <1>1. /\ vintage[s] \in 0..MaxVintage /\ s \in Priced
        /\ vintage'[s] = Newer(vintage[s]) /\ vintage' \in Admission
    BY Vintages DEF TypeOK, Admission, Priced
  <1>2. s \in Core \cup intake[cur] \cup {Benchmark} /\ Covered(cur, adm) /\ cur \in Issuances
    BY DEF Selection, Requested, TypeOK, InTask
  <1>3. vintage'[s] \in 0..MaxVintage
    BY <1>1, Vintages
  <1>4. adm' \in Admission /\ Covered(cur, adm')
    BY <1>1, <1>2, <1>3, CoveredExcept DEF TypeOK
  <1>5. TypeOK'
    BY <1>1, <1>4 DEF TypeOK, env, evidence, jobs
  <1>6. Chain'
    BY ChainFrame DEF jobs
  <1>7. CallChain' /\ Projection'
    BY DEF CallChain, Projection, evidence, jobs
  <1>8. Selection'
    BY <1>4 DEF Selection, Requested, Covered, evidence
  <1>9. SuccessComplete'
    BY DEF SuccessComplete, evidence, jobs
  <1>. QED
    BY <1>5, <1>6, <1>7, <1>8, <1>9

LEMMA FetchKeeps ==
  ASSUME IInv, NEW s \in Priced, Fetch(s)
  PROVE  IInv'
  <1> USE DEF IInv, Fetch, Next1
  <1>1. /\ vintage[s] \in 0..MaxVintage
        /\ vintage'[s] = Newer(vintage[s]) /\ vintage' \in Admission
    BY Vintages DEF TypeOK, Admission
  <1>2. s \in Core \cup intake[cur] \cup {Benchmark} /\ Covered(cur, adm) /\ cur \in Issuances
    BY DEF Selection, Requested, TypeOK, InTask
  <1>3. vintage'[s] \in 0..MaxVintage
    BY <1>1, Vintages
  <1>4. adm' \in Admission /\ Covered(cur, adm')
    BY <1>1, <1>2, <1>3, CoveredExcept DEF TypeOK
  <1>5. market' \in Admission /\ \A t \in Priced : market'[t] >= market[t]
    <2>1. CASE s = Benchmark
      BY <2>1, ConstantsAssumption DEF TypeOK, Admission
    <2>2. CASE s # Benchmark
      BY <2>2, <1>3, Raised
    <2>. QED
      BY <2>1, <2>2
  <1>6. TypeOK'
    BY <1>1, <1>4, <1>5 DEF TypeOK, env, evidence, jobs
  <1>7. Chain'
    BY ChainFrame DEF jobs
  <1>8. CallChain' /\ Projection'
    BY DEF CallChain, Projection, evidence, jobs
  <1>9. Selection'
    BY <1>4 DEF Selection, Requested, Covered, evidence
  <1>10. SuccessComplete'
    BY <1>5, SuccessFrame
  <1>. QED
    BY <1>6, <1>7, <1>8, <1>9, <1>10

\* The market row that is visited becomes as new as the analysis.
LEMMA ProjectKeeps ==
  ASSUME IInv, NEW s \in Priced, Project(s)
  PROVE  IInv'
  <1> USE DEF IInv, Project, Next1
  <1>1. cur \in Issuances /\ output[cur] \in Admission
    BY NoneApart DEF TypeOK, InTask, CallChain, Chain
  <1>2. market[s] \in 0..MaxVintage /\ output[cur][s] \in 0..MaxVintage
    BY <1>1 DEF TypeOK, Admission
  <1>3. /\ market' \in Admission /\ market'[s] >= output[cur][s]
        /\ \A t \in Priced : market'[t] >= market[t]
    BY <1>2, Raised DEF Projected
  <1>4. TypeOK'
    BY <1>3 DEF TypeOK, env, evidence, jobs
  <1>5. Chain'
    BY ChainFrame DEF jobs
  <1>6. CallChain' /\ Selection'
    BY DEF CallChain, BeforeIssue, Selection, evidence, jobs
  <1>7. ASSUME NEW t \in ToProject(output[cur]), t \notin todo'
        PROVE  market'[t] >= output[cur][t]
    <2>1. t \in Priced
      BY DEF ToProject, Admitted, Priced
    <2>2. CASE t = s
      BY <2>2, <1>3
    <2>3. CASE t # s
      BY <2>1, <2>3, <1>7 DEF Projection, TypeOK, Admission
    <2>. QED
      BY <2>2, <2>3
  <1>8. Projection'
    BY <1>7 DEF Projection, ToProject, Admitted, evidence
  <1>9. SuccessComplete'
    BY <1>3, SuccessFrame
  <1>. QED
    BY <1>4, <1>5, <1>6, <1>8, <1>9

\* A request that fails only shortens the list of what is left to request.
LEMMA FailsKeeps ==
  ASSUME IInv, NEW s \in Symbols, PairFails(s) \/ FetchFails(s)
  PROVE  IInv'
  <1> USE DEF IInv, PairFails, FetchFails
  <1>1. todo' \subseteq todo /\ pc \in {"pair", "fetch"}
    OBVIOUS
  <1>2. TypeOK'
    BY <1>1 DEF TypeOK, env, prices, evidence, jobs
  <1>3. Chain'
    BY ChainFrame DEF jobs
  <1>4. CallChain' /\ Projection'
    BY <1>1 DEF CallChain, Projection, evidence, jobs, prices
  <1>5. Selection'
    BY <1>1 DEF Selection, Requested, Covered, evidence
  <1>6. SuccessComplete'
    BY DEF SuccessComplete, evidence, jobs, prices
  <1>. QED
    BY <1>2, <1>3, <1>4, <1>5, <1>6

-----------------------------------------------------------------------------
(* Steps that commit evidence or a success *)

LEMMA CaptureKeeps ==
  ASSUME IInv, Capture
  PROVE  IInv'
  <1> USE DEF IInv, Capture, Goto
  <1>1. cur \in Issuances /\ intake[cur] = None /\ issued[cur] = 0
    BY DEF TypeOK, InTask, CallChain, BeforeIssue
  <1>2. batch[cur] = None /\ snap[cur] = None
    BY <1>1 DEF Chain
  <1>3. TypeOK'
    BY <1>1, NoneApart DEF TypeOK, InTask, env, prices, jobs, locals
  <1>4. Chain'
    BY <1>1, <1>2 DEF Chain, Covered, TypeOK, jobs
  <1>5. CallChain'
    BY <1>1, NoneApart DEF CallChain, BeforeIssue, TypeOK
  <1>6. Selection' /\ Projection'
    BY DEF Selection, Projection
  <1>7. SuccessComplete'
    BY DEF SuccessComplete, jobs, prices
  <1>. QED
    BY <1>3, <1>4, <1>5, <1>6, <1>7

LEMMA CloseBatchKeeps ==
  ASSUME IInv, CloseBatch
  PROVE  IInv'
  <1> USE DEF IInv, CloseBatch, Goto
  <1>1. /\ cur \in Issuances /\ cur \in V2 /\ intake[cur] # None /\ snap[cur] = None
        /\ issued[cur] = 0 /\ Covered(cur, adm)
    BY DEF TypeOK, InTask, CallChain, BeforeIssue, Selection
  <1>2. pc' = Qualify(adm) /\ batch'[cur] = adm
    BY <1>1 DEF TypeOK
  <1>3. TypeOK'
    BY <1>2, NoneApart DEF TypeOK, InTask, Qualify, env, prices, jobs, locals
  <1>4. Chain'
    BY <1>1, NoneApart DEF Chain, Covered, TypeOK, jobs
  <1>5. CallChain'
    BY <1>1, <1>2 DEF CallChain, BeforeIssue, Qualify
  <1>6. Selection' /\ Projection'
    BY <1>1, <1>2 DEF Selection, Covered, Qualify, Projection, locals
  <1>7. SuccessComplete'
    BY DEF SuccessComplete, jobs, prices
  <1>. QED
    BY <1>3, <1>4, <1>5, <1>6, <1>7

LEMMA MaterializeKeeps ==
  ASSUME IInv, Materialize
  PROVE  IInv'
  <1> USE DEF IInv, Materialize, ForgetLocals, Goto
  <1>1. /\ cur \in Issuances /\ snap[cur] = None /\ issued[cur] = 0 /\ cur \notin daily
        /\ cur \notin child /\ intake[cur] # None /\ snap'[cur] = adm /\ adm # None
    BY NoneApart DEF TypeOK, InTask, CallChain, BeforeIssue, Chain, SuccessComplete
  <1>2. TypeOK'
    BY NothingAdmitted, NoneApart DEF TypeOK, InTask, env, prices, jobs
  <1>3. Chain'
    BY <1>1 DEF Chain, Covered, Selection, TypeOK, jobs
  <1>4. CallChain'
    BY <1>1 DEF CallChain, BeforeIssue
  <1>5. Selection' /\ Projection'
    BY DEF Selection, Projection
  <1>6. SuccessComplete'
    BY <1>1 DEF SuccessComplete, TypeOK, jobs, prices
  <1>. QED
    BY <1>2, <1>3, <1>4, <1>5, <1>6

LEMMA FinishChildKeeps ==
  ASSUME IInv, FinishChild
  PROVE  IInv'
  <1> USE DEF IInv, FinishChild, Goto
  <1>1. cur \in Issuances /\ snap[cur] # None
    BY DEF TypeOK, InTask, CallChain
  <1>2. TypeOK'
    BY <1>1, NoneApart DEF TypeOK, InTask, env, prices, evidence, locals
  <1>3. Chain'
    BY <1>1 DEF Chain, Covered, evidence
  <1>4. CallChain'
    BY DEF CallChain, BeforeIssue, evidence
  <1>5. Selection' /\ Projection'
    BY DEF Selection, Projection
  <1>6. SuccessComplete'
    BY DEF SuccessComplete, evidence, prices
  <1>. QED
    BY <1>2, <1>3, <1>4, <1>5, <1>6

LEMMA AnalyzeKeeps ==
  ASSUME IInv, Analyze
  PROVE  IInv'
  <1> USE DEF IInv, Analyze, Goto
  <1>1. /\ cur \in Issuances /\ issued[cur] = 0 /\ cur \in child /\ cur \notin daily
        /\ issued'[cur] = 1 /\ output'[cur] = snap[cur] /\ snap[cur] \in Admission
    BY DEF TypeOK, InTask, CallChain, BeforeIssue, SuccessComplete
  <1>2. TypeOK'
    BY <1>1, NoneApart, ConstantsAssumption
    DEF TypeOK, InTask, ToProject, Admitted, Priced, env, prices, jobs
  <1>3. Chain'
    BY <1>1 DEF Chain, Covered, TypeOK, jobs
  <1>4. CallChain'
    BY <1>1 DEF CallChain, BeforeIssue
  <1>5. Selection' /\ Projection'
    BY <1>1 DEF Selection, Projection
  <1>6. SuccessComplete'
    BY <1>1 DEF SuccessComplete, TypeOK, jobs, prices
  <1>. QED
    BY <1>2, <1>3, <1>4, <1>5, <1>6

LEMMA RegisterFrequenciesKeeps ==
  ASSUME IInv, RegisterFrequencies
  PROVE  IInv'
  <1> USE DEF IInv, RegisterFrequencies, Registered, Goto
  <1>1. cur \in Issuances /\ issued[cur] = 1
    BY DEF TypeOK, InTask, CallChain
  <1>2. TypeOK'
    BY <1>1, NoneApart DEF TypeOK, InTask, env, prices, evidence, jobs, locals
  <1>3. Chain'
    BY ChainFrame DEF jobs
  <1>4. CallChain' /\ Selection'
    BY <1>1 DEF CallChain, BeforeIssue, Selection, evidence
  <1>5. Projection'
    BY DEF Projection, evidence, prices
  <1>6. SuccessComplete'
    BY DEF SuccessComplete, evidence, jobs, prices
  <1>. QED
    BY <1>2, <1>3, <1>4, <1>5, <1>6

LEMMA FinishDailyKeeps ==
  ASSUME IInv, FinishDaily
  PROVE  IInv'
  <1> USE DEF IInv, FinishDaily, Goto
  <1>1. /\ cur \in Issuances /\ issued[cur] = 1 /\ cur \in child
        /\ output[cur] = snap[cur]
    BY DEF TypeOK, InTask, CallChain, Chain
  <1>2. TypeOK'
    BY <1>1, NoneApart DEF TypeOK, InTask, env, prices, evidence, locals
  <1>3. Chain'
    BY ChainFrame
  <1>4. CallChain' /\ Selection' /\ Projection'
    BY DEF CallChain, BeforeIssue, Selection, Projection
  <1>5. SuccessComplete'
    BY <1>1 DEF SuccessComplete, Projection, ToProject, evidence, prices
  <1>. QED
    BY <1>2, <1>3, <1>4, <1>5

-----------------------------------------------------------------------------
(* The whole next-state relation *)

LEMMA CorrectKeeps ==
  ASSUME IInv, NEW s \in Priced, Correct(s)
  PROVE  IInv'
  <1> USE DEF IInv, Correct
  <1>1. corrections' \in 0..MaxCorrections
    BY ConstantsAssumption DEF TypeOK
  <1>2. vintage[s] \in 0..MaxVintage
    BY DEF TypeOK, Admission
  <1>3. CASE /\ vintage' = [vintage EXCEPT ![s] = Newer(@)]
             /\ conflict' = conflict \ {s}
             /\ market' = [market EXCEPT ![s] = Later(@, vintage'[s])]
    <2>1. vintage' \in Admission /\ vintage'[s] \in 0..MaxVintage
      BY <1>2, <1>3, Vintages DEF TypeOK, Admission
    <2>2. market' \in Admission /\ \A t \in Priced : market'[t] >= market[t]
      BY <1>3, <2>1, Raised
    <2>. QED
      BY <1>1, <1>3, <2>1, <2>2, BesideKeeps DEF TypeOK
  <1>4. CASE conflict' = conflict \cup {s} /\ UNCHANGED <<vintage, market>>
    <2>1. \A t \in Priced : market'[t] >= market[t]
      BY <1>4 DEF TypeOK, Admission
    <2>. QED
      BY <1>1, <1>4, <2>1, BesideKeeps DEF TypeOK
  <1>. QED
    BY <1>3, <1>4

LEMMA Inductive ==
  ASSUME IInv, [Next]_vars
  PROVE  IInv'
  <1>1. \A t \in Priced : market[t] >= market[t]
    BY DEF IInv, TypeOK, Admission
  <1>2. CASE UNCHANGED vars
    BY <1>1, <1>2, BesideKeeps
    DEF vars, IInv, TypeOK, env, prices, evidence, jobs
  <1>3. ASSUME NEW i \in Issuances, Start(i) PROVE IInv'
    BY <1>3, StartKeeps
  <1>4. CASE TaskStep
    <2>1. CASE Recover \/ Proceed \/ Capture \/ BeginChild
      BY <2>1, RecoverKeeps, ProceedKeeps, CaptureKeeps, BeginChildKeeps
    <2>2. CASE RecoverSnapshot \/ RecoverBatch \/ Select
      BY <2>2, RecoverSnapshotKeeps, RecoverBatchKeeps, SelectKeeps
    <2>3. ASSUME NEW s \in Symbols, Pair(s) \/ PairFails(s) \/ FetchFails(s) PROVE IInv'
      BY <2>3, PairKeeps, FailsKeeps
    <2>4. CASE BeginFetch \/ Decide \/ CloseBatch \/ Materialize
      BY <2>4, BeginFetchKeeps, DecideKeeps, CloseBatchKeeps, MaterializeKeeps
    <2>5. CASE FinishChild \/ NoData
      BY <2>5, FinishChildKeeps, LeaveKeeps DEF NoData
    <2>6. ASSUME NEW s \in Priced, Fetch(s) \/ Project(s) PROVE IInv'
      BY <2>6, FetchKeeps, ProjectKeeps
    <2>7. CASE Analyze \/ RegisterFrequencies \/ FinishDaily \/ Check
      BY <2>7, AnalyzeKeeps, RegisterFrequenciesKeeps, FinishDailyKeeps, LeaveKeeps
      DEF Check
    <2>8. CASE Refuse
      BY <2>8, LeaveKeeps DEF Refuse
    <2>. QED
      BY <1>4, <2>1, <2>2, <2>3, <2>4, <2>5, <2>6, <2>7, <2>8 DEF TaskStep
  <1>5. CASE Abort
    BY <1>5, LeaveKeeps DEF Abort
  <1>6. CASE Environment
    <2>1. CASE ChangeSaved
      BY <1>1, <2>1, BesideKeeps DEF ChangeSaved, IInv, TypeOK, prices
    <2>2. CASE SwitchProduct \/ Declare \/ NextSessionOpens
      BY <1>1, <2>2, BesideKeeps
      DEF SwitchProduct, Declare, NextSessionOpens, IInv, TypeOK, prices
    <2>3. ASSUME NEW i \in Issuances, Backfill(i) PROVE IInv'
      BY <1>1, <2>3, BesideKeeps DEF Backfill, IInv, TypeOK, env, prices
    <2>. QED
      BY <1>6, <2>1, <2>2, <2>3, CorrectKeeps DEF Environment
  <1>. QED
    BY <1>2, <1>3, <1>4, <1>5, <1>6 DEF Next

LEMMA Initially ==
  ASSUME Init
  PROVE  IInv
  <1>1. TypeOK
    BY NothingAdmitted, ConstantsAssumption DEF Init, TypeOK
  <1>2. Chain /\ CallChain /\ Selection /\ Projection /\ SuccessComplete
    BY ConstantsAssumption
    DEF Init, Chain, CallChain, BeforeIssue, Selection, Projection, SuccessComplete
  <1>. QED
    BY <1>1, <1>2 DEF IInv

\* The inductive invariant: where a call is tells what its issuance has, each piece of
\* evidence stands on the one before, and rows visited by a projection are as new as it.
THEOREM Invariance == Spec => []IInv
  BY Initially, Inductive, PTL DEF Spec

\* An issuance never has two analyses, and a call holds the lock until it has ended.
THEOREM TypeCorrect == Spec => []TypeOK
  BY Invariance, PTL DEF IInv

\* Requests to the provider are made only while there is nothing to recover: no closed
\* batch, no membership, no analysis.
THEOREM NoCreditForRecovery == Spec => []RequestsOnlyWhileOpen
  <1>1. IInv => RequestsOnlyWhileOpen
    BY DEF IInv, CallChain, BeforeIssue, RequestsOnlyWhileOpen
  <1>. QED
    BY <1>1, Invariance, PTL

\* A daily job that succeeded stands on its child, one analysis of the admitted cohort,
\* market rows as new as the prices that it used, and the frequencies if it is manual.
THEOREM SuccessStands == Spec => []SuccessComplete
  BY Invariance, PTL DEF IInv

\* No step takes a market row back to an older price vintage.
THEOREM MarketForward == Spec => MarketNeverRegresses
  <1>1. ASSUME IInv, Next
        PROVE  \A t \in Priced : market'[t] >= market[t]
    <2>. USE <1>1 DEF IInv
    <2>1. ASSUME UNCHANGED market PROVE \A t \in Priced : market'[t] >= market[t]
      BY <2>1 DEF TypeOK, Admission
    <2>2. ASSUME NEW s \in Priced, Fetch(s) PROVE \A t \in Priced : market'[t] >= market[t]
      <3>1. vintage'[s] \in 0..MaxVintage
        BY <2>2, Vintages DEF Fetch, TypeOK, Admission
      <3>. QED
        BY <2>1, <2>2, <3>1, Raised DEF Fetch
    <2>3. ASSUME NEW s \in Priced, Project(s) PROVE \A t \in Priced : market'[t] >= market[t]
      <3>1. output[cur] \in Admission
        BY <2>3, NoneApart DEF Project, TypeOK, InTask, CallChain, Chain
      <3>2. output[cur][s] \in 0..MaxVintage
        BY <3>1 DEF Admission
      <3>. QED
        BY <2>3, <3>2, Raised DEF Project, Projected
    <2>4. ASSUME NEW s \in Priced, Correct(s) PROVE \A t \in Priced : market'[t] >= market[t]
      <3>1. vintage[s] \in 0..MaxVintage
        BY DEF TypeOK, Admission
      <3>2. (vintage' = [vintage EXCEPT ![s] = Newer(@)]) => vintage'[s] \in 0..MaxVintage
        BY <3>1, Vintages DEF TypeOK, Admission
      <3>. QED
        BY <2>1, <2>4, <3>2, Raised DEF Correct
    <2>5. ASSUME NEW s \in Symbols, Pair(s) \/ PairFails(s) \/ FetchFails(s)
          PROVE  UNCHANGED market
      BY <2>5 DEF Pair, PairFails, FetchFails, prices
    <2>6. CASE TaskStep
      BY <2>1, <2>2, <2>3, <2>5, <2>6
      DEF TaskStep, Recover, Proceed, Capture, BeginChild, RecoverSnapshot, RecoverBatch,
          Select, BeginFetch, Decide, CloseBatch, Materialize, FinishChild, NoData, Analyze,
          RegisterFrequencies, FinishDaily, Check, Refuse, prices
    <2>7. CASE Environment
      BY <2>1, <2>4, <2>7
      DEF Environment, ChangeSaved, SwitchProduct, Declare, NextSessionOpens, Backfill,
          prices
    <2>. QED
      BY <2>1, <2>6, <2>7 DEF Next, Start, Abort, prices
  <1>2. IInv /\ [Next]_vars => [\A s \in Priced : market'[s] >= market[s]]_market
    BY <1>1 DEF vars, prices
  <1>. QED
    BY <1>2, Invariance, PTL DEF Spec, MarketNeverRegresses

-----------------------------------------------------------------------------
(* The implementation of IssuanceEvidence *)

LEMMA SameAdmissions ==
  /\ Evidence!Admission = Admission
  /\ \A a \in Admission : Evidence!Admitted(a) = Admitted(a)
  /\ \A i \in Issuances, a \in Admission : Evidence!Covers(i, a) <=> Covered(i, a)
  BY DEF Evidence!Admission, Evidence!Symbols, Evidence!Admitted, Evidence!Covers,
         Admission, Priced, Symbols, Admitted, Covered

LEMMA CaptureRefines ==
  ASSUME IInv, Capture
  PROVE  Evidence!Next
  <1>1. cur \in Issuances /\ intake[cur] = None /\ saved \in SUBSET Saved
    BY DEF IInv, Capture, TypeOK, InTask, CallChain, BeforeIssue
  <1>2. Evidence!Capture(cur)
    BY <1>1 DEF Capture, Evidence!Capture
  <1>. QED
    BY <1>1, <1>2 DEF Evidence!Next

LEMMA CloseBatchRefines ==
  ASSUME IInv, CloseBatch
  PROVE  Evidence!Next
  <1>1. /\ cur \in Issuances /\ cur \in V2 /\ intake[cur] # None /\ snap[cur] = None
        /\ adm \in Admission /\ Covered(cur, adm)
    BY DEF IInv, CloseBatch, TypeOK, InTask, CallChain, BeforeIssue, Selection
  <1>2. Evidence!CloseBatch(cur)
    BY <1>1, SameAdmissions DEF CloseBatch, Evidence!CloseBatch
  <1>. QED
    BY <1>1, <1>2 DEF Evidence!Next

LEMMA MaterializeRefines ==
  ASSUME IInv, Materialize
  PROVE  Evidence!Next
  <1>1. /\ cur \in Issuances /\ intake[cur] # None /\ snap[cur] = None
        /\ adm \in Admission /\ Covered(cur, adm) /\ Admitted(adm) # {}
        /\ cur \in V2 => adm = batch[cur]
    BY DEF IInv, Materialize, TypeOK, InTask, CallChain, BeforeIssue, Selection
  <1>2. Evidence!Admit(cur)
    BY <1>1, SameAdmissions DEF Materialize, Evidence!Admit
  <1>. QED
    BY <1>1, <1>2 DEF Evidence!Next

LEMMA AnalyzeRefines ==
  ASSUME IInv, Analyze
  PROVE  Evidence!Next
  <1>1. cur \in Issuances /\ issued[cur] = 0 /\ snap[cur] # None
    BY DEF IInv, Analyze, TypeOK, InTask, CallChain, BeforeIssue
  <1>2. Evidence!Issue(cur)
    BY <1>1 DEF Analyze, Evidence!Issue
  <1>. QED
    BY <1>1, <1>2 DEF Evidence!Next

\* Every other step leaves the evidence alone.
LEMMA OthersStutter ==
  ASSUME [Next]_vars, ~Capture, ~CloseBatch, ~Materialize, ~Analyze
  PROVE  UNCHANGED Evidence!vars
  <1>. USE DEF evidence, Evidence!vars
  <1>1. CASE UNCHANGED vars
    BY <1>1 DEF vars
  <1>2. CASE TaskStep
    BY <1>2
    DEF TaskStep, Recover, Proceed, BeginChild, RecoverSnapshot, RecoverBatch, Select,
        Pair, PairFails, Fetch, FetchFails, BeginFetch, Decide, FinishChild, NoData,
        Project, RegisterFrequencies, FinishDaily, Check, Refuse
  <1>3. CASE Environment
    BY <1>3
    DEF Environment, ChangeSaved, SwitchProduct, Declare, NextSessionOpens, Correct,
        Backfill
  <1>. QED
    BY <1>1, <1>2, <1>3 DEF Next, Start, Abort

\* The evidence of every issuance is captured, closed, admitted and issued in order, each
\* piece once and from the one before: the daily job implements IssuanceEvidence.
THEOREM Refinement == Spec => ImplementsEvidence
  <1>1. Init => Evidence!Init
    BY DEF Init, Evidence!Init
  <1>2. IInv /\ [Next]_vars => [Evidence!Next]_(Evidence!vars)
    BY CaptureRefines, CloseBatchRefines, MaterializeRefines, AnalyzeRefines, OthersStutter
  <1>. QED
    BY <1>1, <1>2, Invariance, PTL DEF Spec, ImplementsEvidence, Evidence!Spec
=============================================================================

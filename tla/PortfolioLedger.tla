-------------------------- MODULE PortfolioLedger --------------------------
(***************************************************************************)
(* One manually kept portfolio: portfolio/service.py (holdings, valuation,  *)
(* snapshots, performance baselines) and portfolio/planner.py (deposits,    *)
(* the monthly plan, the reported profit), as the pages of web/views.py and *)
(* the snapshot jobs use them, beside the market updates of                 *)
(* data/market_state.py.                                                    *)
(*                                                                          *)
(* Every writer holds the portfolio's row lock to the end of its            *)
(* transaction, so one transaction is open at a time: "txn".  The database  *)
(* reads committed data query by query, so what a transaction has not       *)
(* locked, and everything a page reads, may change between two queries.     *)
(*                                                                          *)
(* Deposits, executions and baselines are rows stamped when they are        *)
(* written; "ledger" is their order, and "at" in a snapshot is how many of  *)
(* them came before it.  Money and shares are whole numbers (the code's     *)
(* quanta; whole-share mode).  Average cost, split warnings, stale and      *)
(* future prices and archived portfolios are left out.  The snapshot a page *)
(* records after its own commit is one more snapshot request.               *)
(***************************************************************************)
EXTENDS Integers, Sequences, FiniteSets, FiniteSetsExt

CONSTANTS
  Spy, Others,    \* the core ETF, and the stocks a portfolio may hold
  Readers,        \* requests and jobs that read without a lock
  Keys,           \* idempotency keys of deposit and plan forms
  Amounts,        \* what the owner deposits
  StartCash,      \* 0 for a new portfolio; more for one from before deposits were recorded
  MaxShares, Closes,
  MaxEvents, MaxMoves,  \* bounds: ledger rows; market updates and new analyses
  MaxSnaps,       \* bound: snapshots requests and jobs record
  QuietPages,     \* whether no deposit or manual change commits while a page is read
  None

Listings == Others \cup {Spy}

ASSUME ConstantsAssumption ==
  /\ IsFiniteSet(Others) /\ Spy \notin Others /\ None \notin Listings
  /\ Amounts \subseteq Nat \ {0} /\ Closes \subseteq Nat \ {0} /\ Closes # {}
  /\ StartCash \subseteq Nat /\ MaxShares \in Nat /\ MaxEvents \in Nat
  /\ MaxMoves \in Nat /\ MaxSnaps \in Nat
  /\ QuietPages \in BOOLEAN

VARIABLES
  cash, qty,    \* Portfolio.cash_balance; the quantity held of each listing, 0 for none
  market,       \* LatestMarketData: [session, close, asset]
  satellite,    \* the stock the latest analysis qualifies for the plan, or None
  ledger,       \* deposits, baselines and executions in the order they were written
  snaps,        \* PortfolioSnapshot rows
  forms,        \* the plan shown with each idempotency key, or None
  txn,          \* the transaction that holds the portfolio row, or None
  reader,       \* what each page or snapshot request has read so far
  moves,        \* market updates so far; also names the asset behind a price
  gain          \* history: market gain since the active performance boundary

vars == <<cash, qty, market, satellite, ledger, snaps, forms, txn, reader, moves, gain>>

Idle == [at |-> "idle", cash |-> 0, value |-> 0, fresh |-> FALSE, gain |-> 0,
         deposits |-> 0, baselines |-> 0, purchases |-> 0]

Init ==
  /\ cash \in StartCash
  /\ qty = [l \in Listings |-> 0]
  /\ market = [l \in Listings |-> [session |-> 1, close |-> Min(Closes), asset |-> 0]]
  /\ satellite \in Others \cup {None}
  /\ ledger = <<>> /\ snaps = {}
  /\ forms = [k \in Keys |-> None]
  /\ txn = None
  /\ reader = [r \in Readers |-> Idle]
  /\ moves = 0 /\ gain = 0

-----------------------------------------------------------------------------
(* Valuation and snapshots *)

Sum(f) == MapThenSumSet(LAMBDA l : f[l], DOMAIN f)
Held(q) == {l \in Listings : q[l] > 0}
Value(c, q, m) == c + Sum([l \in Listings |-> q[l] * m[l].close])

\* Two listings of one valuation whose prices are from one market session.
OneSession(ls, m) == \A k, l \in ls : m[k].session = m[l].session

\* What a snapshot's input hash covers: cash, and the price row of what is held.
Content(c, q, m) == [cash |-> c, qty |-> q, market |-> [l \in Held(q) |-> m[l]]]

\* Faulty variant: the snapshot counts as younger than the row written with it.
SnapshotAfter(c, q, m, n) == [content |-> Content(c, q, m), at |-> n + 1]

SnapshotOf(c, q, m, n) == [content |-> Content(c, q, m), at |-> n]

\* record_portfolio_snapshot gets the row of that content, or creates it.
Recorded(c, q, m) ==
  LET same == {s \in snaps : s.content = Content(c, q, m)}
  IN  IF same # {} THEN CHOOSE s \in same : TRUE ELSE SnapshotOf(c, q, m, Len(ledger))

BoundaryEligible(s) == OneSession(DOMAIN s.content.market, s.content.market)

\* Faulty variant: the boundary is valued at the prices of now.
StartValueNow(s) ==
  s.content.cash + Sum([l \in DOMAIN s.content.market |-> s.content.qty[l] * market[l].close])

\* total_value of the boundary snapshot.
StartValue(s) ==
  s.content.cash + Sum([l \in DOMAIN s.content.market |->
                          s.content.qty[l] * s.content.market[l].close])

-----------------------------------------------------------------------------
(* calculate_contribution_performance *)

OfType(t, n) == {i \in 1..n : ledger[i].type = t}
HasDeposits == OfType("deposit", Len(ledger)) # {}
Withheld == [shown |-> FALSE, gain |-> 0]

Total(is) == Sum([i \in is |-> ledger[i].amount])
Bought(is, l) == Sum([i \in is |-> ledger[i].shares[l]])

\* The first nd, nb and np rows of the ledger are those the deposit, the baseline and the
\* purchase query saw; c is the cash of the portfolio object, v a valuation.
Boundary(nd, nb) ==
  IF OfType("baseline", nb) # {} THEN ledger[Max(OfType("baseline", nb))].snap
                                 ELSE ledger[Min(OfType("deposit", nd))].snap

Since(nd, nb) ==
  IF OfType("baseline", nb) # {} THEN Max(OfType("baseline", nb))
  ELSE IF Boundary(nd, nb) = None THEN 0 ELSE Boundary(nd, nb).at

Tracked(nd, nb) ==
  IF OfType("baseline", nb) # {} THEN {i \in OfType("deposit", nd) : i > Since(nd, nb)}
                                 ELSE OfType("deposit", nd)

PurchasesSince(nd, nb, np) == {i \in OfType("execution", np) : i > Since(nd, nb)}

\* Faulty variant: any cash will do.
AnyCash(b, ds, ps, c) == TRUE

\* From boundary b, deposits ds and purchases ps lead to cash c and to the shares there are.
CashReconciles(b, ds, ps, c) == c = b.content.cash + Total(ds) - Total(ps)
SharesReconcile(b, ps) == \A l \in Listings : qty[l] = b.content.qty[l] + Bought(ps, l)

Performance(nd, nb, np, c, v, fresh) ==
  LET b == Boundary(nd, nb)
      ds == Tracked(nd, nb)
      ps == PurchasesSince(nd, nb, np)
  IN  IF /\ OfType("deposit", nd) # {}
         /\ b # None /\ BoundaryEligible(b)
         /\ \A i \in ds : ledger[i].snap # None
         /\ CashReconciles(b, ds, ps, c) /\ SharesReconcile(b, ps)
         /\ fresh
        THEN [shown |-> TRUE, gain |-> v - (StartValue(b) + Total(ds))]
        ELSE Withheld

-----------------------------------------------------------------------------
(* The monthly plan *)

LargerOf(a, b) == IF a >= b THEN a ELSE b
SmallerOf(a, b) == IF a <= b THEN a ELSE b

\* Whole shares within tenths of money.
SharesFor(tenths, close) == tenths \div (10 * close)

\* preview_monthly_contribution_plan: top SPY up to 70 per cent of the portfolio, then the
\* qualified stock up to 30 per cent of it outside SPY, each within the cash left.
Plan ==
  LET total == Value(cash, qty, market)
      spyValue == qty[Spy] * market[Spy].close
      other == total - cash - spyValue
      core == SharesFor(SmallerOf(10 * cash, LargerOf(0, 7 * total - 10 * spyValue)),
                        market[Spy].close)
      left == cash - core * market[Spy].close
      open == OneSession(Held(qty) \cup {Spy}, market)
      lane == satellite # None /\ market[satellite].session = market[Spy].session
      budget == SmallerOf(10 * left, LargerOf(0, 3 * total - 10 * other))
      extra == IF lane THEN SharesFor(budget, market[satellite].close) ELSE 0
      shares == [l \in Listings |-> IF ~open THEN 0
                                    ELSE IF l = Spy THEN core
                                    ELSE IF l = satellite THEN extra ELSE 0]
  IN  [content |-> Content(cash, qty, market), spy |-> market[Spy],
       satellite |-> IF open /\ budget > 0 THEN satellite ELSE None, shares |-> shares,
       prices |-> [l \in {k \in Listings : shares[k] > 0} |-> market[l]]]

Cost(plan) == Sum([l \in DOMAIN plan.prices |-> plan.shares[l] * plan.prices[l].close])
Buys(plan) == DOMAIN plan.prices

-----------------------------------------------------------------------------
(* Writers *)

Room == Len(ledger) < MaxEvents
Using(k) == \E i \in DOMAIN ledger : ledger[i].type = "execution" /\ ledger[i].key = k

Pages == {r \in Readers : reader[r].at \notin {"idle", "loaded"}}
Quiet == QuietPages => Pages = {}

Unread == UNCHANGED <<satellite, forms, reader>>

\* upsert_holding and delete_holding: the row lock is taken, the quantity written, and the
\* new holdings valued at the prices committed now.
ChangeHolding(l, n) ==
  /\ txn = None /\ qty[l] # n
  /\ txn' = [kind |-> "manual", qty |-> [qty EXCEPT ![l] = n], market |-> market,
             gain |-> 0]
  /\ UNCHANGED <<cash, qty, market, ledger, snaps, moves, gain>> /\ Unread

\* Faulty variant: a manual change does not restart the performance.
NoBaseline(s) == ledger

\* _record_manual_performance_baseline, when there are deposits to track.
Baseline(s) ==
  IF HasDeposits THEN Append(ledger, [type |-> "baseline", snap |-> s]) ELSE ledger

CommitHolding ==
  /\ txn # None /\ txn.kind = "manual"
  /\ Quiet /\ Room
  /\ LET s == Recorded(cash, txn.qty, txn.market) IN
       /\ snaps' = IF HasDeposits THEN snaps \cup {s} ELSE snaps
       /\ ledger' = Baseline(s)
  /\ qty' = txn.qty
  /\ gain' = txn.gain
  /\ txn' = None
  /\ UNCHANGED <<cash, market, moves>> /\ Unread

\* record_external_deposit, one transaction: the holdings' market rows are locked before
\* the boundary is valued.  (A key that has been used changes nothing.)
Deposit(k, a) ==
  /\ txn = None /\ Quiet /\ Room
  /\ ~\E i \in OfType("deposit", Len(ledger)) : ledger[i].key = k
  /\ LET eligible == OneSession(Held(qty), market)
         s == Recorded(cash, qty, market)
     IN  /\ snaps' = IF eligible THEN snaps \cup {s} ELSE snaps
         /\ ledger' = Append(ledger, [type |-> "deposit", key |-> k, amount |-> a,
                                      snap |-> IF eligible THEN s ELSE None])
  /\ cash' = cash + a
  /\ gain' = IF HasDeposits THEN gain ELSE 0
  /\ UNCHANGED <<qty, market, txn, moves>> /\ Unread

\* The plan page shows a plan with a fresh key.
ShowPlan(k) ==
  /\ forms[k] = None /\ ~Using(k) /\ Buys(Plan) # {}
  /\ forms' = [forms EXCEPT ![k] = Plan]
  /\ UNCHANGED <<cash, qty, market, satellite, ledger, snaps, txn, reader, moves, gain>>

\* Faulty variant: only the market rows of what will be bought are locked.
LockPurchases(plan) == Buys(plan)

LockedListings(plan) == Held(qty) \cup Buys(plan)

\* confirm_monthly_contribution_plan takes the row lock, and plans once to learn which
\* market rows to lock.  (A key that has been used changes nothing.)
BeginConfirm(k) ==
  /\ txn = None /\ forms[k] # None /\ ~Using(k)
  /\ txn' = [kind |-> "confirm", key |-> k, lock |-> LockedListings(Plan)]
  /\ UNCHANGED <<cash, qty, market, ledger, snaps, moves, gain>> /\ Unread

\* Everything the plan hash binds is as the owner saw it.
AsShown(k) == Plan = forms[k]

\* The market rows are locked, and the plan is made again.
Replan ==
  /\ txn # None /\ txn.kind = "confirm"
  /\ AsShown(txn.key)
  /\ txn' = [kind |-> "buy", key |-> txn.key, lock |-> txn.lock]
  /\ UNCHANGED <<cash, qty, market, ledger, snaps, moves, gain>> /\ Unread

\* Each purchase is checked against its market row again, which need not be locked.
PricesStand(plan) == \A l \in Buys(plan) : market[l] = plan.prices[l]

\* Cash, the execution, its purchases and the holdings, in one commit.
Execute ==
  /\ txn # None /\ txn.kind = "buy" /\ Room
  /\ LET plan == forms[txn.key] IN
       /\ PricesStand(plan)
       /\ Cost(plan) <= cash
       /\ cash' = cash - Cost(plan)
       /\ qty' = [l \in Listings |-> qty[l] + plan.shares[l]]
       /\ ledger' = Append(ledger, [type |-> "execution", key |-> txn.key,
                                    amount |-> Cost(plan), shares |-> plan.shares])
  /\ forms' = [forms EXCEPT ![txn.key] = None]
  /\ txn' = None
  /\ UNCHANGED <<market, satellite, snaps, reader, moves, gain>>

\* The plan has changed, a purchase's price has, or the process dies: nothing is written.
RollBack ==
  /\ txn # None
  /\ txn' = None
  /\ UNCHANGED <<cash, qty, market, ledger, snaps, moves, gain>> /\ Unread

\* update_latest_market_data, which waits for the listings an open purchase has locked.
Locked == IF txn # None /\ txn.kind = "buy" THEN txn.lock ELSE {}

MoveMarket(l, session, close) ==
  /\ moves < MaxMoves /\ l \notin Locked
  /\ session >= market[l].session
  /\ moves' = moves + 1
  /\ market' = [market EXCEPT ![l] = [session |-> session, close |-> close, asset |-> moves']]
  /\ gain' = gain + qty[l] * (close - market[l].close)
  /\ txn' = IF txn # None /\ txn.kind = "manual"
              THEN [txn EXCEPT !.gain = @ + txn.qty[l] * (close - market[l].close)] ELSE txn
  /\ UNCHANGED <<cash, qty, ledger, snaps>> /\ Unread

\* A new analysis run qualifies another stock, or none.
ReplaceAnalysis ==
  /\ moves < MaxMoves /\ moves' = moves + 1
  /\ \E s \in Others \cup {None} : s # satellite /\ satellite' = s
  /\ UNCHANGED <<cash, qty, market, ledger, snaps, forms, txn, reader, gain>>

-----------------------------------------------------------------------------
(* Readers *)

Known == UNCHANGED <<cash, qty, market, satellite, ledger, forms, txn, moves, gain>>

\* A request or job that will record a snapshot loads the portfolio.  What it does before
\* the snapshot (a manual change, a settings change) is a transaction of its own.
Load(r) ==
  /\ reader[r].at = "idle"
  /\ reader' = [reader EXCEPT ![r] = [Idle EXCEPT !.at = "loaded", !.cash = cash]]
  /\ UNCHANGED snaps /\ Known

\* record_portfolio_snapshot: the cash as loaded, the holdings and prices of now.
TakeSnapshot(r) ==
  /\ reader[r].at = "loaded"
  /\ Cardinality(snaps) < MaxSnaps
  /\ snaps' = snaps \cup {Recorded(reader[r].cash, qty, market)}
  /\ reader' = [reader EXCEPT ![r] = Idle]
  /\ Known

\* The portfolio page: the portfolio, then its valuation, then one query after another.
OpenPage(r) ==
  /\ reader[r].at = "idle"
  /\ reader' = [reader EXCEPT ![r] = [Idle EXCEPT !.at = "opened", !.cash = cash]]
  /\ UNCHANGED snaps /\ Known

ValuePage(r) ==
  /\ reader[r].at = "opened"
  /\ reader' = [reader EXCEPT ![r].at = "valued", ![r].gain = gain,
                              ![r].value = Value(reader[r].cash, qty, market),
                              ![r].fresh = OneSession(Held(qty), market)]
  /\ UNCHANGED snaps /\ Known

ReadDeposits(r) ==
  /\ reader[r].at = "valued"
  /\ reader' = [reader EXCEPT ![r].at = "deposits", ![r].deposits = Len(ledger)]
  /\ UNCHANGED snaps /\ Known

ReadBaseline(r) ==
  /\ reader[r].at = "deposits"
  /\ reader' = [reader EXCEPT ![r].at = "baseline", ![r].baselines = Len(ledger)]
  /\ UNCHANGED snaps /\ Known

ReadPurchases(r) ==
  /\ reader[r].at = "baseline"
  /\ reader' = [reader EXCEPT ![r].at = "purchases", ![r].purchases = Len(ledger)]
  /\ UNCHANGED snaps /\ Known

\* The holdings' quantities are read last; the page is sent.
Reported(r) ==
  Performance(reader[r].deposits, reader[r].baselines, reader[r].purchases,
              reader[r].cash, reader[r].value, reader[r].fresh)

SendPage(r) ==
  /\ reader[r].at = "purchases"
  /\ reader' = [reader EXCEPT ![r] = Idle]
  /\ UNCHANGED snaps /\ Known

Next ==
  \/ \E l \in Listings, n \in 0..MaxShares : ChangeHolding(l, n)
  \/ CommitHolding
  \/ \E k \in Keys, a \in Amounts : Deposit(k, a)
  \/ \E k \in Keys : ShowPlan(k) \/ BeginConfirm(k)
  \/ Replan \/ Execute \/ RollBack
  \/ \E l \in Listings, d \in 0..1, c \in Closes : MoveMarket(l, market[l].session + d, c)
  \/ ReplaceAnalysis
  \/ \E r \in Readers : \/ Load(r) \/ TakeSnapshot(r)
                        \/ OpenPage(r) \/ ValuePage(r) \/ ReadDeposits(r)
                        \/ ReadBaseline(r) \/ ReadPurchases(r) \/ SendPage(r)

Spec == Init /\ [][Next]_vars

-----------------------------------------------------------------------------
(* Properties *)

\* Every variable has its type.
Price == [session : Nat, close : Closes, asset : 0..MaxMoves]
Shares == [Listings -> Nat]
TypeOK ==
  /\ cash \in Nat /\ qty \in Shares /\ market \in [Listings -> Price]
  /\ satellite \in Others \cup {None}
  /\ Len(ledger) <= MaxEvents
  /\ \A i \in DOMAIN ledger : ledger[i].type \in {"deposit", "baseline", "execution"}
  /\ \A s \in snaps : s.at \in 0..Len(ledger)
                     /\ s.content.cash \in Nat /\ s.content.qty \in Shares
                     /\ s.content.market \in [Held(s.content.qty) -> Price]
  /\ DOMAIN forms = Keys
  /\ txn # None => txn.kind \in {"manual", "confirm", "buy"}
  /\ \A r \in Readers :
       reader[r].at \in {"idle", "loaded", "opened", "valued", "deposits", "baseline", "purchases"}
  /\ moves \in 0..MaxMoves /\ gain \in Int

Now == Len(ledger)

\* The profit the ledger yields, when it is not withheld, is the market's move of what was
\* held since the boundary: no deposit, purchase or manual change ever shows up in it.
ProfitIsMarketMove ==
  LET p == Performance(Now, Now, Now, cash, Value(cash, qty, market),
                       OneSession(Held(qty), market))
  IN  p.shown => p.gain = gain

\* The ledger explains the portfolio: from any tracking boundary, deposits and purchases
\* lead to the cash and the shares there are, so the profit is never withheld because the
\* two do not reconcile.
LedgerReconciles ==
  LET b == Boundary(Now, Now)
      ps == PurchasesSince(Now, Now, Now)
  IN  HasDeposits /\ b # None =>
        CashReconciles(b, Tracked(Now, Now), ps, cash) /\ SharesReconcile(b, ps)

\* A plan is executed only as it was shown: with the cash, the holdings and the price of
\* everything held or bought, at the moment it is recorded.
ExecutedAsShown ==
  [][\A i \in DOMAIN ledger' \ DOMAIN ledger : ledger'[i].type = "execution" =>
       /\ forms[ledger'[i].key].content = Content(cash, qty, market)
       /\ \A l \in Listings : ledger'[i].shares[l] > 0 =>
            forms[ledger'[i].key].prices[l] = market'[l]]_ledger

\* The profit a page shows is the market's move since the boundary, as it was when the page
\* valued the holdings or when it was sent.
PageShowsMarketMove ==
  \A r \in Readers : reader[r].at = "purchases" /\ Reported(r).shown =>
    Reported(r).gain \in {reader[r].gain, gain}
=============================================================================

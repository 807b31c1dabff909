-------------------------- MODULE ProviderCredits --------------------------
(***************************************************************************)
(* The shared request budget of a data provider: ProviderCreditBudget in    *)
(* data/live_us.py (Twelve Data: a daily credit limit and a pace) and       *)
(* SecRequestBudget in data/sec_ingestion.py (SEC: a pace only).  Local     *)
(* jobs share one ProviderRecord row, which holds the day last counted, the *)
(* credits used on it and the next free request slot.                       *)
(*                                                                          *)
(* consume() reads the clock before it takes the row lock; the rest of it   *)
(* is one transaction.  Recording a successful job rewrites the row's       *)
(* metadata: under the row lock for SEC (data/sec_jobs.py), but for Twelve  *)
(* Data as a plain read, modify and save (data/live_us.py), two steps here. *)
(***************************************************************************)
EXTENDS Naturals

CONSTANTS
  Jobs,           \* local jobs that use the provider at the same time
  RecordingJobs,  \* Twelve Data jobs that end by rewriting the row (the legacy
                  \* daily job and configure_twelve_data; the research-product
                  \* and saved-list jobs only consume)
  Limit,          \* daily_credit_limit
  Gap,            \* clock ticks between two requests: 60 s / credits_per_minute
  DayLength,      \* clock ticks in a UTC day
  MaxClock,       \* bound: the last tick explored
  QuietRecording, \* whether no other job charges a credit while a Twelve Data job is
                  \* between reading the row and writing it back
  QuietMidnight   \* whether no job is between its clock reading and the row lock
                  \* when the UTC day changes

ASSUME ConstantsAssumption ==
  /\ Limit \in Nat \ {0} /\ Gap \in Nat \ {0} /\ DayLength \in Nat \ {0}
  /\ MaxClock \in Nat
  /\ QuietRecording \in BOOLEAN /\ QuietMidnight \in BOOLEAN
  /\ RecordingJobs \subseteq Jobs

VARIABLES
  provider,   \* which provider's budget this is
  row,        \* the ProviderRecord metadata the budget depends on
  clock,
  place,      \* where each job is
  left,       \* the requests each job still means to make
  now,        \* consume()'s clock reading
  reserved,   \* the slot a job sleeps until
  snap,       \* the metadata a recording job has read
  spent,      \* history: credits reserved for each UTC day
  floor       \* history: one interval after the last reserved slot

creditVars == <<provider, row, clock, place, left, now, reserved, snap, spent, floor>>
history == <<spent, floor>>

Day(t) == t \div DayLength
Days == 0..Day(MaxClock)
Metadata == [date : Days, used : 0..Limit, next : Nat]
NoSnap == [date |-> 0, used |-> 0, next |-> 0]
LargerOf(a, b) == IF a >= b THEN a ELSE b

\* Faulty variant: yesterday's count is carried into a new day.
UsageIgnoringDate(day) == row.used

\* _usage_for_today: the stored count belongs to the stored day only.
UsageOn(day) == IF row.date = day THEN row.used ELSE 0

CreditInit ==
  /\ provider \in {"twelve_data", "sec"}
  /\ row = [date |-> 0, used |-> 0, next |-> 0]
  /\ clock = 0
  /\ place = [j \in Jobs |-> "idle"]
  /\ left = [j \in Jobs |-> 0]
  /\ now = [j \in Jobs |-> 0]
  /\ reserved = [j \in Jobs |-> 0]
  /\ snap = [j \in Jobs |-> NoSnap]
  /\ spent = [d \in Days |-> 0]
  /\ floor = 0

\* The job is over, and what it held in memory is gone.
End(j) ==
  /\ place' = [place EXCEPT ![j] = "idle"]
  /\ left' = [left EXCEPT ![j] = 0]
  /\ now' = [now EXCEPT ![j] = 0]
  /\ reserved' = [reserved EXCEPT ![j] = 0]
  /\ snap' = [snap EXCEPT ![j] = NoSnap]

Goto(j, label) == place' = [place EXCEPT ![j] = label]

Tick ==
  /\ clock < MaxClock
  /\ clock' = clock + 1
  /\ QuietMidnight /\ Day(clock') # Day(clock) => \A j \in Jobs : place[j] # "sampled"
  /\ UNCHANGED <<provider, row, place, left, now, reserved, snap, history>>

\* A job starts with n requests to make.  Twelve Data's preflight compares n with the
\* credits left, without a lock; SEC has no preflight, and the exploration is bounded by
\* the same limit.
Preflight(j, n) ==
  /\ place[j] = "idle"
  /\ IF provider = "twelve_data" THEN UsageOn(Day(clock)) + n <= Limit
                                 ELSE spent[Day(clock)] + n <= Limit
  /\ left' = [left EXCEPT ![j] = n]
  /\ Goto(j, "ready")
  /\ UNCHANGED <<provider, row, clock, now, reserved, snap, history>>

\* consume(): `now = timezone.now()`, before the transaction.
Sample(j) ==
  /\ place[j] = "ready"
  /\ now' = [now EXCEPT ![j] = clock]
  /\ Goto(j, "sampled")
  /\ UNCHANGED <<provider, row, clock, left, reserved, snap, history>>

\* Faulty variant: the slot reserved by another job is not looked at.
SlotNow(j) == now[j]

\* reserved_at: now, or the next free slot when that is later.
SlotFor(j) == LargerOf(now[j], row.next)

\* Faulty variant: the limit is checked by preflight alone.
NeverExhausted(j) == FALSE

Exhausted(j) == provider = "twelve_data" /\ UsageOn(Day(now[j])) >= Limit

\* consume(): the row-locked transaction that charges one credit and reserves a slot.
Consume(j) ==
  /\ place[j] = "sampled"
  /\ ~Exhausted(j)
  /\ QuietRecording => \A k \in Jobs : place[k] # "writing"
  /\ LET today == Day(now[j])
         slot == SlotFor(j)
         charged == IF provider = "twelve_data" THEN UsageOn(today) + 1 ELSE row.used
     IN  /\ row' = [date |-> IF provider = "twelve_data" THEN today ELSE row.date,
                    used |-> charged, next |-> slot + Gap]
         /\ reserved' = [reserved EXCEPT ![j] = slot]
         /\ floor' = slot + Gap
         /\ spent' = [spent EXCEPT ![today] = @ + 1]
  /\ now' = [now EXCEPT ![j] = 0]
  /\ Goto(j, "sleeping")
  /\ UNCHANGED <<provider, clock, left, snap>>

\* ProviderQuotaError in the middle of a job: it ends with the requests it has made.
StopExhausted(j) ==
  /\ place[j] = "sampled"
  /\ Exhausted(j)
  /\ End(j)
  /\ UNCHANGED <<provider, row, clock, history>>

\* The slot has come: the request goes out, and the job turns to its next request, to
\* recording its success, or ends.
Records(j) == j \in RecordingJobs \/ provider = "sec"

Send(j) ==
  /\ place[j] = "sleeping"
  /\ clock >= reserved[j]
  /\ IF left[j] > 1 \/ Records(j)
       THEN /\ left' = [left EXCEPT ![j] = @ - 1]
            /\ reserved' = [reserved EXCEPT ![j] = 0]
            /\ Goto(j, IF left[j] > 1 THEN "ready" ELSE "recording")
            /\ UNCHANGED <<now, snap>>
       ELSE End(j)
  /\ UNCHANGED <<provider, row, clock, history>>

\* Twelve Data's _record_provider_success, first half: the unlocked read.
RecordRead(j) ==
  /\ place[j] = "recording" /\ provider = "twelve_data"
  /\ snap' = [snap EXCEPT ![j] = row]
  /\ Goto(j, "writing")
  /\ UNCHANGED <<provider, row, clock, left, now, reserved, history>>

\* Second half: save() writes the whole metadata back as it was read.
RecordWrite(j) ==
  /\ place[j] = "writing"
  /\ row' = snap[j]
  /\ End(j)
  /\ UNCHANGED <<provider, clock, history>>

\* SEC's _record_provider_success reads and writes under the row lock, and leaves the
\* budget's keys as it found them.
RecordLocked(j) ==
  /\ place[j] = "recording" /\ provider = "sec"
  /\ End(j)
  /\ UNCHANGED <<provider, row, clock, history>>

\* A job dies, is refused by a disabled provider, or fails on a response.
Stop(j) ==
  /\ place[j] # "idle"
  /\ End(j)
  /\ UNCHANGED <<provider, row, clock, history>>

CreditNext ==
  \/ Tick
  \/ \E j \in Jobs :
       \/ \E n \in 1..Limit : Preflight(j, n)
       \/ Sample(j)
       \/ Consume(j)
       \/ StopExhausted(j)
       \/ Send(j)
       \/ RecordRead(j)
       \/ RecordWrite(j)
       \/ RecordLocked(j)
       \/ Stop(j)

CreditSpec == CreditInit /\ [][CreditNext]_creditVars

-----------------------------------------------------------------------------
(* Properties *)

\* Every variable has its type.
CreditTypeOK ==
  /\ provider \in {"twelve_data", "sec"}
  /\ row \in Metadata
  /\ clock \in 0..MaxClock
  /\ place \in [Jobs -> {"idle", "ready", "sampled", "sleeping", "recording", "writing"}]
  /\ left \in [Jobs -> 0..Limit]
  /\ now \in [Jobs -> 0..MaxClock]
  /\ reserved \in [Jobs -> Nat]
  /\ snap \in [Jobs -> Metadata]
  /\ spent \in [Days -> Nat]
  /\ floor \in Nat

\* Jobs that run at the same time never reserve more Twelve Data credits for a UTC day
\* than the configured limit, although each checks the limit before it starts and again
\* with every request (ProviderCreditBudget.preflight and consume).
DailyLimitKept == provider = "twelve_data" => \A d \in Days : spent[d] <= Limit

\* The row never loses a credit of the day it counts: a job that reads the count sees
\* every request any job has charged on that day.
CountExact == provider = "twelve_data" => row.used = spent[row.date]

\* Any two requests, of whatever jobs, are reserved at least one interval apart
\* (next_request_not_before).
SlotsSpaced == [][spent' # spent => floor' >= floor + Gap]_history
=============================================================================

----------------------------- MODULE UpdaterBotProofs ----------------------------
(***************************************************************************)
(* Theorems about UpdaterBot, for any number of pairs, ticks, retries and  *)
(* restarts, any slots, and any number of failing writes.                  *)
(***************************************************************************)
EXTENDS UpdaterBotProperties, FiniteSetTheorems, TLAPS

--------------------------------------------------------------------------------
(* Types *)

TickPhases == {"due", "started", "updating", "over", "lost"}

RunPhases == {"waiting", "fetching", "submitting", "backoff", "locating", "recording",
              "succeeded", "skipped", "rejected", "lost"}

Runs == [phase : RunPhases, attempt : 0 .. MAX_RETRIES, seenSlot : 0 .. MaxSlot]

RunsOK ==
    /\ tick \in [Ticks -> TickPhases]
    /\ run \in [Ticks -> [Pairs -> Runs]]
    /\ \A t \in Ticks, p \in Pairs :
          /\ run[t][p].phase = "submitting" => run[t][p].attempt >= 1
          /\ run[t][p].phase = "backoff" => run[t][p].attempt < MAX_RETRIES

ChainOK ==
    /\ slot \in 1 .. MaxSlot
    /\ last_slot \in [Pairs -> 0 .. slot]
    /\ sent \subseteq Transactions
    /\ landed \subseteq [tx : Transactions, slot : 1 .. slot]

LEMMA InitRunsOK == Init => RunsOK /\ ChainOK
<1> SUFFICES ASSUME Init PROVE RunsOK /\ ChainOK
  OBVIOUS
<1> USE BotAssumption DEF TickPhases, RunPhases
<1>1. Waiting \in Runs
  BY DEF Waiting, Runs
<1>2. RunsOK
  BY <1>1 DEF Init, RunsOK, Waiting
<1>3. ChainOK
  BY DEF Init, ChainOK
<1> QED
  BY <1>2, <1>3

\* A run that leaves "submitting" and "backoff", or keeps to their bounds, is typed.
LEMMA StepKeepsRuns ==
    ASSUME RunsOK, NEW t \in Ticks, NEW p \in Pairs, NEW r \in Runs,
           r.phase = "submitting" => r.attempt >= 1,
           r.phase = "backoff" => r.attempt < MAX_RETRIES,
           run' = [run EXCEPT ![t][p] = r], UNCHANGED tick
    PROVE  RunsOK'
  BY DEF RunsOK, Runs

LEMMA UpdateKeepsRuns ==
    ASSUME RunsOK, ChainOK, NEW t \in Ticks, NEW p \in Pairs, UpdatePair(t, p)
    PROVE  RunsOK'
<1> USE BotAssumption DEF TickPhases, RunPhases
<1>0. run[t][p] \in Runs
  BY DEF RunsOK
<1>1. ASSUME NEW phase \in {"skipped", "succeeded", "rejected"}, Settle(t, p, phase),
             UNCHANGED tick
      PROVE  RunsOK'
  <2>1. [Waiting EXCEPT !.phase = phase] \in Runs
    BY DEF Waiting, Runs
  <2> QED
    BY <1>1, <2>1, StepKeepsRuns DEF Settle, Waiting
<1>2. ASSUME NEW phase \in {"locating", "backoff"}, Step(t, p, phase), UNCHANGED tick,
             phase = "backoff" => run[t][p].attempt < MAX_RETRIES
      PROVE  RunsOK'
  <2>1. /\ [run[t][p] EXCEPT !.phase = phase] \in Runs
        /\ run' = [run EXCEPT ![t][p] = [run[t][p] EXCEPT !.phase = phase]]
    BY <1>0, <1>2 DEF Runs, RunsOK, Step
  <2> QED
    BY <1>0, <1>2, <2>1, StepKeepsRuns DEF Runs
<1>3. ASSUME NEW n \in 1 .. MAX_RETRIES, SendAttempt(t, p, n) PROVE RunsOK'
  <2> DEFINE r == [phase |-> "submitting", attempt |-> n, seenSlot |-> run[t][p].seenSlot]
  <2>1. r \in Runs /\ r.phase = "submitting" /\ r.attempt = n
    BY <1>0 DEF Runs
  <2>2. run' = [run EXCEPT ![t][p] = r] /\ UNCHANGED tick
    BY <1>3 DEF SendAttempt, RunsOK
  <2>3. r.attempt >= 1 /\ r.phase # "backoff"
    BY <2>1
  <2> HIDE DEF r
  <2> QED
    BY <2>1, <2>2, <2>3, StepKeepsRuns
<1>4. CASE SkipPair(t, p) \/ RecordSuccess(t, p)
  BY <1>1, <1>4 DEF SkipPair, RecordSuccess, Records
<1>5. CASE AggregationThrows(t, p) \/ LocateFails(t, p)
  BY <1>1, <1>5 DEF AggregationThrows, LocateFails
<1>6. CASE Submit(t, p)
  BY <1>3, <1>6 DEF Submit
<1>7. CASE Confirm(t, p)
  BY <1>2, <1>7 DEF Confirm
<1>8. CASE AttemptFails(t, p)
  <2>1. run[t][p].attempt \in 0 .. MAX_RETRIES
    BY <1>0 DEF Runs
  <2> QED
    BY <1>1, <1>2, <1>8, <2>1 DEF AttemptFails
<1>9. CASE Retry(t, p)
  <2>1. run[t][p].attempt \in 0 .. MAX_RETRIES /\ run[t][p].attempt < MAX_RETRIES
    BY <1>0, <1>9 DEF Runs, Retry, InPhase, RunsOK
  <2> QED
    BY <1>3, <1>9, <2>1 DEF Retry
<1>10. CASE LocateSlot(t, p)
  <2> DEFINE r == [phase |-> "recording", attempt |-> run[t][p].attempt, seenSlot |-> slot]
  <2>1. r \in Runs /\ r.phase = "recording"
    BY <1>0 DEF Runs, ChainOK
  <2>2. run' = [run EXCEPT ![t][p] = r] /\ tick' = tick
    BY <1>10 DEF LocateSlot, RunsOK
  <2> HIDE DEF r
  <2> QED
    BY <2>1, <2>2, StepKeepsRuns
<1> QED
  BY <1>4, <1>5, <1>6, <1>7, <1>8, <1>9, <1>10 DEF UpdatePair

LEMMA StopKeepsRuns == ASSUME RunsOK, Stop PROVE RunsOK'
<1> USE BotAssumption DEF TickPhases, RunPhases
<1>1. \A t \in Ticks : tick'[t] \in TickPhases
  BY DEF RunsOK, Stop
<1>2. \A t \in Ticks, p \in Pairs :
        run'[t][p] = [Waiting EXCEPT !.phase = "lost"] \/ run'[t][p] = run[t][p]
  BY DEF Stop
<1>3. [Waiting EXCEPT !.phase = "lost"] \in Runs
  BY BotAssumption DEF Waiting, Runs
<1>4. run' \in [Ticks -> [Pairs -> Runs]]
  <2>1. \A t \in Ticks, p \in Pairs : run'[t][p] \in Runs
    BY <1>2, <1>3 DEF RunsOK
  <2> QED
    BY <2>1 DEF Stop
<1>5. tick' \in [Ticks -> TickPhases]
  BY <1>1 DEF Stop
<1>6. \A t \in Ticks, p \in Pairs :
        /\ run'[t][p].phase = "submitting" => run'[t][p].attempt >= 1
        /\ run'[t][p].phase = "backoff" => run'[t][p].attempt < MAX_RETRIES
  BY <1>2 DEF RunsOK, Waiting
<1> QED
  BY <1>4, <1>5, <1>6 DEF RunsOK

LEMMA NextRunsOK == RunsOK /\ ChainOK /\ [Next]_vars => RunsOK'
<1> SUFFICES ASSUME RunsOK, ChainOK, [Next]_vars PROVE RunsOK'
  OBVIOUS
<1> USE BotAssumption DEF TickPhases, RunPhases
<1>1. ASSUME UNCHANGED <<tick, run>> PROVE RunsOK'
  BY <1>1 DEF RunsOK
<1>2. CASE Chain
  BY <1>1, <1>2 DEF Chain, AdvanceSlot, Land
<1>3. ASSUME NEW t \in Ticks, StartTick(t) PROVE RunsOK'
  BY <1>3 DEF StartTick, RunsOK
<1>4. ASSUME NEW t \in Ticks, BeginUpdates(t) PROVE RunsOK'
  <2>1. [Waiting EXCEPT !.phase = "fetching"] \in Runs
    BY BotAssumption DEF Waiting, Runs
  <2>2. \A p \in Pairs : run'[t][p].phase = "fetching"
    BY <1>4 DEF BeginUpdates, RunsOK, Waiting
  <2>3. \A u \in Ticks \ {t} : run'[u] = run[u]
    BY <1>4 DEF BeginUpdates, RunsOK
  <2>4. run' \in [Ticks -> [Pairs -> Runs]]
    BY <1>4, <2>1 DEF BeginUpdates, RunsOK
  <2>5. tick' \in [Ticks -> TickPhases]
    BY <1>4 DEF BeginUpdates, RunsOK
  <2> QED
    BY <2>2, <2>3, <2>4, <2>5 DEF RunsOK
<1>5. ASSUME NEW t \in Ticks, CheckStaleness(t) \/ SkipStaleness(t) PROVE RunsOK'
  BY <1>4, <1>5, BotAssumption DEF CheckStaleness, SkipStaleness, ChainOK
<1>6. ASSUME NEW t \in Ticks, EndTick(t) PROVE RunsOK'
  BY <1>6 DEF EndTick, RunsOK
<1>7. ASSUME NEW t \in Ticks, NEW p \in Pairs, UpdatePair(t, p) PROVE RunsOK'
  BY <1>7, UpdateKeepsRuns
<1>8. ASSUME NEW t \in Ticks, Die(t) PROVE RunsOK'
  BY <1>8, StopKeepsRuns DEF Die
<1>9. CASE Crash \/ Shutdown
  BY <1>9, StopKeepsRuns DEF Crash, Shutdown
<1>10. CASE Restart \/ LimitExpires
  BY <1>1, <1>10 DEF Restart, LimitExpires
<1>11. CASE UNCHANGED vars
  BY <1>1, <1>11 DEF vars
<1> QED
  BY <1>2, <1>3, <1>5, <1>6, <1>7, <1>8, <1>9, <1>10, <1>11 DEF Next, Tick

LEMMA NextChainOK == RunsOK /\ ChainOK /\ [Next]_vars => ChainOK'
<1> SUFFICES ASSUME RunsOK, ChainOK, [Next]_vars PROVE ChainOK'
  OBVIOUS
<1>1. ASSUME UNCHANGED chainVars PROVE ChainOK'
  BY <1>1 DEF ChainOK, chainVars
<1>2. CASE AdvanceSlot
  <2>1. slot' \in 1 .. MaxSlot /\ 1 .. slot \subseteq 1 .. slot' /\ 0 .. slot \subseteq 0 .. slot'
    BY <1>2, BotAssumption DEF AdvanceSlot, ChainOK
  <2>2. last_slot' = last_slot /\ sent' = sent /\ landed' = landed
    BY <1>2 DEF AdvanceSlot
  <2>3. last_slot' \in [Pairs -> 0 .. slot']
    BY <2>1, <2>2 DEF ChainOK
  <2>4. landed' \subseteq [tx : Transactions, slot : 1 .. slot']
    BY <2>1, <2>2 DEF ChainOK
  <2> QED
    BY <2>1, <2>2, <2>3, <2>4 DEF ChainOK
<1>3. ASSUME NEW tx \in sent, Land(tx) PROVE ChainOK'
  <2>1. tx \in Transactions /\ tx.pair \in Pairs
    BY DEF ChainOK, Transactions
  <2> QED
    BY <1>3, <2>1 DEF Land, ChainOK
<1>4. ASSUME NEW t \in Ticks, NEW p \in Pairs, NEW n \in 1 .. MAX_RETRIES,
             SendAttempt(t, p, n)
      PROVE  ChainOK'
  BY <1>4 DEF SendAttempt, ChainOK, Transactions
<1>5. ASSUME NEW t \in Ticks, NEW p \in Pairs, Submit(t, p) \/ Retry(t, p)
      PROVE  ChainOK'
  <2>1. /\ run[t][p].attempt \in 0 .. MAX_RETRIES
        /\ Retry(t, p) => run[t][p].attempt < MAX_RETRIES
    BY DEF Retry, InPhase, RunsOK, Runs
  <2> QED
    BY <1>4, <1>5, <2>1, BotAssumption DEF Submit, Retry
<1>6. ASSUME NEW t \in Ticks, NEW p \in Pairs,
             UpdatePair(t, p), ~ Submit(t, p), ~ Retry(t, p)
      PROVE  ChainOK'
  BY <1>1, <1>6 DEF UpdatePair, SkipPair, AggregationThrows, Confirm, AttemptFails,
                    LocateSlot, LocateFails, RecordSuccess, Records
<1>7. ASSUME NEW t \in Ticks, StartTick(t) \/ Tick(t) \/ Die(t) PROVE ChainOK'
  BY <1>1, <1>7 DEF StartTick, Tick, CheckStaleness, SkipStaleness, BeginUpdates,
                    EndTick, Die, Stop
<1>8. CASE Crash \/ Shutdown \/ Restart \/ LimitExpires
  BY <1>1, <1>8 DEF Crash, Shutdown, Restart, LimitExpires, Stop
<1>9. CASE UNCHANGED vars
  BY <1>1, <1>9 DEF vars
<1> QED
  BY <1>2, <1>3, <1>5, <1>6, <1>7, <1>8, <1>9 DEF Next, Chain

--------------------------------------------------------------------------------
(* Metrics *)

Counters == {"successful", "failed", "skipped", "staleOracles"}

LEMMA CountIsMetrics ==
    ASSUME NEW data \in Metrics, NEW counter \in Counters, NEW n \in Nat
    PROVE  /\ Count(data, counter, n) \in Metrics
           /\ Total(Count(data, counter, n)) = Total(data) + n
           /\ Count(data, counter, n).lastUpdateSlot = data.lastUpdateSlot
<1>1. CASE counter = "successful"
  BY <1>1 DEF Count, Metrics, Total
<1>2. CASE counter = "failed"
  BY <1>2 DEF Count, Metrics, Total
<1>3. CASE counter = "skipped"
  BY <1>3 DEF Count, Metrics, Total
<1>4. CASE counter = "staleOracles"
  BY <1>4 DEF Count, Metrics, Total
<1> QED
  BY <1>1, <1>2, <1>3, <1>4 DEF Counters

LEMMA SucceedIsMetrics ==
    ASSUME NEW data \in Metrics, NEW p \in Pairs, NEW s \in 0 .. MaxSlot
    PROVE  /\ Succeed(data, p, s) \in Metrics
           /\ Total(Succeed(data, p, s)) = Total(data) + 1
           /\ Succeed(data, p, s).lastUpdateSlot = [data.lastUpdateSlot EXCEPT ![p] = s]
<1> DEFINE counted == Count(data, "successful", 1)
<1>0. "successful" \in Counters /\ 1 \in Nat
  BY DEF Counters
<1>1. /\ counted \in Metrics /\ Total(counted) = Total(data) + 1
      /\ counted.lastUpdateSlot = data.lastUpdateSlot
  BY <1>0, CountIsMetrics
<1> HIDE DEF counted
<1>2. Succeed(data, p, s) =
        [counted EXCEPT !.lastUpdateSlot = [data.lastUpdateSlot EXCEPT ![p] = s]]
  BY <1>1 DEF Succeed, counted
<1>3. [data.lastUpdateSlot EXCEPT ![p] = s] \in [Pairs -> 0 .. MaxSlot]
  BY DEF Metrics
<1> QED
  BY <1>1, <1>2, <1>3 DEF Metrics, Total

\* An update of the run itself has landed by the given slot.
HasUpdate(t, p, updates, s) ==
    \E l \in updates : l.tx.tick = t /\ l.tx.pair = p /\ l.slot <= s

\* The file lags behind by one record for each write that failed.
MetricsOK ==
    /\ diskErrors \in Nat
    /\ metrics \in Metrics
    /\ \/ file = Corrupted
       \/ file \in Metrics /\ Total(metrics) - Total(file) \in 0 .. diskErrors

\* A confirmed transaction has landed, and it has before its slot is asked for.
RunsFollow ==
    \A t \in Ticks, p \in Pairs :
       /\ run[t][p].phase = "locating" => HasUpdate(t, p, landed, slot)
       /\ run[t][p].phase = "recording" => HasUpdate(t, p, landed, run[t][p].seenSlot)

LEMMA InitMetricsOK == Init => MetricsOK /\ RunsFollow
<1> SUFFICES ASSUME Init PROVE MetricsOK /\ RunsFollow
  OBVIOUS
<1>1. PICK s \in FirstRecords :
        metrics = [Empty EXCEPT !.lastUpdateSlot = [p \in Pairs |-> s]]
  BY DEF Init
<1>2. metrics = [successful |-> 0, failed |-> 0, skipped |-> 0, staleOracles |-> 0,
                 lastUpdateSlot |-> [p \in Pairs |-> s]]
  BY <1>1 DEF Empty
<1>3. s \in 0 .. MaxSlot /\ s <= 1
  BY BotAssumption
<1>4. metrics \in Metrics
  BY <1>2, <1>3 DEF Metrics
<1>5. file = metrics /\ diskErrors = 0
  BY DEF Init
<1>6. Total(metrics) - Total(file) = 0
  BY <1>2, <1>5 DEF Total
<1>7. RunsFollow
  BY DEF Init, RunsFollow, Waiting
<1> QED
  BY <1>4, <1>5, <1>6, <1>7 DEF MetricsOK

\* What a saved record leaves, and one that throws.
LEMMA SaveKeepsMetrics ==
    ASSUME MetricsOK, NEW data, data \in Metrics, Save(data) PROVE MetricsOK'
<1>1. metrics' = data /\ file' = data /\ diskErrors' = diskErrors
  BY DEF Save
<1>2. Total(data) \in Nat
  BY DEF Metrics, Total
<1> QED
  BY <1>1, <1>2 DEF MetricsOK

LEMMA SaveFailsKeepsMetrics ==
    ASSUME MetricsOK, NEW data, data \in Metrics, NEW before,
           SaveFails(data, before),
           \/ before = Corrupted
           \/ /\ before \in Metrics
              /\ Total(data) - Total(before) \in 0 .. diskErrors + 1
    PROVE  MetricsOK'
<1>1. metrics' = data /\ file' \in {before, Corrupted} /\ diskErrors' = diskErrors + 1
  BY DEF SaveFails
<1> QED
  BY <1>1 DEF MetricsOK

LEMMA RecordKeepsMetrics ==
    ASSUME MetricsOK, NEW data, data \in Metrics,
           Total(data) = Total(metrics) + 1, Save(data) \/ SaveFails(data, file)
    PROVE  MetricsOK'
<1>1. CASE Save(data)
  BY <1>1, SaveKeepsMetrics
<1>2. CASE SaveFails(data, file)
  <2>1. \/ file = Corrupted
        \/ /\ file \in Metrics
           /\ Total(data) - Total(file) \in 0 .. diskErrors + 1
    <3>1. Total(metrics) \in Nat /\ diskErrors \in Nat
      BY DEF MetricsOK, Metrics, Total
    <3>2. file \in Metrics => Total(file) \in Nat
      BY DEF Metrics, Total
    <3> QED
      BY <3>1, <3>2 DEF MetricsOK
  <2> QED
    BY <1>2, <2>1, SaveFailsKeepsMetrics
<1> QED
  BY <1>1, <1>2

\* A tick's records, which nothing catches.
LEMMA ThrowKeepsMetrics ==
    ASSUME MetricsOK, NEW counter \in Counters, NEW times \in Nat,
           RecordThrows(counter, times)
    PROVE  MetricsOK'
<1>1. PICK n \in 1 .. times :
        SaveFails(Count(metrics, counter, n),
                  IF n = 1 THEN file ELSE Count(metrics, counter, n - 1))
  BY DEF RecordThrows
<1>2. n \in Nat /\ n - 1 \in Nat /\ times > 0 /\ metrics \in Metrics
  BY DEF MetricsOK
<1>3. /\ Count(metrics, counter, n) \in Metrics
      /\ Count(metrics, counter, n - 1) \in Metrics
  BY <1>2, CountIsMetrics DEF MetricsOK
<1>4. /\ Total(Count(metrics, counter, n)) = Total(metrics) + n
      /\ Total(Count(metrics, counter, n - 1)) = Total(metrics) + (n - 1)
  BY <1>2, CountIsMetrics
<1>5. Total(metrics) \in Nat /\ diskErrors \in Nat
  BY <1>2 DEF MetricsOK, Metrics, Total
<1>6. CASE n = 1
  BY <1>1, <1>3, <1>4, <1>6, RecordKeepsMetrics
<1>7. CASE n > 1
  <2>1. SaveFails(Count(metrics, counter, n), Count(metrics, counter, n - 1))
    BY <1>1, <1>7
  <2>2. Total(Count(metrics, counter, n)) - Total(Count(metrics, counter, n - 1)) = 1
    BY <1>2, <1>4, <1>5
  <2> QED
    BY <1>3, <1>4, <1>5, <2>1, <2>2, SaveFailsKeepsMetrics
<1> QED
  BY <1>2, <1>6, <1>7

LEMMA MetricsStay ==
    ASSUME MetricsOK, UNCHANGED metricsVars PROVE MetricsOK'
  BY DEF MetricsOK, metricsVars

LEMMA StaleAreFinite == \A s : Cardinality(StalePairs(s)) \in Nat
<1> TAKE s
<1>1. StalePairs(s) \subseteq Pairs
  BY DEF StalePairs
<1> QED
  BY <1>1, BotAssumption, FS_Subset, FS_CardinalityType

LEMMA RejectedAreFinite == \A t : Cardinality(Rejected(t)) \in Nat
<1> TAKE t
<1>1. Rejected(t) \subseteq Pairs
  BY DEF Rejected
<1> QED
  BY <1>1, BotAssumption, FS_Subset, FS_CardinalityType

LEMMA UpdateKeepsMetrics ==
    ASSUME MetricsOK, RunsOK, NEW t \in Ticks, NEW p \in Pairs,
           UpdatePair(t, p)
    PROVE  MetricsOK'
<1>1. CASE SkipPair(t, p)
  <2> DEFINE data == Count(metrics, "skipped", 1)
  <2>1. data \in Metrics /\ Total(data) = Total(metrics) + 1
    BY CountIsMetrics DEF MetricsOK, Counters
  <2>2. Save(data) \/ SaveFails(data, file)
    BY <1>1 DEF SkipPair, Records
  <2> HIDE DEF data
  <2> QED
    BY <2>1, <2>2, RecordKeepsMetrics
<1>2. CASE RecordSuccess(t, p)
  <2> DEFINE s == run[t][p].seenSlot
             data == Succeed(metrics, p, s)
  <2>1. s \in 0 .. MaxSlot
    BY DEF RunsOK, Runs
  <2>2. Save(data) \/ SaveFails(data, file)
    BY <1>2 DEF RecordSuccess, Records
  <2>3. data \in Metrics /\ Total(data) = Total(metrics) + 1
    BY <2>1, SucceedIsMetrics DEF MetricsOK
  <2> HIDE DEF data
  <2> QED
    BY <2>2, <2>3, RecordKeepsMetrics
<1>3. CASE ~ SkipPair(t, p) /\ ~ RecordSuccess(t, p)
  <2>1. UNCHANGED metricsVars
    BY <1>3 DEF UpdatePair, AggregationThrows, Submit, Confirm, AttemptFails, Retry,
                LocateSlot, LocateFails, SendAttempt
  <2> QED
    BY <2>1, MetricsStay
<1> QED
  BY <1>1, <1>2, <1>3

LEMMA TickKeepsMetrics ==
    ASSUME MetricsOK, NEW t \in Ticks, Tick(t) \/ Die(t) PROVE MetricsOK'
<1> USE DEF Counters
<1>1. ASSUME UNCHANGED metricsVars PROVE MetricsOK'
  BY <1>1, MetricsStay
<1>2. CASE CheckStaleness(t)
  <2>1. CASE StalePairs(slot) = {}
    BY <1>1, <1>2, <2>1 DEF CheckStaleness
  <2>2. CASE StalePairs(slot) # {}
    <3>1. Save(Count(metrics, "staleOracles", Cardinality(StalePairs(slot))))
      BY <1>2, <2>2 DEF CheckStaleness
    <3> QED
      BY <3>1, StaleAreFinite, CountIsMetrics, SaveKeepsMetrics DEF MetricsOK
  <2> QED
    BY <2>1, <2>2
<1>3. CASE SkipStaleness(t)
  BY <1>1, <1>3 DEF SkipStaleness
<1>4. CASE EndTick(t)
  <2>1. CASE Rejected(t) = {}
    BY <1>1, <1>4, <2>1 DEF EndTick
  <2>2. CASE Rejected(t) # {}
    <3>1. Save(Count(metrics, "failed", Cardinality(Rejected(t))))
      BY <1>4, <2>2 DEF EndTick
    <3> QED
      BY <3>1, RejectedAreFinite, CountIsMetrics, SaveKeepsMetrics DEF MetricsOK
  <2> QED
    BY <2>1, <2>2
<1>5. CASE Die(t)
  <2>1. CASE RecordThrows("staleOracles", Cardinality(StalePairs(slot)))
    BY <2>1, StaleAreFinite, ThrowKeepsMetrics
  <2>2. CASE RecordThrows("failed", Cardinality(Rejected(t)))
    BY <2>2, RejectedAreFinite, ThrowKeepsMetrics
  <2> QED
    BY <1>5, <2>1, <2>2 DEF Die
<1> QED
  BY <1>2, <1>3, <1>4, <1>5 DEF Tick

LEMMA NextMetricsOK ==
    MetricsOK /\ RunsOK /\ [Next]_vars => MetricsOK'
<1> SUFFICES ASSUME MetricsOK, RunsOK, [Next]_vars PROVE MetricsOK'
  OBVIOUS
<1>1. ASSUME UNCHANGED metricsVars PROVE MetricsOK'
  BY <1>1, MetricsStay
<1>2. CASE Chain
  BY <1>1, <1>2 DEF Chain, AdvanceSlot, Land
<1>3. ASSUME NEW t \in Ticks, StartTick(t) PROVE MetricsOK'
  BY <1>1, <1>3 DEF StartTick
<1>4. ASSUME NEW t \in Ticks, Tick(t) \/ Die(t) PROVE MetricsOK'
  BY <1>4, TickKeepsMetrics
<1>5. ASSUME NEW t \in Ticks, NEW p \in Pairs, UpdatePair(t, p) PROVE MetricsOK'
  BY <1>5, UpdateKeepsMetrics
<1>6. CASE Crash
  <2>1. UNCHANGED <<metrics, diskErrors>> /\ file' \in {file, Corrupted}
    BY <1>6 DEF Crash
  <2> QED
    BY <2>1 DEF MetricsOK
<1>7. CASE Shutdown
  <2>1. CASE Save(metrics)
    BY <2>1, SaveKeepsMetrics DEF MetricsOK
  <2>2. CASE SaveFails(metrics, file)
    BY <2>2, SaveFailsKeepsMetrics DEF MetricsOK
  <2> QED
    BY <1>7, <2>1, <2>2 DEF Shutdown
<1>8. CASE Restart
  <2>1. UNCHANGED <<file, diskErrors>>
    BY <1>8 DEF Restart
  <2>2. CASE file = Corrupted
    <3>1. metrics' = Empty
      BY <1>8, <2>2 DEF Restart
    <3>2. Empty \in Metrics
      BY BotAssumption DEF Empty, Metrics
    <3> QED
      BY <2>1, <2>2, <3>1, <3>2 DEF MetricsOK
  <2>3. CASE file # Corrupted
    <3>1. metrics' = file /\ file \in Metrics
      BY <1>8, <2>3 DEF Restart, MetricsOK
    <3>2. Total(file) \in Nat /\ diskErrors \in Nat
      BY <3>1 DEF Metrics, Total, MetricsOK
    <3> QED
      BY <2>1, <3>1, <3>2 DEF MetricsOK
  <2> QED
    BY <2>2, <2>3
<1>9. CASE LimitExpires
  BY <1>1, <1>9 DEF LimitExpires
<1>10. CASE UNCHANGED vars
  BY <1>1, <1>10 DEF vars
<1> QED
  BY <1>2, <1>3, <1>4, <1>5, <1>6, <1>7, <1>8, <1>9, <1>10 DEF Next

LEMMA NextRunsFollow ==
    RunsFollow /\ RunsOK /\ ChainOK /\ [Next]_vars => RunsFollow'
<1> SUFFICES ASSUME RunsFollow, RunsOK, ChainOK, [Next]_vars PROVE RunsFollow'
  OBVIOUS
<1>0. landed \subseteq landed' /\ slot \in Nat /\ slot' \in Nat /\ slot <= slot'
  BY DEF ChainOK, Next, Chain, AdvanceSlot, Land, StartTick, Tick, CheckStaleness, SkipStaleness,
         EndTick, BeginUpdates, Die, Crash, Shutdown, Stop, Restart, LimitExpires,
         UpdatePair, SkipPair, AggregationThrows, Submit, Confirm, AttemptFails, Retry,
         LocateSlot, LocateFails, RecordSuccess, Records, SendAttempt, vars, chainVars
\* It is enough to look at the runs that change.
<1>1. ASSUME \A t \in Ticks, p \in Pairs :
                \/ run'[t][p] = run[t][p]
                \/ run'[t][p].phase \notin {"locating", "recording"}
                \/ run'[t][p].phase = "locating" /\ HasUpdate(t, p, landed', slot')
                \/ /\ run'[t][p].phase = "recording"
                   /\ HasUpdate(t, p, landed', run'[t][p].seenSlot)
      PROVE  RunsFollow'
  <2>1. ASSUME NEW t \in Ticks, NEW p \in Pairs, NEW s, HasUpdate(t, p, landed, s)
        PROVE  HasUpdate(t, p, landed', s)
    BY <1>0, <2>1 DEF HasUpdate
  <2>2. ASSUME NEW t \in Ticks, NEW p \in Pairs, HasUpdate(t, p, landed, slot)
        PROVE  HasUpdate(t, p, landed', slot')
    BY <1>0, <2>2 DEF HasUpdate, ChainOK
  <2> QED
    BY <1>1, <2>1, <2>2 DEF RunsFollow
<1>2. CASE UNCHANGED run
  BY <1>1, <1>2
<1>3. ASSUME NEW t \in Ticks, BeginUpdates(t) PROVE RunsFollow'
  BY <1>1, <1>3 DEF BeginUpdates, RunsOK, Waiting
<1>4. CASE Stop
  BY <1>1, <1>4 DEF Stop, Waiting
<1>5. ASSUME NEW t \in Ticks, NEW p \in Pairs, UpdatePair(t, p) PROVE RunsFollow'
  <2>1. ASSUME NEW r, run' = [run EXCEPT ![t][p] = r],
               r.phase \notin {"locating", "recording"}
        PROVE  RunsFollow'
    <3>1. run'[t][p] = r
      BY <2>1 DEF RunsOK
    <3>2. \A u \in Ticks, q \in Pairs : u # t \/ q # p => run'[u][q] = run[u][q]
      BY <2>1 DEF RunsOK
    <3> QED
      BY <1>1, <2>1, <3>1, <3>2
  <2>2. ASSUME NEW phase \in Settled, Settle(t, p, phase) PROVE RunsFollow'
    <3> DEFINE r == [Waiting EXCEPT !.phase = phase]
    <3>1. r.phase \notin {"locating", "recording"}
      BY DEF Waiting, Settled
    <3>2. run' = [run EXCEPT ![t][p] = r]
      BY <2>2 DEF Settle
    <3> HIDE DEF r
    <3> QED
      BY <2>1, <3>1, <3>2
  <2>3. ASSUME NEW n, SendAttempt(t, p, n) PROVE RunsFollow'
    <3> DEFINE r == [phase |-> "submitting", attempt |-> n, seenSlot |-> run[t][p].seenSlot]
    <3>1. r.phase \notin {"locating", "recording"}
      OBVIOUS
    <3>2. run' = [run EXCEPT ![t][p] = r]
      BY <2>3 DEF SendAttempt
    <3> HIDE DEF r
    <3> QED
      BY <2>1, <3>1, <3>2
  <2>4. CASE Confirm(t, p)
    <3>1. HasUpdate(t, p, landed', slot')
      BY <1>0, <1>5, <2>4 DEF Confirm, HasLanded, HasUpdate, ChainOK
    <3>2. run' = [run EXCEPT ![t][p].phase = "locating"]
      BY <2>4 DEF Confirm, Step
    <3>3. run'[t][p].phase = "locating"
      BY <3>2 DEF RunsOK, Runs
    <3>4. \A u \in Ticks, q \in Pairs : u # t \/ q # p => run'[u][q] = run[u][q]
      BY <3>2 DEF RunsOK
    <3> QED
      BY <1>1, <3>1, <3>3, <3>4
  <2>5. CASE AttemptFails(t, p)
    <3>1. CASE Step(t, p, "backoff")
      <4>1. run'[t][p].phase = "backoff"
        BY <3>1 DEF Step, RunsOK, Runs
      <4>2. \A u \in Ticks, q \in Pairs : u # t \/ q # p => run'[u][q] = run[u][q]
        BY <3>1 DEF Step, RunsOK
      <4> QED
        BY <1>1, <4>1, <4>2
    <3> QED
      BY <2>2, <2>5, <3>1 DEF AttemptFails, Settled
  <2>6. CASE LocateSlot(t, p)
    <3>1. run' = [run EXCEPT ![t][p] = [phase |-> "recording",
                                        attempt |-> run[t][p].attempt, seenSlot |-> slot]]
      BY <2>6 DEF LocateSlot, RunsOK
    <3>2. run'[t][p].phase = "recording" /\ run'[t][p].seenSlot = slot
      BY <3>1 DEF RunsOK
    <3>3. \A u \in Ticks, q \in Pairs : u # t \/ q # p => run'[u][q] = run[u][q]
      BY <3>1 DEF RunsOK
    <3>4. HasUpdate(t, p, landed', slot)
      BY <1>0, <2>6 DEF LocateSlot, InPhase, RunsFollow, HasUpdate
    <3> QED
      BY <1>1, <3>2, <3>3, <3>4
  <2> QED
    BY <1>5, <2>2, <2>3, <2>4, <2>5, <2>6
       DEF UpdatePair, SkipPair, AggregationThrows, Submit, Retry, LocateFails,
           RecordSuccess, Records, Settled
<1> QED
  BY <1>2, <1>3, <1>4, <1>5
     DEF Next, Chain, AdvanceSlot, Land, StartTick, Tick, CheckStaleness, SkipStaleness,
         EndTick, Die, Crash, Shutdown, Restart, LimitExpires, vars

Books == RunsOK /\ ChainOK /\ MetricsOK /\ RunsFollow

LEMMA BooksAreKept == Spec => []Books
<1>1. Init => Books
  BY InitRunsOK, InitMetricsOK DEF Books
<1>2. Books /\ [Next]_vars => Books'
  BY NextRunsOK, NextChainOK, NextMetricsOK, NextRunsFollow DEF Books
<1> QED
  BY <1>1, <1>2, PTL DEF Spec

\* Every reachable state is typed; in particular no update sends more transactions
\* than MAX_RETRIES, and the metrics file holds counters or does not parse.
THEOREM BotIsTyped == Spec => []BotTypeOK
<1>1. Books => BotTypeOK
  BY DEF Books, BotTypeOK, RunsOK, Runs, ChainOK, MetricsOK
<1> QED
  BY <1>1, BooksAreKept, PTL

--------------------------------------------------------------------------------
(* Alerts *)

\* A limit that is in force stands for a charge that has not expired, and only a
\* process that runs has one: the next start makes up for it.
AlertBooks ==
    /\ alerts \in [charged : Nat, expired : Nat]
    /\ starts \in Nat
    /\ up \in BOOLEAN /\ limited \in BOOLEAN
    /\ limited => up
    /\ alerts.charged <= alerts.expired + starts + 1
    /\ up /\ ~ limited => alerts.charged <= alerts.expired + starts

LEMMA InitAlertBooks == Init => AlertBooks
<1> SUFFICES ASSUME Init PROVE AlertBooks
  OBVIOUS
<1>1. alerts = [charged |-> 0, expired |-> 0] /\ starts = 0 /\ up /\ ~ limited
  BY Zenon DEF Init
<1>2. up \in BOOLEAN /\ limited \in BOOLEAN
  BY Zenon DEF Init
<1> QED
  BY <1>1, <1>2 DEF AlertBooks

\* A tick charges the limit only when there is none.
LEMMA ChargeKeepsBooks ==
    ASSUME AlertBooks, up, AlertIfStale, UNCHANGED <<up, starts>>
    PROVE  AlertBooks'
<1>1. CASE limited
  BY <1>1 DEF AlertBooks, AlertIfStale
<1>2. CASE ~ limited
  BY <1>2 DEF AlertBooks, AlertIfStale
<1> QED
  BY <1>1, <1>2

LEMMA NextAlertBooks == AlertBooks /\ [Next]_vars => AlertBooks'
<1> SUFFICES ASSUME AlertBooks, [Next]_vars PROVE AlertBooks'
  OBVIOUS
<1> DEFINE same == UNCHANGED <<alertVars, up, starts>>
<1>1. ASSUME same PROVE AlertBooks'
  BY <1>1 DEF AlertBooks, alertVars
<1>2. CASE Chain
  <2>1. same
    BY <1>2 DEF Chain, AdvanceSlot, Land, processVars
  <2> QED
    BY <1>1, <2>1
<1>3. ASSUME NEW t \in Ticks, StartTick(t) PROVE AlertBooks'
  <2>1. same
    BY <1>3 DEF StartTick, processVars
  <2> QED
    BY <1>1, <2>1
<1>4. ASSUME NEW t \in Ticks, CheckStaleness(t) PROVE AlertBooks'
  <2>1. UNCHANGED <<up, starts>> /\ up
    BY <1>4 DEF CheckStaleness, BeginUpdates, processVars
  <2>2. AlertIfStale \/ UNCHANGED alertVars
    BY <1>4 DEF CheckStaleness
  <2> QED
    BY <1>1, <2>1, <2>2, ChargeKeepsBooks
<1>5. ASSUME NEW t \in Ticks, SkipStaleness(t) \/ EndTick(t) PROVE AlertBooks'
  <2>1. same
    BY <1>5 DEF SkipStaleness, EndTick, BeginUpdates, processVars
  <2> QED
    BY <1>1, <2>1
<1>6. ASSUME NEW t \in Ticks, NEW p \in Pairs, UpdatePair(t, p) PROVE AlertBooks'
  <2>1. same
    BY <1>6 DEF UpdatePair, SkipPair, AggregationThrows, Submit, Confirm,
                AttemptFails, Retry, LocateSlot, LocateFails, RecordSuccess, Records,
                SendAttempt, processVars
  <2> QED
    BY <1>1, <2>1
<1>7. ASSUME up, Stop PROVE AlertBooks'
  <2>1. alerts' = alerts /\ starts' = starts /\ ~ up' /\ ~ limited'
    BY <1>7, Zenon DEF Stop
  <2>2. up' \in BOOLEAN /\ limited' \in BOOLEAN
    BY <1>7, Zenon DEF Stop
  <2> QED
    BY <2>1, <2>2 DEF AlertBooks
<1>8. ASSUME NEW t \in Ticks, Die(t) PROVE AlertBooks'
  BY <1>7, <1>8 DEF Die
<1>9. CASE Crash \/ Shutdown
  BY <1>7, <1>9 DEF Crash, Shutdown
<1>10. CASE Restart
  BY <1>10 DEF Restart, AlertBooks, alertVars
<1>11. CASE LimitExpires
  <2>1. /\ limited /\ ~ limited' /\ up' = up /\ starts' = starts
        /\ alerts' = [alerts EXCEPT !.expired = @ + 1]
    BY <1>11, Zenon DEF LimitExpires, processVars
  <2>2. limited' \in BOOLEAN
    BY <1>11, Zenon DEF LimitExpires
  <2> QED
    BY <2>1, <2>2 DEF AlertBooks
<1>12. CASE UNCHANGED vars
  BY <1>1, <1>12 DEF vars, processVars
<1> QED
  BY <1>2, <1>3, <1>4, <1>5, <1>6, <1>8, <1>9, <1>10, <1>11, <1>12 DEF Next, Tick

\* However many pairs are stale and however ticks overlap, alerts are charged no more
\* often than the five minutes run out and the process starts.
THEOREM AlertsKeepTheirDistance == Spec => []AlertsAreRateLimited
<1>1. AlertBooks => AlertsAreRateLimited
  BY DEF AlertBooks, AlertsAreRateLimited
<1> QED
  BY <1>1, InitAlertBooks, NextAlertBooks, PTL DEF Spec

\* However often the process dies and whatever writes fail, a restart loses at most one
\* record for each write that failed, unless the file no longer parses.
THEOREM RestartsKeepMetrics == Spec => MetricsSurviveRestart
<1> DEFINE kept == starts' > starts =>
                      \/ file = Corrupted
                      \/ Total(metrics) - Total(metrics') \in 0 .. diskErrors
<1>1. ASSUME Books, AlertBooks, [Next]_vars PROVE kept
  <2>1. CASE Restart
    BY <1>1, <2>1 DEF Restart, Books, MetricsOK
  <2>2. CASE ~ Restart
    <3>1. starts' = starts
      BY <1>1, <2>2 DEF Next, Chain, AdvanceSlot, Land, StartTick, Tick, CheckStaleness,
         SkipStaleness, EndTick, BeginUpdates, Die, Crash, Shutdown, Stop, LimitExpires,
         UpdatePair, SkipPair, AggregationThrows, Submit, Confirm, AttemptFails, Retry,
         LocateSlot, LocateFails, RecordSuccess, Records, SendAttempt, vars, processVars
    <3> QED
      BY <1>1, <3>1 DEF AlertBooks
  <2> QED
    BY <2>1, <2>2
<1>2. ASSUME Books, AlertBooks, [Next]_vars PROVE [kept]_vars
  BY <1>1, <1>2
<1>3. Spec => []AlertBooks
  BY InitAlertBooks, NextAlertBooks, PTL DEF Spec
<1> QED
  BY <1>2, <1>3, BooksAreKept, PTL DEF Spec, MetricsSurviveRestart

\* The record of a pair changes only at the end of a run, to a slot by which that
\* run's own update had landed.
THEOREM RecordsFollowUpdates == Spec => RecordedSlotFollowsItsUpdate
<1> DEFINE steady == metrics'.lastUpdateSlot = metrics.lastUpdateSlot
<1> DEFINE step ==
      \A p \in Pairs : metrics'.lastUpdateSlot[p] # metrics.lastUpdateSlot[p] =>
         \/ starts' > starts
         \/ \E t \in Ticks : RecordsItsUpdate(t, p, metrics'.lastUpdateSlot[p])
<1>1. ASSUME Books, [Next]_vars, starts \in Nat PROVE step
  <2>1. CASE steady
    BY <2>1
  <2>2. CASE Restart
    BY <1>1, <2>2 DEF Restart
  <2>3. metrics \in Metrics
    BY <1>1 DEF Books, MetricsOK
  <2>4. ASSUME NEW counter \in Counters, NEW n \in Nat, metrics' = Count(metrics, counter, n)
        PROVE  steady
    BY <2>3, <2>4, CountIsMetrics
  <2>5. ASSUME NEW counter \in Counters, NEW times \in Nat, RecordThrows(counter, times)
        PROVE  steady
    BY <2>4, <2>5 DEF RecordThrows, SaveFails
  <2>6. ASSUME NEW t \in Ticks, Tick(t) \/ Die(t) PROVE steady
    <3>1. Cardinality(StalePairs(slot)) \in Nat /\ Cardinality(Rejected(t)) \in Nat
      BY StaleAreFinite, RejectedAreFinite
    <3>2. "staleOracles" \in Counters /\ "failed" \in Counters
      BY DEF Counters
    <3>3. CASE CheckStaleness(t) \/ SkipStaleness(t)
      BY <2>4, <3>1, <3>2, <3>3 DEF CheckStaleness, SkipStaleness, Save, metricsVars
    <3>4. CASE EndTick(t)
      BY <2>4, <3>1, <3>2, <3>4 DEF EndTick, Save, metricsVars
    <3>5. CASE Die(t)
      BY <2>5, <3>1, <3>2, <3>5 DEF Die
    <3> QED
      BY <2>6, <3>3, <3>4, <3>5 DEF Tick
  <2>7. ASSUME NEW t \in Ticks, NEW p \in Pairs, UpdatePair(t, p), ~ RecordSuccess(t, p)
        PROVE  steady
    <3>1. "skipped" \in Counters /\ 1 \in Nat
      BY DEF Counters
    <3>2. CASE SkipPair(t, p)
      BY <2>4, <3>1, <3>2 DEF SkipPair, Records, Save, SaveFails
    <3>3. CASE ~ SkipPair(t, p)
      BY <2>7, <3>3 DEF UpdatePair, AggregationThrows, Submit, Confirm, AttemptFails,
                        Retry, LocateSlot, LocateFails, SendAttempt, metricsVars
    <3> QED
      BY <3>2, <3>3
  <2>8. ASSUME NEW t \in Ticks, NEW p \in Pairs, RecordSuccess(t, p) PROVE step
    <3> DEFINE s == run[t][p].seenSlot
    <3>1. s \in 0 .. MaxSlot /\ InPhase(t, p, "recording") /\ HasUpdate(t, p, landed, s)
      BY <1>1, <2>8 DEF RecordSuccess, InPhase, Books, RunsOK, Runs, RunsFollow
    <3>2. run'[t][p].phase \in Settled
      BY <1>1, <2>8 DEF RecordSuccess, Records, Settle, Settled, Waiting, Books, RunsOK
    <3>3. metrics' = Succeed(metrics, p, s)
      BY <2>8 DEF RecordSuccess, Records, Save, SaveFails
    <3> HIDE DEF s
    <3>4. metrics'.lastUpdateSlot = [metrics.lastUpdateSlot EXCEPT ![p] = s]
      BY <2>3, <3>1, <3>3, SucceedIsMetrics
    <3>5. metrics.lastUpdateSlot \in [Pairs -> 0 .. MaxSlot]
      BY <2>3 DEF Metrics
    <3>6. \A q \in Pairs : metrics'.lastUpdateSlot[q] # metrics.lastUpdateSlot[q] =>
              q = p /\ metrics'.lastUpdateSlot[q] = s
      BY <3>4, <3>5
    <3>7. RecordsItsUpdate(t, p, s)
      BY <3>1, <3>2 DEF RecordsItsUpdate, HasUpdate
    <3> QED
      BY <3>6, <3>7
  <2>9. CASE Crash \/ Shutdown \/ LimitExpires \/ Chain \/ UNCHANGED vars
    BY <2>9 DEF Crash, Shutdown, Save, SaveFails, LimitExpires, Chain, AdvanceSlot, Land,
                vars, metricsVars
  <2>10. ASSUME NEW t \in Ticks, StartTick(t) PROVE steady
    BY <2>10 DEF StartTick, metricsVars
  <2> HIDE DEF steady, step
  <2> QED
    BY <1>1, <2>1, <2>2, <2>6, <2>7, <2>8, <2>9, <2>10 DEF Next
<1>2. ASSUME Books, AlertBooks, [Next]_vars PROVE [step]_vars
  <2>1. starts \in Nat
    BY <1>2 DEF AlertBooks
  <2> QED
    BY <1>1, <1>2, <2>1
<1>3. Spec => []AlertBooks
  BY InitAlertBooks, NextAlertBooks, PTL DEF Spec
<1> QED
  BY <1>2, <1>3, BooksAreKept, PTL DEF Spec, RecordedSlotFollowsItsUpdate

--------------------------------------------------------------------------------
(* Confirmed transactions *)

\* A tick that has not begun its updates has confirmed none, and a confirmed run is past
\* the phases that send.
ConfirmedOK ==
    /\ confirmed \subseteq Ticks \X Pairs
    /\ \A t \in Ticks, p \in Pairs : <<t, p>> \in confirmed =>
          /\ tick[t] \notin {"due", "started"}
          /\ run[t][p].phase \notin {"fetching", "submitting", "backoff"}
    /\ \A t \in Ticks, p \in Pairs :
          tick[t] \in {"due", "started"} => run[t][p].phase = "waiting"

LEMMA InitConfirmedOK == Init => ConfirmedOK
BY DEF Init, ConfirmedOK, Waiting

\* What a run does when it takes a step: it confirms, or it stays among the phases on its
\* side of the confirmation.
LEMMA RunStep ==
    ASSUME RunsOK, NEW t \in Ticks, NEW p \in Pairs, UpdatePair(t, p)
    PROVE  /\ \A u \in Ticks, q \in Pairs : u # t \/ q # p => run'[u][q] = run[u][q]
           /\ run[t][p].phase \in {"fetching", "submitting", "backoff", "locating", "recording"}
           /\ tick' = tick
           /\ \/ /\ confirmed' = confirmed \cup {<<t, p>>}
                 /\ run'[t][p].phase = "locating"
              \/ /\ confirmed' = confirmed
                 /\ \/ run'[t][p].phase \notin {"fetching", "submitting", "backoff"}
                    \/ run[t][p].phase \in {"fetching", "submitting", "backoff"}
<1> DEFINE others == \A u \in Ticks, q \in Pairs : u # t \/ q # p => run'[u][q] = run[u][q]
<1>1. ASSUME NEW r, run' = [run EXCEPT ![t][p] = r] PROVE others /\ run'[t][p] = r
  BY <1>1 DEF RunsOK
<1>2. ASSUME NEW phase \in Settled, Settle(t, p, phase)
      PROVE  others /\ run'[t][p].phase = phase
  <2> DEFINE r == [Waiting EXCEPT !.phase = phase]
  <2>1. r.phase = phase
    BY DEF Waiting
  <2>2. run' = [run EXCEPT ![t][p] = r]
    BY <1>2 DEF Settle
  <2> HIDE DEF r, others
  <2> QED
    BY <1>1, <2>1, <2>2
<1>3. ASSUME NEW phase \in {"locating", "backoff"}, Step(t, p, phase)
      PROVE  others /\ run'[t][p].phase = phase
  BY <1>3 DEF Step, RunsOK, Runs
<1>4. ASSUME NEW n, SendAttempt(t, p, n)
      PROVE  others /\ confirmed' = confirmed /\ tick' = tick
  BY <1>4 DEF SendAttempt, RunsOK
<1>5. CASE Submit(t, p) \/ Retry(t, p)
  BY <1>4, <1>5 DEF Submit, Retry, InPhase
<1>6. CASE Confirm(t, p)
  BY <1>3, <1>6 DEF Confirm, InPhase
<1>7. CASE AttemptFails(t, p)
  BY <1>2, <1>3, <1>7 DEF AttemptFails, InPhase, Settled
<1>8. CASE LocateSlot(t, p)
  BY <1>1, <1>8 DEF LocateSlot, InPhase, RunsOK
<1>9. CASE \/ SkipPair(t, p) \/ AggregationThrows(t, p) \/ LocateFails(t, p)
           \/ RecordSuccess(t, p)
  BY <1>2, <1>9 DEF SkipPair, AggregationThrows, LocateFails, RecordSuccess, Records,
                    InPhase, Settled
<1> QED
  BY <1>5, <1>6, <1>7, <1>8, <1>9 DEF UpdatePair

LEMMA NextConfirmedOK == ConfirmedOK /\ RunsOK /\ [Next]_vars => ConfirmedOK'
<1> SUFFICES ASSUME ConfirmedOK, RunsOK, [Next]_vars PROVE ConfirmedOK'
  OBVIOUS
<1>1. ASSUME UNCHANGED <<tick, run, confirmed>> PROVE ConfirmedOK'
  BY <1>1 DEF ConfirmedOK
<1>2. ASSUME NEW t \in Ticks, StartTick(t) PROVE ConfirmedOK'
  BY <1>2 DEF StartTick, ConfirmedOK, RunsOK
<1>3. ASSUME NEW t \in Ticks, tick[t] = "started", BeginUpdates(t)
      PROVE  ConfirmedOK'
  BY <1>3 DEF BeginUpdates, ConfirmedOK, RunsOK
<1>4. ASSUME NEW t \in Ticks, EndTick(t) PROVE ConfirmedOK'
  <2>1. /\ tick[t] = "updating" /\ tick'[t] = "over"
        /\ \A u \in Ticks \ {t} : tick'[u] = tick[u]
        /\ UNCHANGED <<run, confirmed>>
    BY <1>4 DEF EndTick, MayEnd, RunsOK
  <2> QED
    BY <2>1 DEF ConfirmedOK
<1>5. ASSUME NEW t \in Ticks, NEW p \in Pairs, UpdatePair(t, p) PROVE ConfirmedOK'
  BY <1>5, RunStep DEF ConfirmedOK
<1>6. CASE Stop
  <2>1. \A t \in Ticks : \/ tick'[t] = "lost"
                         \/ tick'[t] = tick[t] /\ tick[t] \notin {"started", "updating"}
    BY <1>6 DEF Stop, RunsOK
  <2>2. \A t \in Ticks, p \in Pairs : \/ run'[t][p].phase = "lost" /\ tick[t] = "updating"
                                      \/ run'[t][p] = run[t][p]
    BY <1>6 DEF Stop, Waiting
  <2>3. confirmed' = confirmed
    BY <1>6 DEF Stop
  <2> QED
    BY <2>1, <2>2, <2>3 DEF ConfirmedOK
<1> QED
  BY <1>1, <1>2, <1>3, <1>4, <1>5, <1>6
     DEF Next, Chain, AdvanceSlot, Land, Tick, CheckStaleness, SkipStaleness, Die, Crash,
         Shutdown, Restart, LimitExpires, vars

\* A run whose transaction was confirmed sends no other one, whatever fails after it.
THEOREM ConfirmedSendNoMore == Spec => ConfirmedIsNotResent
<1> DEFINE quiet == \A tx \in sent' \ sent : <<tx.tick, tx.pair>> \notin confirmed
<1>1. ASSUME ConfirmedOK, [Next]_vars PROVE quiet
  <2>1. ASSUME NEW t \in Ticks, NEW p \in Pairs, Submit(t, p) \/ Retry(t, p) PROVE quiet
    BY <1>1, <2>1 DEF Submit, Retry, SendAttempt, InPhase, ConfirmedOK
  <2>2. ASSUME sent' \subseteq sent PROVE quiet
    BY <2>2
  <2>3. CASE Chain
    BY <2>2, <2>3 DEF Chain, AdvanceSlot, Land
  <2>4. ASSUME NEW t \in Ticks, NEW p \in Pairs, UpdatePair(t, p) PROVE quiet
    <3>1. CASE Submit(t, p) \/ Retry(t, p)
      BY <2>1, <3>1
    <3>2. CASE ~ Submit(t, p) /\ ~ Retry(t, p)
      <4>1. sent' = sent
        BY <2>4, <3>2 DEF UpdatePair, SkipPair, AggregationThrows, Confirm, AttemptFails,
                          LocateSlot, LocateFails, RecordSuccess, Records, chainVars
      <4> QED
        BY <2>2, <4>1
    <3> QED
      BY <3>1, <3>2
  <2>5. ASSUME NEW t \in Ticks, StartTick(t) \/ Tick(t) \/ Die(t) PROVE quiet
    <3>1. sent' = sent
      BY <2>5 DEF StartTick, Tick, CheckStaleness, SkipStaleness, EndTick, BeginUpdates,
                  Die, Stop, chainVars
    <3> QED
      BY <2>2, <3>1
  <2>6. CASE Crash \/ Shutdown \/ Restart \/ LimitExpires
    BY <2>2, <2>6 DEF Crash, Shutdown, Stop, Restart, LimitExpires, chainVars
  <2>7. CASE UNCHANGED vars
    BY <2>2, <2>7 DEF vars, chainVars
  <2> HIDE DEF quiet
  <2> QED
    BY <1>1, <2>3, <2>4, <2>5, <2>6, <2>7 DEF Next
<1>2. ConfirmedOK /\ RunsOK /\ [Next]_vars => [quiet]_vars
  BY <1>1
<1>3. Spec => []ConfirmedOK
  <2>1. Spec => []RunsOK
    BY BooksAreKept, PTL DEF Books
  <2> QED
    BY <2>1, InitConfirmedOK, NextConfirmedOK, PTL DEF Spec
<1> QED
  BY <1>2, <1>3, BooksAreKept, PTL DEF Spec, ConfirmedIsNotResent, Books
--------------------------------------------------------------------------------
(* Runs and their ticks *)

Active == {"fetching", "submitting", "backoff", "locating", "recording"}

\* Runs begin with the updates of their tick, and their tick waits for them.
PhasesOK ==
    \A t \in Ticks, p \in Pairs :
       /\ tick[t] \in {"due", "started"} => run[t][p].phase = "waiting"
       /\ run[t][p].phase \in Active => tick[t] = "updating"

LEMMA InitPhasesOK == Init => PhasesOK
BY DEF Init, PhasesOK, Waiting, Active

\* What becomes of the phases when the process ends.
LEMMA StopPhases ==
    ASSUME RunsOK, Stop
    PROVE  /\ \A t \in Ticks :
                 tick'[t] = IF tick[t] \in {"started", "updating"} THEN "lost"
                                  ELSE tick[t]
           /\ \A t \in Ticks, p \in Pairs :
                 run'[t][p].phase =
                    IF tick[t] = "updating" /\ run[t][p].phase \notin Settled
                    THEN "lost" ELSE run[t][p].phase
BY DEF RunsOK, Stop, Waiting

LEMMA NextPhasesOK == PhasesOK /\ RunsOK /\ [Next]_vars => PhasesOK'
<1> SUFFICES ASSUME PhasesOK, RunsOK, [Next]_vars PROVE PhasesOK'
  OBVIOUS
<1>1. ASSUME UNCHANGED <<tick, run>> PROVE PhasesOK'
  BY <1>1 DEF PhasesOK
<1>2. ASSUME NEW t \in Ticks, StartTick(t) PROVE PhasesOK'
  BY <1>2 DEF StartTick, PhasesOK, RunsOK, Active
<1>3. ASSUME NEW t \in Ticks, tick[t] = "started", BeginUpdates(t)
      PROVE  PhasesOK'
  BY <1>3 DEF BeginUpdates, PhasesOK, RunsOK
<1>4. ASSUME NEW t \in Ticks, EndTick(t) PROVE PhasesOK'
  <2>1. /\ tick'[t] = "over" /\ run' = run
        /\ \A u \in Ticks \ {t} : tick'[u] = tick[u]
        /\ \A p \in Pairs : run[t][p].phase \in Settled
    BY <1>4 DEF EndTick, MayEnd, RunsOK
  <2> QED
    BY <2>1 DEF PhasesOK, Settled, Active
<1>5. ASSUME NEW t \in Ticks, NEW p \in Pairs, UpdatePair(t, p) PROVE PhasesOK'
  BY <1>5, RunStep DEF PhasesOK, Active
<1>6. CASE Stop
  BY <1>6, StopPhases DEF PhasesOK, Active, Settled
<1> QED
  BY <1>1, <1>2, <1>3, <1>4, <1>5, <1>6
     DEF Next, Chain, AdvanceSlot, Land, Tick, CheckStaleness, SkipStaleness, Die, Crash,
         Shutdown, Restart, LimitExpires, vars

--------------------------------------------------------------------------------
(* How many runs ended how *)

Tally == [succeeded |-> Cardinality(RunsIn("succeeded")),
          skipped   |-> Cardinality(RunsIn("skipped")),
          taken     |-> Cardinality(TakenFailures),
          counted   |-> Cardinality(CountedFailures)]

Tallies == [succeeded : Nat, skipped : Nat, taken : Nat, counted : Nat]

LEMMA SetsOfRuns ==
    ASSUME NEW S, S \subseteq Ticks \X Pairs PROVE IsFiniteSet(S) /\ Cardinality(S) \in Nat
<1>1. IsFiniteSet(Ticks) /\ IsFiniteSet(Pairs)
  BY BotAssumption, FS_Interval DEF Ticks
<1>2. IsFiniteSet(Ticks \X Pairs)
  BY <1>1, FS_Product
<1> QED
  BY <1>2, FS_Subset, FS_CardinalityType

LEMMA TallyType == Tally \in Tallies /\ Tally' \in Tallies
<1>1. /\ RunsIn("succeeded") \subseteq Ticks \X Pairs
      /\ RunsIn("skipped") \subseteq Ticks \X Pairs
      /\ TakenFailures \subseteq Ticks \X Pairs
      /\ CountedFailures \subseteq Ticks \X Pairs
  BY DEF RunsIn, TakenFailures, CountedFailures
<1>2. /\ RunsIn("succeeded")' \subseteq Ticks \X Pairs
      /\ RunsIn("skipped")' \subseteq Ticks \X Pairs
      /\ TakenFailures' \subseteq Ticks \X Pairs
      /\ CountedFailures' \subseteq Ticks \X Pairs
  BY DEF RunsIn, TakenFailures, CountedFailures
<1> QED
  BY <1>1, <1>2, SetsOfRuns DEF Tally, Tallies

\* Runs that do not settle, of ticks that do not end, change nothing.
LEMMA SameTally ==
    ASSUME \A t \in Ticks, p \in Pairs :
              \/ run'[t][p].phase = run[t][p].phase
              \/ run'[t][p].phase \notin Settled /\ run[t][p].phase \notin Settled,
           \A t \in Ticks, p \in Pairs : run[t][p].phase = "rejected" =>
              \A phase \in {"over", "lost"} : tick'[t] = phase <=> tick[t] = phase
    PROVE  Tally' = Tally
<1>1. /\ RunsIn("succeeded")' = RunsIn("succeeded")
      /\ RunsIn("skipped")' = RunsIn("skipped")
      /\ RunsIn("rejected")' = RunsIn("rejected")
  BY DEF RunsIn, Settled
<1>2. TakenFailures' = TakenFailures /\ CountedFailures' = CountedFailures
  BY <1>1 DEF TakenFailures, CountedFailures, RunsIn
<1> QED
  BY <1>1, <1>2 DEF Tally

\* A run that ends is one more of its kind; a failure is none before its tick ends.
LEMMA OneMoreRun ==
    ASSUME NEW t \in Ticks, NEW p \in Pairs, PhasesOK,
           run[t][p].phase \in Active, tick' = tick,
           \A u \in Ticks, q \in Pairs : u # t \/ q # p => run'[u][q] = run[u][q]
    PROVE  /\ Tally'.succeeded = Tally.succeeded
                                     + IF run'[t][p].phase = "succeeded" THEN 1 ELSE 0
           /\ Tally'.skipped = Tally.skipped
                                   + IF run'[t][p].phase = "skipped" THEN 1 ELSE 0
           /\ Tally'.taken = Tally.taken /\ Tally'.counted = Tally.counted
<1> DEFINE this == <<t, p>>
<1>1. ASSUME NEW phase \in {"succeeded", "skipped"}
      PROVE  Cardinality(RunsIn(phase)') =
                Cardinality(RunsIn(phase)) + IF run'[t][p].phase = phase THEN 1 ELSE 0
  <2>1. RunsIn(phase)' = IF run'[t][p].phase = phase THEN RunsIn(phase) \cup {this}
                         ELSE RunsIn(phase)
    BY DEF RunsIn, Active
  <2>2. this \notin RunsIn(phase) /\ RunsIn(phase) \subseteq Ticks \X Pairs
    BY DEF RunsIn, Active
  <2> QED
    BY <2>1, <2>2, SetsOfRuns, FS_AddElement
<1>2. tick[t] = "updating"
  BY DEF PhasesOK
<1>3. TakenFailures' = TakenFailures /\ CountedFailures' = CountedFailures
  BY <1>2 DEF TakenFailures, CountedFailures, RunsIn, Active
<1> QED
  BY <1>1, <1>3 DEF Tally

\* The failures of one tick.
LEMMA FailuresOf ==
    ASSUME NEW t \in Ticks, NEW S, S \subseteq Ticks \X Pairs,
           \A r \in S : r[1] # t
    PROVE  Cardinality(S \cup {t} \X Rejected(t)) = Cardinality(S) + Cardinality(Rejected(t))
<1> DEFINE own == {t} \X Rejected(t)
<1>1. IsFiniteSet(Rejected(t)) /\ Cardinality(Rejected(t)) \in Nat
  <2>1. Rejected(t) \subseteq Pairs
    BY DEF Rejected
  <2> QED
    BY <2>1, BotAssumption, FS_Subset, FS_CardinalityType
<1>2. IsFiniteSet(own) /\ Cardinality(own) = Cardinality(Rejected(t))
  <2>1. IsFiniteSet({t}) /\ Cardinality({t}) = 1
    BY FS_Singleton
  <2>2. IsFiniteSet(own) /\ Cardinality(own) = 1 * Cardinality(Rejected(t))
    BY <1>1, <2>1, FS_Product
  <2> QED
    BY <1>1, <2>2
<1>3. S \cap own = {}
  OBVIOUS
<1> HIDE DEF own
<1>4. Cardinality(S \cup own) = Cardinality(S) + Cardinality(own) - Cardinality(S \cap own)
  BY <1>2, SetsOfRuns, FS_Union
<1>5. Cardinality(S \cap own) = 0 /\ Cardinality(S) \in Nat
  BY <1>3, FS_EmptySet, SetsOfRuns
<1> QED
  BY <1>1, <1>2, <1>4, <1>5 DEF own

\* A tick that ends has counted its failures.
LEMMA OneMoreTick ==
    ASSUME NEW t \in Ticks, tick[t] = "updating", tick'[t] = "over", run' = run,
           \A u \in Ticks \ {t} : tick'[u] = tick[u]
    PROVE  /\ Tally'.succeeded = Tally.succeeded /\ Tally'.skipped = Tally.skipped
           /\ Tally'.taken = Tally.taken + Cardinality(Rejected(t))
           /\ Tally'.counted = Tally.counted + Cardinality(Rejected(t))
<1> DEFINE own == {t} \X Rejected(t)
<1>1. /\ TakenFailures' = TakenFailures \cup own
      /\ CountedFailures' = CountedFailures \cup own
  BY DEF TakenFailures, CountedFailures, RunsIn, Rejected
<1>2. /\ TakenFailures \subseteq Ticks \X Pairs /\ \A r \in TakenFailures : r[1] # t
      /\ CountedFailures \subseteq Ticks \X Pairs /\ \A r \in CountedFailures : r[1] # t
  BY DEF TakenFailures, CountedFailures, RunsIn
<1>3. /\ Cardinality(TakenFailures') = Cardinality(TakenFailures) + Cardinality(Rejected(t))
      /\ Cardinality(CountedFailures') = Cardinality(CountedFailures) + Cardinality(Rejected(t))
  BY <1>1, <1>2, FailuresOf
<1>4. RunsIn("succeeded")' = RunsIn("succeeded") /\ RunsIn("skipped")' = RunsIn("skipped")
  BY DEF RunsIn
<1> QED
  BY <1>3, <1>4 DEF Tally

\* A process that ends leaves the books as they are, but for failures that it may have
\* counted.
LEMMA StopTally ==
    ASSUME RunsOK, Stop
    PROVE  /\ Tally'.succeeded = Tally.succeeded /\ Tally'.skipped = Tally.skipped
           /\ Tally'.counted = Tally.counted
           /\ Tally'.taken >= Tally.taken
           /\ \A t \in Ticks : tick[t] = "updating" =>
                 Tally'.taken >= Tally.taken + Cardinality(Rejected(t))
<1> USE StopPhases
<1>1. /\ RunsIn("succeeded")' = RunsIn("succeeded")
      /\ RunsIn("skipped")' = RunsIn("skipped")
      /\ RunsIn("rejected")' = RunsIn("rejected")
  BY DEF RunsIn, Settled
<1>2. CountedFailures' = CountedFailures /\ TakenFailures \subseteq TakenFailures'
  BY <1>1 DEF CountedFailures, TakenFailures, RunsIn
<1>3. TakenFailures' \subseteq Ticks \X Pairs /\ TakenFailures \subseteq Ticks \X Pairs
  BY DEF TakenFailures, RunsIn
<1>4. Cardinality(TakenFailures') >= Cardinality(TakenFailures)
  BY <1>2, <1>3, SetsOfRuns, FS_Subset
<1>5. ASSUME NEW t \in Ticks, tick[t] = "updating"
      PROVE  Cardinality(TakenFailures') >= Cardinality(TakenFailures) + Cardinality(Rejected(t))
  <2> DEFINE all == TakenFailures \cup {t} \X Rejected(t)
  <2>1. \A r \in TakenFailures : r[1] # t
    BY <1>5 DEF TakenFailures
  <2>2. Cardinality(all) = Cardinality(TakenFailures) + Cardinality(Rejected(t))
    BY <1>3, <2>1, FailuresOf
  <2>3. \A p \in Rejected(t) : <<t, p>> \in TakenFailures'
    BY <1>1, <1>5 DEF TakenFailures, RunsIn, Rejected
  <2>4. all \subseteq TakenFailures'
    BY <1>2, <2>3
  <2> HIDE DEF all
  <2> QED
    BY <1>3, <2>2, <2>4, SetsOfRuns, FS_Subset
<1> QED
  BY <1>1, <1>2, <1>4, <1>5 DEF Tally

--------------------------------------------------------------------------------
(* The counters *)

Ended(data) == data.successful + data.skipped + data.failed

\* What the counters may say of the runs: together no more than ended, and one more for
\* each write that failed; one by one, if none did.
NoMoreThan(data, tally, errors) ==
    /\ Ended(data) <= tally.succeeded + tally.skipped + tally.taken + errors
    /\ errors = 0 => /\ data.successful <= tally.succeeded
                     /\ data.skipped <= tally.skipped
                     /\ data.failed <= tally.counted

CountsOK ==
    /\ starts \in Nat
    /\ NoMoreThan(metrics, Tally, diskErrors)
    /\ file # Corrupted => NoMoreThan(file, Tally, diskErrors)
    /\ diskErrors = 0 /\ starts = 0 => /\ metrics.successful = Tally.succeeded
                                       /\ metrics.skipped = Tally.skipped
                                       /\ metrics.failed = Tally.counted

LEMMA InitCountsOK == Init => CountsOK
<1> SUFFICES ASSUME Init PROVE CountsOK
  OBVIOUS
<1>1. /\ RunsIn("succeeded") = {} /\ RunsIn("skipped") = {}
      /\ CountedFailures = {} /\ TakenFailures = {}
  BY DEF Init, Waiting, RunsIn, CountedFailures, TakenFailures
<1>2. Tally = [succeeded |-> 0, skipped |-> 0, taken |-> 0, counted |-> 0]
  BY <1>1, FS_EmptySet DEF Tally
<1>3. PICK s \in FirstRecords :
        metrics = [Empty EXCEPT !.lastUpdateSlot = [p \in Pairs |-> s]]
  BY DEF Init
<1>4. metrics.successful = 0 /\ metrics.skipped = 0 /\ metrics.failed = 0
  BY <1>3 DEF Empty
<1>5. file = metrics /\ diskErrors = 0 /\ starts = 0
  BY DEF Init
<1> QED
  BY <1>2, <1>4, <1>5 DEF CountsOK, NoMoreThan, Ended

\* More runs and more failed writes leave room for what was counted.
LEMMA MoreRoom ==
    ASSUME NEW data \in Metrics, NEW more \in Tallies, NEW m \in Nat,
           NoMoreThan(data, Tally, diskErrors), diskErrors \in Nat, m >= diskErrors,
           more.succeeded >= Tally.succeeded, more.skipped >= Tally.skipped,
           more.taken >= Tally.taken, more.counted >= Tally.counted
    PROVE  NoMoreThan(data, more, m)
BY TallyType DEF NoMoreThan, Ended, Metrics, Tallies

\* A step that counts nothing.
LEMMA CountsStay ==
    ASSUME CountsOK, MetricsOK, UNCHANGED <<metricsVars, starts>>,
           Tally'.succeeded = Tally.succeeded, Tally'.skipped = Tally.skipped,
           Tally'.counted = Tally.counted, Tally'.taken >= Tally.taken
    PROVE  CountsOK'
<1>1. metrics \in Metrics /\ (file # Corrupted => file \in Metrics) /\ diskErrors \in Nat
  BY DEF MetricsOK
<1>2. NoMoreThan(metrics, Tally', diskErrors)
  BY <1>1, TallyType, MoreRoom DEF CountsOK, Tallies
<1>3. file # Corrupted => NoMoreThan(file, Tally', diskErrors)
  BY <1>1, TallyType, MoreRoom DEF CountsOK, Tallies
<1> QED
  BY <1>2, <1>3 DEF CountsOK, metricsVars

LEMMA CountFields ==
    ASSUME NEW data \in Metrics, NEW counter \in Counters, NEW n \in Nat
    PROVE  /\ Count(data, counter, n).successful
                  = data.successful + IF counter = "successful" THEN n ELSE 0
           /\ Count(data, counter, n).skipped
                  = data.skipped + IF counter = "skipped" THEN n ELSE 0
           /\ Count(data, counter, n).failed
                  = data.failed + IF counter = "failed" THEN n ELSE 0
<1>1. CASE counter = "successful"
  BY <1>1 DEF Count, Metrics
<1>2. CASE counter = "failed"
  BY <1>2 DEF Count, Metrics
<1>3. CASE counter = "skipped"
  BY <1>3 DEF Count, Metrics
<1>4. CASE counter = "staleOracles"
  BY <1>4 DEF Count, Metrics
<1> QED
  BY <1>1, <1>2, <1>3, <1>4 DEF Counters

LEMMA SucceedFields ==
    ASSUME NEW data \in Metrics, NEW p \in Pairs, NEW s \in 0 .. MaxSlot
    PROVE  /\ Succeed(data, p, s).successful = data.successful + 1
           /\ Succeed(data, p, s).skipped = data.skipped
           /\ Succeed(data, p, s).failed = data.failed
<1> DEFINE counted == Count(data, "successful", 1)
<1>1. counted \in Metrics
  BY CountIsMetrics DEF Counters
<1>2. /\ counted.successful = data.successful + 1
      /\ counted.skipped = data.skipped /\ counted.failed = data.failed
  BY CountFields DEF Counters, Metrics
<1> HIDE DEF counted
<1>3. Succeed(data, p, s) = [counted EXCEPT !.lastUpdateSlot = [@ EXCEPT ![p] = s]]
  BY DEF Succeed, counted
<1> QED
  BY <1>1, <1>2, <1>3 DEF Metrics

\* The record that ends a run: it is written with the run, or counts a run that is then
\* rejected.
LEMMA RecordCounts ==
    ASSUME CountsOK, MetricsOK, starts' = starts, NEW data \in Metrics,
           NEW s \in 0 .. 1, NEW k \in 0 .. 1, s + k = 1,
           data.successful = metrics.successful + s,
           data.skipped = metrics.skipped + k, data.failed = metrics.failed,
           Tally'.taken = Tally.taken, Tally'.counted = Tally.counted,
           \/ /\ Save(data)
              /\ Tally'.succeeded = Tally.succeeded + s /\ Tally'.skipped = Tally.skipped + k
           \/ /\ SaveFails(data, file)
              /\ Tally'.succeeded = Tally.succeeded /\ Tally'.skipped = Tally.skipped
    PROVE  CountsOK'
<1>1. metrics \in Metrics /\ diskErrors \in Nat /\ (file # Corrupted => file \in Metrics)
  BY DEF MetricsOK
<1>2. CASE /\ Save(data)
           /\ Tally'.succeeded = Tally.succeeded + s /\ Tally'.skipped = Tally.skipped + k
  <2>1. metrics' = data /\ file' = data /\ diskErrors' = diskErrors
    BY <1>2 DEF Save
  <2>2. NoMoreThan(data, Tally', diskErrors)
    BY <1>1, <1>2, TallyType DEF CountsOK, NoMoreThan, Ended, Metrics, Tallies
  <2> QED
    BY <1>2, <2>1, <2>2 DEF CountsOK
<1>3. CASE /\ SaveFails(data, file)
           /\ Tally'.succeeded = Tally.succeeded /\ Tally'.skipped = Tally.skipped
  <2>1. metrics' = data /\ file' \in {file, Corrupted} /\ diskErrors' = diskErrors + 1
    BY <1>3 DEF SaveFails
  <2>2. NoMoreThan(data, Tally', diskErrors')
    BY <1>1, <1>3, <2>1, TallyType DEF CountsOK, NoMoreThan, Ended, Metrics, Tallies
  <2>3. file # Corrupted => NoMoreThan(file, Tally', diskErrors')
    BY <1>1, <1>3, <2>1, TallyType, MoreRoom DEF CountsOK, Tallies
  <2>4. diskErrors' # 0
    BY <1>1, <2>1
  <2> QED
    BY <2>1, <2>2, <2>3, <2>4 DEF CountsOK
<1> QED
  BY <1>2, <1>3

LEMMA RunCounts ==
    ASSUME CountsOK, MetricsOK, RunsOK, PhasesOK, NEW t \in Ticks, NEW p \in Pairs,
           UpdatePair(t, p)
    PROVE  CountsOK'
<1> DEFINE phase == run'[t][p].phase
<1>1. /\ Tally'.succeeded = Tally.succeeded + IF phase = "succeeded" THEN 1 ELSE 0
      /\ Tally'.skipped = Tally.skipped + IF phase = "skipped" THEN 1 ELSE 0
      /\ Tally'.taken = Tally.taken /\ Tally'.counted = Tally.counted
  BY RunStep, OneMoreRun DEF Active
<1>2. ASSUME NEW ph \in Settled, Settle(t, p, ph) PROVE phase = ph
  <2> DEFINE r == [Waiting EXCEPT !.phase = ph]
  <2>1. r.phase = ph /\ run' = [run EXCEPT ![t][p] = r]
    BY <1>2 DEF Settle, Waiting
  <2> HIDE DEF r
  <2> QED
    BY <2>1 DEF RunsOK
<1>3. starts' = starts
  BY DEF UpdatePair, SkipPair, AggregationThrows, Submit, Confirm, AttemptFails, Retry,
         LocateSlot, LocateFails, RecordSuccess, Records, SendAttempt, processVars
<1>4. /\ metrics \in Metrics
      /\ metrics.successful \in Nat /\ metrics.skipped \in Nat /\ metrics.failed \in Nat
  BY DEF MetricsOK, Metrics
<1> HIDE DEF phase
<1>5. CASE SkipPair(t, p)
  <2> DEFINE data == Count(metrics, "skipped", 1)
  <2>1. /\ data \in Metrics /\ data.successful = metrics.successful + 0
        /\ data.skipped = metrics.skipped + 1 /\ data.failed = metrics.failed
    <3>1. "skipped" \in Counters /\ 1 \in Nat
      BY DEF Counters
    <3>2. data \in Metrics
      BY <1>4, <3>1, CountIsMetrics
    <3>3. /\ data.successful = metrics.successful + (IF "skipped" = "successful" THEN 1 ELSE 0)
          /\ data.skipped = metrics.skipped + (IF "skipped" = "skipped" THEN 1 ELSE 0)
          /\ data.failed = metrics.failed + (IF "skipped" = "failed" THEN 1 ELSE 0)
      BY <1>4, <3>1, CountFields
    <3> HIDE DEF data
    <3> QED
      BY <1>4, <3>2, <3>3
  <2>2. \/ phase = "skipped" /\ Save(data)
        \/ phase = "rejected" /\ SaveFails(data, file)
    <3>1. \/ Settle(t, p, "skipped") /\ Save(data)
          \/ Settle(t, p, "rejected") /\ SaveFails(data, file)
      BY <1>5 DEF SkipPair, Records
    <3> HIDE DEF data
    <3> QED
      BY <1>2, <3>1 DEF Settled
  <2> HIDE DEF data
  <2> QED
    BY <1>1, <1>3, <2>1, <2>2, TallyType, RecordCounts DEF Tallies
<1>6. CASE RecordSuccess(t, p)
  <2> DEFINE data == Succeed(metrics, p, run[t][p].seenSlot)
  <2>1. run[t][p].seenSlot \in 0 .. MaxSlot
    BY DEF RunsOK, Runs
  <2>2. /\ data \in Metrics /\ data.successful = metrics.successful + 1
        /\ data.skipped = metrics.skipped + 0 /\ data.failed = metrics.failed
    <3>1. data \in Metrics
      BY <1>4, <2>1, SucceedIsMetrics
    <3>2. /\ data.successful = metrics.successful + 1
          /\ data.skipped = metrics.skipped /\ data.failed = metrics.failed
      BY <1>4, <2>1, SucceedFields
    <3> HIDE DEF data
    <3> QED
      BY <1>4, <3>1, <3>2
  <2>3. \/ phase = "succeeded" /\ Save(data)
        \/ phase = "rejected" /\ SaveFails(data, file)
    <3>1. \/ Settle(t, p, "succeeded") /\ Save(data)
          \/ Settle(t, p, "rejected") /\ SaveFails(data, file)
      BY <1>6 DEF RecordSuccess, Records
    <3> HIDE DEF data
    <3> QED
      BY <1>2, <3>1 DEF Settled
  <2> HIDE DEF data
  <2> QED
    BY <1>1, <1>3, <2>2, <2>3, TallyType, RecordCounts DEF Tallies
<1>7. CASE ~ SkipPair(t, p) /\ ~ RecordSuccess(t, p)
  <2>1. UNCHANGED metricsVars
    BY <1>7 DEF UpdatePair, AggregationThrows, Submit, Confirm, AttemptFails, Retry,
                LocateSlot, LocateFails, SendAttempt
  <2>2. phase \notin {"succeeded", "skipped"}
    <3>1. ASSUME NEW r, run' = [run EXCEPT ![t][p] = r] PROVE phase = r.phase
      BY <3>1 DEF RunsOK, phase
    <3>2. ASSUME NEW ph, Step(t, p, ph) PROVE phase = ph
      BY <3>2 DEF Step, RunsOK, Runs, phase
    <3>3. CASE Submit(t, p) \/ Retry(t, p)
      BY <3>3 DEF Submit, Retry, SendAttempt, RunsOK, phase
    <3>4. CASE LocateSlot(t, p)
      BY <3>4 DEF LocateSlot, RunsOK, phase
    <3>5. CASE Confirm(t, p) \/ AttemptFails(t, p)
      BY <1>2, <3>2, <3>5 DEF Confirm, AttemptFails, Settled
    <3>6. CASE AggregationThrows(t, p) \/ LocateFails(t, p)
      BY <1>2, <3>6 DEF AggregationThrows, LocateFails, Settled
    <3> QED
      BY <1>7, <3>3, <3>4, <3>5, <3>6 DEF UpdatePair
  <2> QED
    BY <1>1, <1>3, <2>1, <2>2, TallyType, CountsStay DEF Tallies
<1> QED
  BY <1>5, <1>6, <1>7

\* A record of a tick that counts no run, and one that counts its failures, when the tally
\* has grown as much.
LEMMA CountedRoom ==
    ASSUME CountsOK, NEW data \in Metrics, metrics \in Metrics, NEW n \in Nat, NEW m \in Nat,
           data.successful = metrics.successful, data.skipped = metrics.skipped,
           data.failed = metrics.failed + n,
           Tally'.succeeded = Tally.succeeded, Tally'.skipped = Tally.skipped,
           Tally'.taken >= Tally.taken + n, diskErrors \in Nat, m >= diskErrors,
           m = 0 => Tally'.counted >= Tally.counted + n
    PROVE  NoMoreThan(data, Tally', m)
BY TallyType DEF CountsOK, NoMoreThan, Ended, Metrics, Tallies

LEMMA TickCounts ==
    ASSUME CountsOK, MetricsOK, RunsOK, PhasesOK, NEW t \in Ticks, Tick(t)
    PROVE  CountsOK'
<1>0. /\ metrics \in Metrics /\ diskErrors \in Nat /\ starts' = starts
      /\ metrics.failed \in Nat
  BY DEF MetricsOK, Metrics, Tick, CheckStaleness, SkipStaleness, BeginUpdates,
         EndTick, processVars
<1>1. CASE CheckStaleness(t) \/ SkipStaleness(t)
  <2>1. tick[t] = "started" /\ \A u \in Ticks \ {t} : tick'[u] = tick[u]
    BY <1>1 DEF CheckStaleness, SkipStaleness, BeginUpdates, RunsOK
  <2>2. /\ \A p \in Pairs : run[t][p].phase = "waiting" /\ run'[t][p].phase = "fetching"
        /\ \A u \in Ticks \ {t} : run'[u] = run[u]
    BY <1>1, <2>1 DEF CheckStaleness, SkipStaleness, BeginUpdates, RunsOK, PhasesOK, Waiting
  <2>3. Tally' = Tally
    BY <2>1, <2>2, SameTally DEF Settled
  <2>4. CASE UNCHANGED metricsVars
    BY <1>0, <2>3, <2>4, TallyType, CountsStay DEF Tallies
  <2>5. CASE ~ UNCHANGED metricsVars
    <3> DEFINE n == Cardinality(StalePairs(slot))
               data == Count(metrics, "staleOracles", n)
    <3>1. metrics' = data /\ file' = data /\ diskErrors' = diskErrors
      BY <1>1, <2>5 DEF CheckStaleness, SkipStaleness, Save
    <3>2. n \in Nat /\ "staleOracles" \in Counters
      BY StaleAreFinite DEF Counters
    <3>3. data \in Metrics
      BY <1>0, <3>2, CountIsMetrics
    <3>4. /\ data.successful = metrics.successful + (IF "staleOracles" = "successful" THEN n ELSE 0)
          /\ data.skipped = metrics.skipped + (IF "staleOracles" = "skipped" THEN n ELSE 0)
          /\ data.failed = metrics.failed + (IF "staleOracles" = "failed" THEN n ELSE 0)
      BY <1>0, <3>2, CountFields
    <3> HIDE DEF data, n
    <3>5. /\ data.successful = metrics.successful /\ data.skipped = metrics.skipped
          /\ data.failed = metrics.failed + 0
      BY <1>0, <3>4 DEF Metrics
    <3>6. NoMoreThan(data, Tally', diskErrors)
      BY <1>0, <2>3, <3>3, <3>5, TallyType, CountedRoom DEF Tallies
    <3> QED
      BY <1>0, <2>3, <3>1, <3>5, <3>6 DEF CountsOK
  <2> QED
    BY <2>4, <2>5
<1>2. CASE EndTick(t)
  <2> DEFINE n == Cardinality(Rejected(t))
             data == Count(metrics, "failed", n)
  <2>1. /\ tick[t] = "updating" /\ tick'[t] = "over" /\ run' = run
        /\ \A u \in Ticks \ {t} : tick'[u] = tick[u]
    BY <1>2 DEF EndTick, MayEnd, RunsOK
  <2>2. /\ Tally'.succeeded = Tally.succeeded /\ Tally'.skipped = Tally.skipped
        /\ Tally'.taken = Tally.taken + n /\ Tally'.counted = Tally.counted + n
    BY <2>1, OneMoreTick
  <2>3. n \in Nat /\ "failed" \in Counters
    BY RejectedAreFinite DEF Counters
  <2>4. CASE Rejected(t) = {}
    <3>1. n = 0
      BY <2>4, FS_EmptySet
    <3>2. UNCHANGED metricsVars
      BY <1>2, <2>4 DEF EndTick
    <3> QED
      BY <1>0, <2>2, <3>1, <3>2, TallyType, CountsStay DEF Tallies
  <2>5. CASE Rejected(t) # {}
    <3>1. metrics' = data /\ file' = data /\ diskErrors' = diskErrors
      BY <1>2, <2>5 DEF EndTick, Save
    <3>2. data \in Metrics
      BY <1>0, <2>3, CountIsMetrics
    <3>3. /\ data.successful = metrics.successful + (IF "failed" = "successful" THEN n ELSE 0)
          /\ data.skipped = metrics.skipped + (IF "failed" = "skipped" THEN n ELSE 0)
          /\ data.failed = metrics.failed + (IF "failed" = "failed" THEN n ELSE 0)
      BY <1>0, <2>3, CountFields
    <3> HIDE DEF data, n
    <3>4. /\ data.successful = metrics.successful /\ data.skipped = metrics.skipped
          /\ data.failed = metrics.failed + n
      BY <1>0, <3>3 DEF Metrics
    <3>5. NoMoreThan(data, Tally', diskErrors)
      BY <1>0, <2>2, <2>3, <3>2, <3>4, TallyType, CountedRoom DEF Tallies
    <3> QED
      BY <1>0, <2>2, <3>1, <3>4, <3>5 DEF CountsOK
  <2> QED
    BY <2>4, <2>5
<1> QED
  BY <1>1, <1>2 DEF Tick

\* The process ends, and a record of one of its ticks may have thrown.
LEMMA DeathCounts ==
    ASSUME CountsOK, MetricsOK, RunsOK, NEW t \in Ticks, Die(t) PROVE CountsOK'
<1>0. /\ metrics \in Metrics /\ diskErrors \in Nat /\ starts' = starts
      /\ (file # Corrupted => file \in Metrics)
  BY DEF MetricsOK, Die, Stop
<1>1. /\ Tally'.succeeded = Tally.succeeded /\ Tally'.skipped = Tally.skipped
      /\ Tally'.counted = Tally.counted /\ Tally'.taken >= Tally.taken
  BY StopTally DEF Die
<1>2. PICK counter \in {"staleOracles", "failed"}, times \in Nat :
        /\ RecordThrows(counter, times)
        /\ counter = "failed" => Tally'.taken >= Tally.taken + times
  <2>1. CASE RecordThrows("staleOracles", Cardinality(StalePairs(slot)))
    BY <2>1, StaleAreFinite
  <2>2. CASE MayEnd(t) /\ RecordThrows("failed", Cardinality(Rejected(t)))
    BY <2>2, RejectedAreFinite, StopTally DEF Die, MayEnd
  <2> QED
    BY <2>1, <2>2 DEF Die
<1>3. PICK n \in 1 .. times :
        SaveFails(Count(metrics, counter, n),
                  IF n = 1 THEN file ELSE Count(metrics, counter, n - 1))
  BY <1>2 DEF RecordThrows
<1>4. ASSUME NEW i \in 0 .. n
      PROVE  /\ Count(metrics, counter, i) \in Metrics
             /\ NoMoreThan(Count(metrics, counter, i), Tally', diskErrors + 1)
  <2> DEFINE data == Count(metrics, counter, i)
             j == IF counter = "failed" THEN i ELSE 0
  <2>1. i \in Nat /\ counter \in Counters
    BY <1>2, <1>4 DEF Counters
  <2>2. data \in Metrics
    BY <1>0, <2>1, CountIsMetrics
  <2>3. /\ data.successful = metrics.successful + (IF counter = "successful" THEN i ELSE 0)
        /\ data.skipped = metrics.skipped + (IF counter = "skipped" THEN i ELSE 0)
        /\ data.failed = metrics.failed + j
    BY <1>0, <2>1, CountFields
  <2>4. j \in Nat /\ Tally'.taken >= Tally.taken + j
    BY <1>1, <1>2, <1>3, <1>4, TallyType DEF Tallies
  <2> HIDE DEF data, j
  <2>5. data.successful = metrics.successful /\ data.skipped = metrics.skipped
    BY <1>0, <1>2, <2>3 DEF Metrics
  <2>6. NoMoreThan(data, Tally', diskErrors + 1)
    BY <1>0, <1>1, <2>2, <2>3, <2>4, <2>5, CountedRoom
  <2> QED
    BY <2>2, <2>6 DEF data
<1>5. file # Corrupted => NoMoreThan(file, Tally', diskErrors + 1)
  BY <1>0, <1>1, TallyType, MoreRoom DEF CountsOK, Tallies
<1>6. /\ metrics' = Count(metrics, counter, n) /\ diskErrors' = diskErrors + 1
      /\ file' \in {file, Count(metrics, counter, n - 1), Corrupted}
  BY <1>3 DEF SaveFails
<1>7. n \in 0 .. n /\ n - 1 \in 0 .. n /\ diskErrors' # 0
  BY <1>0, <1>3, <1>6
<1>8. NoMoreThan(metrics', Tally', diskErrors')
  BY <1>4, <1>6, <1>7
<1>9. file' # Corrupted => NoMoreThan(file', Tally', diskErrors')
  BY <1>4, <1>5, <1>6, <1>7
<1> QED
  BY <1>0, <1>7, <1>8, <1>9 DEF CountsOK

LEMMA ProcessCounts ==
    ASSUME CountsOK, MetricsOK, RunsOK, Crash \/ Shutdown \/ Restart
    PROVE  CountsOK'
<1>0. /\ metrics \in Metrics /\ diskErrors \in Nat
      /\ (file # Corrupted => file \in Metrics)
  BY DEF MetricsOK
<1>1. CASE Crash \/ Shutdown
  <2>1. /\ Tally'.succeeded = Tally.succeeded /\ Tally'.skipped = Tally.skipped
        /\ Tally'.counted = Tally.counted /\ Tally'.taken >= Tally.taken
    BY <1>1, StopTally DEF Crash, Shutdown
  <2>2. /\ metrics' = metrics /\ file' \in {file, metrics, Corrupted} /\ starts' = starts
        /\ diskErrors' \in {diskErrors, diskErrors + 1}
    BY <1>1 DEF Crash, Shutdown, Save, SaveFails, Stop
  <2>3. diskErrors' \in Nat /\ diskErrors' >= diskErrors
    BY <1>0, <2>2
  <2>4. /\ NoMoreThan(metrics, Tally', diskErrors')
        /\ file # Corrupted => NoMoreThan(file, Tally', diskErrors')
    BY <1>0, <2>1, <2>3, TallyType, MoreRoom DEF CountsOK, Tallies
  <2>5. diskErrors' = 0 => diskErrors = 0
    BY <1>0, <2>2
  <2> QED
    BY <2>1, <2>2, <2>4, <2>5 DEF CountsOK
<1>2. CASE Restart
  <2>1. Tally' = Tally
    BY <1>2, SameTally DEF Restart
  <2>2. /\ starts' = starts + 1 /\ UNCHANGED <<file, diskErrors>>
        /\ metrics' = IF file = Corrupted THEN Empty ELSE file
    BY <1>2 DEF Restart
  <2>3. NoMoreThan(Empty, Tally, diskErrors)
    BY <1>0, TallyType DEF NoMoreThan, Ended, Empty, Tallies
  <2> QED
    BY <2>1, <2>2, <2>3 DEF CountsOK
<1> QED
  BY <1>1, <1>2

LEMMA NextCountsOK ==
    CountsOK /\ MetricsOK /\ RunsOK /\ PhasesOK /\ [Next]_vars => CountsOK'
<1> SUFFICES ASSUME CountsOK, MetricsOK, RunsOK, PhasesOK, [Next]_vars PROVE CountsOK'
  OBVIOUS
<1>1. ASSUME UNCHANGED <<run, metricsVars, starts>>,
             \A t \in Ticks, phase \in {"over", "lost"} :
                tick'[t] = phase <=> tick[t] = phase
      PROVE  CountsOK'
  <2>1. Tally' = Tally
    BY <1>1, SameTally
  <2> QED
    BY <1>1, <2>1, TallyType, CountsStay DEF Tallies
<1>2. CASE Chain \/ LimitExpires \/ UNCHANGED vars
  BY <1>1, <1>2 DEF Chain, AdvanceSlot, Land, LimitExpires, vars, processVars
<1>3. ASSUME NEW t \in Ticks, StartTick(t) PROVE CountsOK'
  <2>1. \A u \in Ticks, phase \in {"over", "lost"} :
           tick'[u] = phase <=> tick[u] = phase
    BY <1>3 DEF StartTick, RunsOK
  <2> QED
    BY <1>1, <1>3, <2>1 DEF StartTick, processVars
<1> QED
  BY <1>2, <1>3, RunCounts, TickCounts, DeathCounts, ProcessCounts DEF Next

\* A run of updatePair is counted at most once, under what became of it, except that each
\* failed write may add one; until the first restart, exactly once.
THEOREM RunsCountOnce == Spec => []RunsAreCountedOnce
<1> DEFINE inv == Books /\ PhasesOK /\ CountsOK
<1>1. Init => inv
  BY InitRunsOK, InitMetricsOK, InitPhasesOK, InitCountsOK DEF Books
<1>2. inv /\ [Next]_vars => inv'
  BY NextRunsOK, NextChainOK, NextMetricsOK, NextRunsFollow, NextPhasesOK, NextCountsOK
     DEF Books
<1>3. inv => RunsAreCountedOnce
  BY DEF CountsOK, NoMoreThan, Ended, Tally, RunsAreCountedOnce
<1> QED
  BY <1>1, <1>2, <1>3, PTL DEF Spec

================================================================================

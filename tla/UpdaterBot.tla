------------------------------- MODULE UpdaterBot -------------------------------
(***************************************************************************)
(* The updater bot (bots/updater/src/index.ts, metrics.ts), one process    *)
(* that wakes up on a timer, and the chain as far as it sees it.           *)
(*                                                                         *)
(* A tick checks staleness and then updates every pair concurrently; the   *)
(* timer does not wait for the last tick, so ticks overlap.  Node runs one *)
(* callback at a time: an action is what runs between two awaits.  A       *)
(* transaction that was sent may land late, or never; the client may get   *)
(* an error for one that lands.  The process can be killed at any moment,  *)
(* also while it writes its metrics file, and a write can fail: the record *)
(* throws, after the data have changed.                                    *)
(*                                                                         *)
(* Prices are left out: PriceAggregation says when a pair is skipped, and  *)
(* when its aggregation throws.                                            *)
(***************************************************************************)
EXTENDS Integers, FiniteSetsExt

CONSTANTS
    Pairs,              \* the configured pairs
    MAX_RETRIES,        \* transactions one update may send
    STALE_ORACLE_SLOTS, \* slots without an update after which a pair is stale
    Corrupted,          \* a metrics file that does not parse
    FirstRecords,       \* update slots the metrics file can hold at first, 0 for none
    MaxTicks,           \* ticks explored
    MaxSlot,            \* the last slot explored
    MaxRestarts,        \* process starts explored, after the first
    MaxDiskErrors       \* failing writes explored

ASSUME BotAssumption == /\ IsFiniteSet(Pairs)
                        /\ MAX_RETRIES \in Nat \ {0}
                        /\ STALE_ORACLE_SLOTS \in Nat
                        /\ FirstRecords \subseteq 0 .. 1
                        /\ MaxTicks \in Nat /\ MaxSlot \in Nat \ {0} /\ MaxRestarts \in Nat
                        /\ MaxDiskErrors \in Nat

VARIABLES
    slot,       \* the chain's slot
    last_slot,  \* the slot of the bot's last update of each pair's oracle, 0 for none
    sent,       \* transactions that may still land: tick, pair and attempt
    landed,     \* updates of the bot that landed, each with its slot
    starts,     \* how often the process was started
    up,         \* the process runs
    first,      \* its first tick, which main awaits before it sets the timer
    tick,       \* what each tick is doing
    run,        \* what each tick's updatePair of each pair is doing
    confirmed,  \* runs whose transaction was confirmed to the client
    metrics,    \* PersistentMetrics::data
    file,       \* the metrics file
    diskErrors, \* writes that failed
    limited,    \* an alert was charged less than RATE_LIMIT_MS ago
    alerts      \* alerts charged, and charges that ran out

chainVars == <<slot, last_slot, sent, landed>>
processVars == <<starts, up, first>>
metricsVars == <<metrics, file, diskErrors>>
alertVars == <<limited, alerts>>
vars == <<chainVars, processVars, tick, run, confirmed, metricsVars, alertVars>>

Ticks == 1 .. MaxTicks

\* The counters; lastUpdateSlot is 0 for a pair without one.
Empty == [successful |-> 0, failed |-> 0, skipped |-> 0, staleOracles |-> 0,
          lastUpdateSlot |-> [p \in Pairs |-> 0]]

Waiting == [phase |-> "waiting", attempt |-> 0, seenSlot |-> 0]

Init ==
    /\ slot = 1
    /\ last_slot = [p \in Pairs |-> 0]
    /\ sent = {}
    /\ landed = {}
    /\ starts = 0
    /\ up = TRUE
    /\ first = 1
    /\ tick = [t \in Ticks |-> "due"]
    /\ run = [t \in Ticks |-> [p \in Pairs |-> Waiting]]
    /\ confirmed = {}
    /\ \E s \in FirstRecords :
          metrics = [Empty EXCEPT !.lastUpdateSlot = [p \in Pairs |-> s]]
    /\ file = metrics
    /\ diskErrors = 0
    /\ limited = FALSE
    /\ alerts = [charged |-> 0, expired |-> 0]

--------------------------------------------------------------------------------
(* The chain *)

AdvanceSlot ==
    /\ slot < MaxSlot
    /\ slot' = slot + 1
    /\ UNCHANGED <<last_slot, sent, landed, processVars, tick, run, confirmed, metricsVars, alertVars>>

\* update_price takes one update per slot.  It can refuse one for other reasons
\* (an update by somebody else in the slot, a paused oracle, a price too far from
\* the last).  Such a transaction, or one that expires, stays where it is: nothing
\* makes a transaction land.
Accepts(p) == last_slot[p] < slot

Land(tx) ==
    /\ Accepts(tx.pair)
    /\ last_slot' = [last_slot EXCEPT ![tx.pair] = slot]
    /\ sent' = sent \ {tx}
    /\ landed' = landed \cup {[tx |-> tx, slot |-> slot]}
    /\ UNCHANGED <<slot, processVars, tick, run, confirmed, metricsVars, alertVars>>

Chain == \/ AdvanceSlot
         \/ \E tx \in sent : Land(tx)

--------------------------------------------------------------------------------
(* Metrics and alerts *)

Count(data, counter, n) == [data EXCEPT ![counter] = @ + n]

\* recordSuccess
Succeed(data, p, currentSlot) ==
    [Count(data, "successful", 1) EXCEPT !.lastUpdateSlot = [@ EXCEPT ![p] = currentSlot]]

\* Every record... method changes the data and saves it.
Save(data) == metrics' = data /\ file' = data /\ UNCHANGED diskErrors

\* save() throws: the data stay changed, and the file is as it was or cut short.
SaveFails(data, before) ==
    /\ diskErrors < MaxDiskErrors
    /\ diskErrors' = diskErrors + 1
    /\ metrics' = data
    /\ file' \in {before, Corrupted}

\* One of `times' records of a counter, made one after another, throws.
RecordThrows(counter, times) ==
    \E n \in 1 .. times :
        SaveFails(Count(metrics, counter, n),
                  IF n = 1 THEN file ELSE Count(metrics, counter, n - 1))

\* Slip: the time of the alert is not kept.
AlertUncharged ==
    /\ alerts' = IF limited THEN alerts ELSE [alerts EXCEPT !.charged = @ + 1]
    /\ UNCHANGED limited

\* alertIfStale charges the limit and then sends, unless Telegram is not set up.
\* The tick does not wait for it, and a failure is only logged: what becomes of
\* the message changes nothing.
AlertIfStale ==
    /\ limited' = TRUE
    /\ alerts' = IF limited THEN alerts ELSE [alerts EXCEPT !.charged = @ + 1]

\* Five minutes have passed since the last alert was charged.
LimitExpires ==
    /\ up /\ limited
    /\ limited' = FALSE
    /\ alerts' = [alerts EXCEPT !.expired = @ + 1]
    /\ UNCHANGED <<chainVars, processVars, tick, run, confirmed, metricsVars>>

--------------------------------------------------------------------------------
(* A tick *)

Step(t, p, phase) == run' = [run EXCEPT ![t][p].phase = phase]

\* The run is over, and its local variables with it.
Settle(t, p, phase) == run' = [run EXCEPT ![t][p] = [Waiting EXCEPT !.phase = phase]]

InPhase(t, p, phase) == up /\ run[t][p].phase = phase

\* Ticks are numbered in the order in which the timer fires; main awaits the
\* first before it starts the timer.
StartTick(t) ==
    /\ up
    /\ tick[t] = "due"
    /\ \A s \in first .. t - 1 : tick[s] # "due"
    /\ t > first => tick[first] = "over"
    /\ tick' = [tick EXCEPT ![t] = "started"]
    /\ UNCHANGED <<chainVars, processVars, run, confirmed, metricsVars, alertVars>>

\* checkStaleness: a pair without a recorded update is not stale.
StalePairs(currentSlot) ==
    { p \in Pairs : /\ metrics.lastUpdateSlot[p] # 0
                    /\ currentSlot - metrics.lastUpdateSlot[p] > STALE_ORACLE_SLOTS }

BeginUpdates(t) ==
    /\ tick' = [tick EXCEPT ![t] = "updating"]
    /\ run' = [run EXCEPT ![t] = [p \in Pairs |-> [Waiting EXCEPT !.phase = "fetching"]]]
    /\ UNCHANGED <<chainVars, processVars, confirmed>>

CheckStaleness(t) ==
    /\ up /\ tick[t] = "started"
    /\ IF StalePairs(slot) = {} THEN UNCHANGED <<metricsVars, alertVars>>
       ELSE /\ Save(Count(metrics, "staleOracles", Cardinality(StalePairs(slot))))
            /\ AlertIfStale
    /\ BeginUpdates(t)

\* getSlot failed: .catch(() => 0).
SkipStaleness(t) ==
    /\ up /\ tick[t] = "started"
    /\ UNCHANGED <<metricsVars, alertVars>>
    /\ BeginUpdates(t)

\* A record that ends a run: when it throws, the run is rejected, and is counted
\* as failed besides.
Records(t, p, phase, data) ==
    /\ \/ Settle(t, p, phase) /\ Save(data)
       \/ Settle(t, p, "rejected") /\ SaveFails(data, file)
    /\ UNCHANGED <<chainVars, processVars, tick, confirmed, alertVars>>

\* Slip: counted in memory only.
SkipPairUnsaved(t, p) ==
    /\ InPhase(t, p, "fetching")
    /\ Settle(t, p, "skipped")
    /\ metrics' = Count(metrics, "skipped", 1)
    /\ UNCHANGED <<chainVars, processVars, tick, confirmed, file, diskErrors, alertVars>>

\* Too few sources answered, or they disagree.
SkipPair(t, p) ==
    /\ InPhase(t, p, "fetching")
    /\ Records(t, p, "skipped", Count(metrics, "skipped", 1))

\* The median is infinite: no transaction is sent.
AggregationThrows(t, p) ==
    /\ InPhase(t, p, "fetching")
    /\ Settle(t, p, "rejected")
    /\ UNCHANGED <<chainVars, processVars, tick, confirmed, metricsVars, alertVars>>

SendAttempt(t, p, attempt) ==
    /\ run' = [run EXCEPT ![t][p] = [phase |-> "submitting", attempt |-> attempt,
                                     seenSlot |-> @.seenSlot]]
    /\ sent' = sent \cup {[tick |-> t, pair |-> p, attempt |-> attempt]}
    /\ UNCHANGED <<slot, last_slot, landed, processVars, tick, confirmed, metricsVars, alertVars>>

Submit(t, p) == InPhase(t, p, "fetching") /\ SendAttempt(t, p, 1)

HasLanded(t, p) ==
    \E l \in landed : /\ l.tx.tick = t /\ l.tx.pair = p
                      /\ l.tx.attempt = run[t][p].attempt

\* Slip: the call returns once the transaction is sent.
ConfirmWhenSent(t, p) ==
    /\ InPhase(t, p, "submitting")
    /\ Step(t, p, "locating")
    /\ confirmed' = confirmed \cup {<<t, p>>}
    /\ UNCHANGED <<chainVars, processVars, tick, metricsVars, alertVars>>

Confirm(t, p) ==
    /\ InPhase(t, p, "submitting")
    /\ HasLanded(t, p)
    /\ Step(t, p, "locating")
    /\ confirmed' = confirmed \cup {<<t, p>>}
    /\ UNCHANGED <<chainVars, processVars, tick, metricsVars, alertVars>>

\* Slip: one attempt too many.
AttemptFailsLate(t, p) ==
    /\ InPhase(t, p, "submitting")
    /\ IF run[t][p].attempt > MAX_RETRIES THEN Settle(t, p, "rejected")
       ELSE Step(t, p, "backoff")
    /\ UNCHANGED <<chainVars, processVars, tick, confirmed, metricsVars, alertVars>>

\* Refused, timed out or not sent: retryWithBackoff catches every error alike.
AttemptFails(t, p) ==
    /\ InPhase(t, p, "submitting")
    /\ IF run[t][p].attempt = MAX_RETRIES THEN Settle(t, p, "rejected")
       ELSE Step(t, p, "backoff")
    /\ UNCHANGED <<chainVars, processVars, tick, confirmed, metricsVars, alertVars>>

\* Slip: the attempt is not counted.
RetryForever(t, p) == InPhase(t, p, "backoff") /\ SendAttempt(t, p, run[t][p].attempt)

Retry(t, p) == InPhase(t, p, "backoff") /\ SendAttempt(t, p, run[t][p].attempt + 1)

\* getSlot answers with the slot it is now; the callback runs later.
LocateSlot(t, p) ==
    /\ InPhase(t, p, "locating")
    /\ run' = [run EXCEPT ![t][p] = [phase |-> "recording", attempt |-> @.attempt,
                                     seenSlot |-> slot]]
    /\ UNCHANGED <<chainVars, processVars, tick, confirmed, metricsVars, alertVars>>

\* Slip: the retries enclose getSlot too.
LocateFailsAndRetries(t, p) ==
    /\ InPhase(t, p, "locating")
    /\ run[t][p].attempt < MAX_RETRIES
    /\ Step(t, p, "backoff")
    /\ UNCHANGED <<chainVars, processVars, tick, confirmed, metricsVars, alertVars>>

\* Slip: counted here and again when the tick ends.
LocateFailsCounted(t, p) ==
    /\ InPhase(t, p, "locating")
    /\ Settle(t, p, "rejected")
    /\ Save(Count(metrics, "failed", 1))
    /\ UNCHANGED <<chainVars, processVars, tick, confirmed, alertVars>>

LocateFails(t, p) ==
    /\ InPhase(t, p, "locating")
    /\ Settle(t, p, "rejected")
    /\ UNCHANGED <<chainVars, processVars, tick, confirmed, metricsVars, alertVars>>

RecordSuccess(t, p) ==
    /\ InPhase(t, p, "recording")
    /\ Records(t, p, "succeeded", Succeed(metrics, p, run[t][p].seenSlot))

Settled == {"succeeded", "skipped", "rejected"}

Rejected(t) == { p \in Pairs : run[t][p].phase = "rejected" }

\* Promise.allSettled resolves.
MayEnd(t) ==
    /\ tick[t] = "updating"
    /\ \A p \in Pairs : run[t][p].phase \in Settled

\* The rejected updates are counted as failures.
EndTick(t) ==
    /\ up /\ MayEnd(t)
    /\ IF Rejected(t) = {} THEN UNCHANGED metricsVars
       ELSE Save(Count(metrics, "failed", Cardinality(Rejected(t))))
    /\ tick' = [tick EXCEPT ![t] = "over"]
    /\ UNCHANGED <<chainVars, processVars, run, confirmed, alertVars>>

UpdatePair(t, p) ==
    \/ SkipPair(t, p) \/ AggregationThrows(t, p) \/ Submit(t, p)
    \/ Confirm(t, p) \/ AttemptFails(t, p) \/ Retry(t, p)
    \/ LocateSlot(t, p) \/ LocateFails(t, p) \/ RecordSuccess(t, p)

Tick(t) == CheckStaleness(t) \/ SkipStaleness(t) \/ EndTick(t)

--------------------------------------------------------------------------------
(* The process *)

\* What was running is forgotten, and when the last alert was; what was sent can
\* still land.  A run that had settled stays so on the books.
Stop ==
    /\ up' = FALSE
    /\ tick' = [t \in Ticks |-> IF tick[t] \in {"started", "updating"} THEN "lost" ELSE tick[t]]
    /\ run' = [t \in Ticks |-> [p \in Pairs |->
                  IF tick[t] = "updating" /\ run[t][p].phase \notin Settled
                  THEN [Waiting EXCEPT !.phase = "lost"] ELSE run[t][p]]]
    /\ limited' = FALSE
    /\ UNCHANGED <<chainVars, starts, first, confirmed, alerts>>

\* A callback that saves may be running.
Saving == \E t \in Ticks : \/ \E p \in Pairs : \/ InPhase(t, p, "fetching")
                                               \/ InPhase(t, p, "recording")
                           \/ tick[t] = "started" /\ StalePairs(slot) # {}
                           \/ tick[t] = "updating" /\ Rejected(t) # {}

\* writeFileSync truncates the file before it writes.
Crash ==
    /\ up
    /\ file' \in {file} \cup IF Saving THEN {Corrupted} ELSE {}
    /\ UNCHANGED <<metrics, diskErrors>>
    /\ Stop

\* Nothing catches what a tick or main throws: an unhandled rejection ends the
\* process.  The records of checkStaleness and of tick itself are such places.
Die(t) ==
    /\ up
    /\ \/ /\ tick[t] = "started"
          /\ RecordThrows("staleOracles", Cardinality(StalePairs(slot)))
       \/ MayEnd(t) /\ RecordThrows("failed", Cardinality(Rejected(t)))
    /\ Stop

\* SIGTERM: flush, then process.exit without waiting for the ticks.
Shutdown ==
    /\ up
    /\ Save(metrics) \/ SaveFails(metrics, file)
    /\ Stop

\* A file that does not parse counts as none.
Restart ==
    /\ ~ up
    /\ starts < MaxRestarts
    /\ \E t \in Ticks : tick[t] = "due"
    /\ starts' = starts + 1
    /\ up' = TRUE
    /\ first' = Min({ t \in Ticks : tick[t] = "due" })
    /\ metrics' = IF file = Corrupted THEN Empty ELSE file
    /\ UNCHANGED <<chainVars, tick, run, confirmed, file, diskErrors, alertVars>>

--------------------------------------------------------------------------------
Next ==
    \/ Chain
    \/ \E t \in Ticks : \/ StartTick(t) \/ Tick(t) \/ Die(t)
                        \/ \E p \in Pairs : UpdatePair(t, p)
    \/ Crash \/ Shutdown \/ Restart \/ LimitExpires

\* Every request is answered or fails, every callback runs.  Nothing is assumed
\* of the chain, of other updaters, or of what a request is answered with.
Fairness == \A t \in Ticks : /\ WF_vars(Tick(t))
                             /\ \A p \in Pairs : WF_vars(UpdatePair(t, p))

Spec == Init /\ [][Next]_vars /\ Fairness
================================================================================

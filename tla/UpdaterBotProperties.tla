-------------------------- MODULE UpdaterBotProperties --------------------------
(***************************************************************************)
(* What the bot's metrics say of the chain, and that its ticks end.        *)
(***************************************************************************)
EXTENDS UpdaterBot

Metrics == [successful : Nat, failed : Nat, skipped : Nat, staleOracles : Nat,
            lastUpdateSlot : [Pairs -> 0 .. MaxSlot]]

Transactions == [tick : Ticks, pair : Pairs, attempt : 1 .. MAX_RETRIES]

\* Types; in particular no run sends more than MAX_RETRIES transactions.
BotTypeOK ==
    /\ slot \in 1 .. MaxSlot
    /\ last_slot \in [Pairs -> 0 .. slot]
    /\ sent \subseteq Transactions
    /\ landed \subseteq [tx : Transactions, slot : 1 .. slot]
    /\ \A t \in Ticks, p \in Pairs : run[t][p].attempt \in 0 .. MAX_RETRIES
    /\ metrics \in Metrics
    /\ file \in Metrics \cup {Corrupted}

RunsIn(phase) == { r \in Ticks \X Pairs : run[r[1]][r[2]].phase = phase }

\* Runs that ended in an error which their tick has counted, and those which it has
\* counted or died counting.
CountedFailures == { r \in RunsIn("rejected") : tick[r[1]] = "over" }
TakenFailures == { r \in RunsIn("rejected") : tick[r[1]] \in {"over", "lost"} }

\* A run of updatePair is counted at most once, under what became of it, though
\* successes and skips are counted when it ends and failures when its tick does,
\* ticks overlap and the process is killed; until the first restart, exactly once.
\* Only a record that could not be written can count a run under two headings: each
\* failed write adds at most one count.
RunsAreCountedOnce ==
    /\ metrics.successful + metrics.skipped + metrics.failed <=
          Cardinality(RunsIn("succeeded")) + Cardinality(RunsIn("skipped"))
              + Cardinality(TakenFailures) + diskErrors
    /\ diskErrors = 0 =>
          /\ metrics.successful <= Cardinality(RunsIn("succeeded"))
          /\ metrics.skipped <= Cardinality(RunsIn("skipped"))
          /\ metrics.failed <= Cardinality(CountedFailures)
    /\ diskErrors = 0 /\ starts = 0 =>
          /\ metrics.successful = Cardinality(RunsIn("succeeded"))
          /\ metrics.skipped = Cardinality(RunsIn("skipped"))
          /\ metrics.failed = Cardinality(CountedFailures)

Total(data) == data.successful + data.skipped + data.failed + data.staleOracles

\* "Persistent metrics ... survives restarts" (bots/updater/RUNBOOK.md:81): whatever
\* killed the process, the next one starts from the counters it had, less one record
\* for each write that failed; only a file that was being written is lost.
MetricsSurviveRestart ==
    [][starts' > starts =>
          \/ file = Corrupted
          \/ Total(metrics) - Total(metrics') \in 0 .. diskErrors]_vars

\* The end of a run that had its own update in the chain by the given slot: not
\* that of another run, of an overlapping tick or of an earlier one.
RecordsItsUpdate(t, p, recorded) ==
    /\ InPhase(t, p, "recording") /\ run'[t][p].phase \in Settled
    /\ \E l \in landed : l.tx.tick = t /\ l.tx.pair = p /\ l.slot <= recorded

\* A pair's record changes only at the end of a run, and to a slot by which that
\* run's own update had landed: with a confirmation and a getSlot in between, each
\* answered while other ticks send and record updates of the same pair, the bot
\* never notes an update that did not happen, or a slot before it happened.  (The
\* record can go back: the run that recorded last need not have landed last.)
RecordedSlotFollowsItsUpdate ==
    [][\A p \in Pairs : metrics'.lastUpdateSlot[p] # metrics.lastUpdateSlot[p] =>
          \/ starts' > starts
          \/ \E t \in Ticks : RecordsItsUpdate(t, p, metrics'.lastUpdateSlot[p])]_vars

\* A run whose transaction was confirmed sends no other one, whatever fails after
\* the confirmation.
ConfirmedIsNotResent ==
    [][\A tx \in sent' \ sent : <<tx.tick, tx.pair>> \notin confirmed]_vars

\* Every tick that starts ends, or its process does: retries are bounded, and
\* nothing the chain or an overlapping tick does keeps a run from settling.  (A tick
\* starts once and the ticks are finitely many: all of them end when none is left
\* in progress for good.)
TicksEnd == <>[](\A t \in Ticks : tick[t] \notin {"started", "updating"})

\* "Rate-limited to once per 5 minutes" (bots/updater/src/alerts.ts:63): within five
\* minutes one alert is charged, by whichever of the overlapping ticks comes first;
\* the time of the last one is charged whether or not Telegram took the message,
\* and only a restart forgets it.
AlertsAreRateLimited == alerts.charged <= 1 + alerts.expired + starts
================================================================================

------------------------------ MODULE EventIndexer ------------------------------
(***************************************************************************)
(* The event indexer (scripts/index-events.ts), the table it fills, and    *)
(* what reads the events: verify-indexer.ts, calculate-rewards.ts, the     *)
(* SDK's event readers and the API's /history and /historical.             *)
(*                                                                         *)
(* The chain is a ledger of the transactions that mention the program.     *)
(* One that failed has changed nothing, but its logs, with the events of   *)
(* what it undid, are kept.  A transaction may call other programs, before *)
(* or after this one or without it; what they log in the form of an        *)
(* OracleUpdate is read as one, of an oracle it names.  The indexer hears  *)
(* of successful transactions through a stream that starts when it         *)
(* subscribes and, once ended, is never opened again.  Its handler runs    *)
(* once per transaction and is not awaited: the inserts of several         *)
(* transactions are in flight together.  The table survives the process.   *)
(***************************************************************************)
EXTENDS SwapMath, Sequences, SequencesExt

CONSTANTS
    Oracles,        \* the oracles of the program
    Batches,        \* what a transaction does, in its order: it updates an oracle, or
                    \* has another program log an event
    Submissions,    \* prices and updaters of transactions
    Verified,       \* --oracle of verify-indexer
    CAPACITY,       \* observations a buffer keeps
    Windows,        \* --window of verify-indexer
    Limits,         \* how many transactions, rows or buckets a reader asks for
    Intervals,      \* interval of /historical
    MaxSlot,        \* the last slot explored
    MaxTransactions,
    MaxErrors,      \* failing inserts explored
    MaxStarts       \* process starts explored

Events == [oracle : Oracles, price : Nat, slot : Nat, updater : STRING,
           cumulative_price : Nat]

ASSUME IndexerAssumption ==
    /\ \A batch \in Batches :
          /\ batch \in Seq(Oracles \cup Events)
          /\ \A i, j \in DOMAIN batch : batch[i] = batch[j] /\ batch[i] \in Oracles => i = j
    /\ Submissions \subseteq [price : Nat, updater : STRING]
    /\ Verified \subseteq Oracles
    /\ Windows \subseteq Nat /\ Limits \subseteq Nat /\ Intervals \subseteq Nat \ {0}
    /\ CAPACITY \in Nat \ {0}
    /\ MaxSlot \in Nat \ {0} /\ MaxTransactions \in Nat /\ MaxErrors \in Nat /\ MaxStarts \in Nat

VARIABLES
    slot,       \* the chain's slot
    ledger,     \* its transactions, with their logs
    updates,    \* the updates of each oracle that took effect, in order
    rows,       \* the table oracle_updates
    proc,       \* the indexer: "down", "streaming", "deaf" or "closing"
    from,       \* the first transaction of its stream
    next,       \* the one the stream delivers next
    inserts,    \* the events each handler has still to insert, the first in flight
    errors,     \* inserts that failed
    starts,     \* how often the indexer was started
    check       \* the run of verify-indexer

chainVars == <<slot, ledger, updates>>
indexerVars == <<proc, from, next, inserts, errors, starts>>
vars == <<chainVars, rows, indexerVars, check>>

NoCheck == [step |-> "none", oracle |-> "", window |-> 0, chainTwap |-> 0,
            currentSlot |-> 0, pastRows |-> {}, moved |-> FALSE]

Init ==
    /\ slot = 1
    /\ ledger = <<>>
    /\ updates = [o \in Oracles |-> <<>>]
    /\ rows = {}
    /\ proc = "down"
    /\ from = 1 /\ next = 1
    /\ inserts = [t \in 1 .. MaxTransactions |-> <<>>]
    /\ errors = 0 /\ starts = 0
    /\ check = NoCheck

\* What verify-indexer compares may have changed since it first read it.
Moved == IF check = NoCheck THEN check ELSE [check EXCEPT !.moved = TRUE]

--------------------------------------------------------------------------------
(* The chain *)

\* The oracle account after its updates.
Account(o) ==
    IF updates[o] = <<>> THEN [cumulative_price |-> 0, last_price |-> 0, last_slot |-> 0]
    ELSE LET e == Last(updates[o])
         IN  [cumulative_price |-> e.cumulative_price, last_price |-> e.price,
              last_slot |-> e.slot]

AdvanceSlot ==
    /\ slot < MaxSlot
    /\ slot' = slot + 1
    /\ check' = Moved
    /\ UNCHANGED <<ledger, updates, rows, indexerVars>>

\* The OracleUpdate event of an accepted update.
OracleUpdate(o, s) ==
    [oracle |-> o, price |-> s.price, slot |-> slot, updater |-> s.updater,
     cumulative_price |-> ExtendedCumulative(Account(o), slot)]

\* A log line is an update's event, or what another program made it.
Logged(item, s) == IF item \in Oracles THEN OracleUpdate(item, s) ELSE item

\* A transaction updates some oracles and calls other programs; it may fail after that.
Transact(batch, s, failed) ==
    /\ Len(ledger) < MaxTransactions
    /\ \A o \in Range(batch) \cap Oracles : Account(o).last_slot < slot
    /\ ledger' = Append(ledger,
                     [slot |-> slot, failed |-> failed,
                      logs |-> [i \in DOMAIN batch |-> Logged(batch[i], s)],
                      foreign |-> { i \in DOMAIN batch : batch[i] \notin Oracles }])
    /\ updates' = [o \in Oracles |-> IF ~ failed /\ o \in Range(batch)
                                     THEN Append(updates[o], OracleUpdate(o, s))
                                     ELSE updates[o]]
    /\ check' = Moved
    /\ UNCHANGED <<slot, rows, indexerVars>>

--------------------------------------------------------------------------------
(* The indexer *)

\* The subscription starts with the current block: what came before is not sent.
Start ==
    /\ proc = "down" /\ starts < MaxStarts
    /\ starts' = starts + 1
    /\ proc' = "streaming"
    /\ \E t \in 1 .. Len(ledger) + 1 :
          /\ \A k \in t .. Len(ledger) : ledger[k].slot = slot
          /\ from' = t /\ next' = t
    /\ UNCHANGED <<chainVars, rows, inserts, errors, check>>

\* Slip: the subscription does not leave failed transactions out.
DeliverFailed ==
    /\ proc = "streaming"
    /\ next <= Len(ledger)
    /\ next' = next + 1
    /\ inserts' = [inserts EXCEPT ![next] = ledger[next].logs]
    /\ UNCHANGED <<chainVars, rows, proc, from, errors, starts, check>>

\* The subscription leaves failed transactions out.  processUpdate decodes the
\* logs, whichever program wrote them, and begins with the first event.
Deliver ==
    /\ proc = "streaming"
    /\ next <= Len(ledger)
    /\ next' = next + 1
    /\ inserts' = IF ledger[next].failed THEN inserts
                  ELSE [inserts EXCEPT ![next] = ledger[next].logs]
    /\ UNCHANGED <<chainVars, rows, proc, from, errors, starts, check>>

\* The row of the event at the head of a handler; its slot is the transaction's,
\* whatever the event says.
Row(t) ==
    LET e == Head(inserts[t])
    IN  [tx |-> t, oracle |-> e.oracle, price |-> e.price,
         cumulative_price |-> e.cumulative_price, slot |-> ledger[t].slot,
         updater |-> e.updater]

\* Slip: the conflict that is ignored is one of slots, and of any oracle.
InsertedBySlot(row) ==
    IF \E r \in rows : r.slot = row.slot THEN rows ELSE rows \cup {row}

\* ON CONFLICT (tx_signature, oracle_pubkey) DO NOTHING; a row of the same slot and
\* oracle violates the other unique index, which is caught and logged.
Inserted(row) ==
    IF \E r \in rows : /\ r.oracle = row.oracle
                       /\ r.tx = row.tx \/ r.slot = row.slot
    THEN rows ELSE rows \cup {row}

InsertEnds(t, newRows) ==
    /\ inserts[t] # <<>>
    /\ rows' = newRows
    /\ inserts' = [inserts EXCEPT ![t] = Tail(@)]
    /\ check' = IF rows' = rows THEN check ELSE Moved
    /\ UNCHANGED <<chainVars, proc, from, next, starts>>

\* Slip: a row that is there already is tried again.
InsertAgain(t) ==
    /\ inserts[t] # <<>>
    /\ rows' = Inserted(Row(t))
    /\ inserts' = IF rows' = rows THEN inserts ELSE [inserts EXCEPT ![t] = Tail(@)]
    /\ check' = IF rows' = rows THEN check ELSE Moved
    /\ UNCHANGED <<chainVars, proc, from, next, starts, errors>>

Insert(t) == inserts[t] # <<>> /\ InsertEnds(t, Inserted(Row(t))) /\ UNCHANGED errors

\* The query throws, before or after the table was changed; the next event follows.
InsertFails(t) ==
    /\ errors < MaxErrors /\ inserts[t] # <<>>
    /\ errors' = errors + 1
    /\ InsertEnds(t, rows) \/ InsertEnds(t, Inserted(Row(t)))

\* "end" and "error" are logged.  The process stays up.
StreamEnds ==
    /\ proc = "streaming"
    /\ proc' = "deaf"
    /\ UNCHANGED <<chainVars, rows, from, next, inserts, errors, starts, check>>

\* Slip: the pool does not refuse queries while it ends.
ShutdownWhenIdle ==
    /\ proc \in {"streaming", "deaf"}
    /\ proc' = "closing"
    /\ UNCHANGED <<chainVars, rows, from, next, inserts, errors, starts, check>>

\* SIGTERM: the stream is destroyed; pool.end() lets the queries in flight finish
\* and refuses new ones, which the handlers log.
Shutdown ==
    /\ proc \in {"streaming", "deaf"}
    /\ proc' = "closing"
    /\ inserts' = [t \in DOMAIN inserts |->
                      IF inserts[t] = <<>> THEN <<>> ELSE <<Head(inserts[t])>>]
    /\ UNCHANGED <<chainVars, rows, from, next, errors, starts, check>>

Exit ==
    /\ proc = "closing"
    /\ \A t \in DOMAIN inserts : inserts[t] = <<>>
    /\ proc' = "down"
    /\ UNCHANGED <<chainVars, rows, from, next, inserts, errors, starts, check>>

Crash ==
    /\ proc # "down"
    /\ proc' = "down"
    /\ inserts' = [t \in DOMAIN inserts |-> <<>>]
    /\ UNCHANGED <<chainVars, rows, from, next, errors, starts, check>>

--------------------------------------------------------------------------------
(* verify-indexer *)

RowsOf(o) == { r \in rows : r.oracle = o }

\* ORDER BY slot DESC LIMIT n
NewestRows(some, n) == { r \in some : Cardinality({ x \in some : x.slot > r.slot }) < n }

\* The first three checks of a run, of the table alone: one of them fails.
BadRows(o) ==
    \/ RowsOf(o) = {}
    \/ \E r, q \in RowsOf(o) : r # q /\ r.slot = q.slot
    \/ \E r, q \in RowsOf(o) : r.slot < q.slot /\ q.cumulative_price < r.cumulative_price

VerifyRows(o, window) ==
    /\ check = NoCheck
    /\ check' = [NoCheck EXCEPT !.step = "chain", !.oracle = o, !.window = window]
    /\ UNCHANGED <<chainVars, rows, indexerVars>>

\* computeSwapFromChain, its three reads taken at one moment: the newest of the
\* observations in the buffer that is old enough, and the default staleness.
ChainTwap(o, window) ==
    LET n    == Len(updates[o])
        past == { k \in 1 .. n : k > n - CAPACITY
                                 /\ updates[o][k].slot < slot - window + 1 }
    IN  IF slot - Account(o).last_slot > window THEN Fails("Stale")
        ELSE IF past = {} THEN Fails("Insufficient")
        ELSE ComputeSwapBN(ExtendedCumulative(Account(o), slot),
                           updates[o][Max(past)].cumulative_price,
                           slot, updates[o][Max(past)].slot)

\* An error skips the comparison.
ReadChain ==
    /\ check.step = "chain"
    /\ LET twap == ChainTwap(check.oracle, check.window)
       IN  check' = IF twap.error # "none" THEN NoCheck
                    ELSE [check EXCEPT !.step = "slot", !.chainTwap = twap.swap]
    /\ UNCHANGED <<chainVars, rows, indexerVars>>

ReadSlot ==
    /\ check.step = "slot"
    /\ check' = [check EXCEPT !.step = "past", !.currentSlot = slot]
    /\ UNCHANGED <<chainVars, rows, indexerVars>>

QueryPast ==
    /\ check.step = "past"
    /\ LET old == { r \in RowsOf(check.oracle) :
                       r.slot <= check.currentSlot - check.window }
       IN  check' = [check EXCEPT !.step = "latest", !.pastRows = NewestRows(old, 1)]
    /\ UNCHANGED <<chainVars, rows, indexerVars>>

\* Slip: the price is not extended to the current slot.
DbTwapToLastRow(past, latest, currentSlot) ==
    DivBN(latest.cumulative_price - past.cumulative_price, currentSlot - past.slot)

DbTwap(past, latest, currentSlot) ==
    IF currentSlot = past.slot THEN 0
    ELSE DivBN(latest.cumulative_price + latest.price * (currentSlot - latest.slot)
                   - past.cumulative_price,
               currentSlot - past.slot)

\* 1 percent of what the chain says is tolerated.
Mismatch(chainTwap, dbTwap) ==
    (IF chainTwap > dbTwap THEN chainTwap - dbTwap ELSE dbTwap - chainTwap)
        > DivBN(chainTwap, 100)

\* There are two rows to compare the chain with, and they say something else.
TwapFails ==
    \E past \in check.pastRows, latest \in NewestRows(RowsOf(check.oracle), 1) :
        Mismatch(check.chainTwap, DbTwap(past, latest, check.currentSlot))

\* The last query; the run ends, with the number of failures as its exit code.
QueryLatest ==
    /\ check.step = "latest"
    /\ check' = NoCheck
    /\ UNCHANGED <<chainVars, rows, indexerVars>>

Verify ==
    \/ \E o \in Verified, w \in Windows : VerifyRows(o, w)
    \/ ReadChain \/ ReadSlot \/ QueryPast \/ QueryLatest

--------------------------------------------------------------------------------
(* Readers *)

\* Slip: the limit is applied before the oracle.
FetchNewestOfAll(o, limit) == { r \in NewestRows(rows, limit) : r.oracle = o }

\* The rows rewards are calculated from.
FetchEventsFromPostgres(o, limit) == NewestRows(RowsOf(o), limit)

\* The updaters of some events, how many each made, and from when to when.
CalculateDistribution(events) ==
    [u \in { e.updater : e \in events } |->
        LET mine == { e.slot : e \in { e \in events : e.updater = u } }
        IN  [updateCount |-> Cardinality({ e \in events : e.updater = u }),
             firstSlot |-> Min(mine), lastSlot |-> Max(mine)]]

\* Slip: a bucket is named by the multiple above its slots.
BucketAbove(r, interval) == ((r.slot + interval - 1) \div interval) * interval

Bucket(r, interval) == (r.slot \div interval) * interval

\* The rows of /historical between two slots, in buckets of `interval' slots; the
\* newest `limit' buckets.
Buckets(o, from_slot, to_slot, interval, limit) ==
    LET range == { r \in RowsOf(o) : from_slot <= r.slot /\ r.slot <= to_slot }
        starting == { Bucket(r, interval) : r \in range }
        In(b) == { r \in range : Bucket(r, interval) = b }
    IN  { [slot |-> b, updateCount |-> Cardinality(In(b)),
           minPrice |-> Min({ r.price : r \in In(b) }),
           maxPrice |-> Max({ r.price : r \in In(b) }),
           firstSlot |-> Min({ r.slot : r \in In(b) }),
           lastSlot |-> Max({ r.slot : r \in In(b) })] :
          b \in { b \in starting : Cardinality({ c \in starting : c > b }) < limit } }

\* The newest `limit' transactions that mention an oracle, to update it, whatever
\* became of them.
Mentioning(o, limit) ==
    LET all == { t \in DOMAIN ledger :
                    \E i \in DOMAIN ledger[t].logs \ ledger[t].foreign :
                       ledger[t].logs[i].oracle = o }
    IN  { t \in all : Cardinality({ k \in all : k > t }) < limit }

\* getOracleUpdates: every OracleUpdate event in their logs.
GetOracleUpdates(o, limit) ==
    UNION { Range(ledger[t].logs) : t \in Mentioning(o, limit) }

--------------------------------------------------------------------------------
Chain == \/ AdvanceSlot
         \/ \E batch \in Batches, s \in Submissions, failed \in BOOLEAN :
               Transact(batch, s, failed)

Indexer == \/ Start \/ Deliver \/ StreamEnds \/ Shutdown \/ Exit \/ Crash
           \/ \E t \in DOMAIN inserts : Insert(t) \/ InsertFails(t)

Next == Chain \/ Indexer \/ Verify

\* A stream that is open delivers, and a query ends.
Fairness == /\ WF_vars(Deliver)
            /\ \A t \in 1 .. MaxTransactions : WF_vars(Insert(t))

Spec == Init /\ [][Next]_vars /\ Fairness
================================================================================

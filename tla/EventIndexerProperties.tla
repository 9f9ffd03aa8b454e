------------------------- MODULE EventIndexerProperties -------------------------
(***************************************************************************)
(* What the table says of the chain, and what is read from either.         *)
(***************************************************************************)
EXTENDS EventIndexer

\* Types; a stream is never ahead of the ledger.
IndexerTypeOK ==
    /\ slot \in 1 .. MaxSlot
    /\ Len(ledger) <= MaxTransactions
    /\ proc \in {"down", "streaming", "deaf", "closing"}
    /\ from <= next /\ next <= Len(ledger) + 1
    /\ \A t \in DOMAIN inserts : inserts[t] # <<>> => proc # "down" /\ t < next
    /\ proc = "closing" => \A t \in DOMAIN inserts : Len(inserts[t]) <= 1

\* The update a row is of.
UpdateOf(r) == [oracle |-> r.oracle, price |-> r.price, slot |-> r.slot,
                updater |-> r.updater, cumulative_price |-> r.cumulative_price]

\* A row says what a line of its transaction says, of the transaction's slot.
IsOfLine(r, i) ==
    LET e == ledger[r.tx].logs[i]
    IN  /\ r.oracle = e.oracle /\ r.price = e.price /\ r.updater = e.updater
        /\ r.cumulative_price = e.cumulative_price
        /\ r.slot = ledger[r.tx].slot

\* The rows of an oracle that are none of its updates.
ForeignRows(o) == { r \in RowsOf(o) : UpdateOf(r) \notin Range(updates[o]) }

\* Every row is a line that a successful transaction logged, it is an update that took
\* effect unless another program logged it, and no slot of an oracle has two:
\* transactions are delivered again after a restart, handlers overlap, writes fail
\* halfway and the process is killed, and none of it makes a row that verify-indexer's
\* checks of the table alone would reject.  Lines of other programs can.
RowsAreOfConfirmedLogs ==
    /\ \A r \in rows :
          /\ r.tx \in DOMAIN ledger /\ ~ ledger[r.tx].failed
          /\ \E i \in DOMAIN ledger[r.tx].logs :
                /\ IsOfLine(r, i)
                /\ i \in ledger[r.tx].foreign \/ UpdateOf(r) \in Range(updates[r.oracle])
    /\ \A r, q \in rows : r.oracle = q.oracle /\ r.slot = q.slot => r = q
    /\ \A o \in Oracles : BadRows(o) => RowsOf(o) = {} \/ ForeignRows(o) # {}

\* The events of a transaction's own updates.
OwnLines(t) == DOMAIN ledger[t].logs \ ledger[t].foreign

Stored(t, i) == \E r \in rows : UpdateOf(r) = ledger[t].logs[i]

\* The place of an update is taken: the table has one row for an oracle and a slot.
Displaced(t, i) == \E r \in ForeignRows(ledger[t].logs[i].oracle) : r.slot = ledger[t].slot

\* An update that was delivered to a process that runs is stored or about to be, as
\* long as no write failed and no line of another program has its place: a row that is
\* missing was missed by a process that was not there, that did not listen any more, or
\* that was told to stop.
DeliveredIsStored ==
    proc \in {"streaming", "deaf"} /\ errors = 0 =>
        \A t \in from .. next - 1 :
            ~ ledger[t].failed =>
                \A i \in OwnLines(t) :
                    \/ Stored(t, i) \/ Displaced(t, i)
                    \/ ledger[t].logs[i] \in Range(inserts[t])

Confirmed(t) == t \in DOMAIN ledger /\ ~ ledger[t].failed

StoredAll(t) == Confirmed(t) /\ \A i \in OwnLines(t) : Stored(t, i) \/ Displaced(t, i)

\* The updates of a transaction that is confirmed while the stream is open all get rows,
\* unless the stream ends, the process does, a write fails, or a line of another program
\* has their place.
UpdatesReachTheTable ==
    \A t \in 1 .. MaxTransactions :
        Confirmed(t) /\ proc = "streaming" /\ from <= t
            ~> StoredAll(t) \/ proc # "streaming" \/ errors > 0

Indexed(o) == { UpdateOf(r) : r \in RowsOf(o) } = Range(updates[o])

\* verify-indexer reports a mismatch only of a table that misses an update or has a row
\* that is none, or when the chain or the table moved while it read them: the average
\* from the newest old enough row is the program's, from a buffer that keeps fewer
\* observations.
VerifierBlamesGaps ==
    check.step = "latest" /\ TwapFails => check.moved \/ ~ Indexed(check.oracle)

\* Rewards calculated from the table count for nobody more than the updates of theirs
\* that took effect and the rows that lines of other programs made, and when the table
\* holds the updates and nothing else they are those of the newest ones.
RewardsAreOfNewestUpdates ==
    \A o \in Oracles, limit \in Limits :
        LET paid   == FetchEventsFromPostgres(o, limit)
            newest == { k \in DOMAIN updates[o] : k > Len(updates[o]) - limit }
            shares == CalculateDistribution(paid)
            earned == CalculateDistribution({ updates[o][k] : k \in newest })
        IN  /\ \A u \in DOMAIN shares :
                  shares[u].updateCount <=
                      Cardinality({ k \in DOMAIN updates[o] : updates[o][k].updater = u })
                      + Cardinality({ r \in ForeignRows(o) : r.updater = u })
            /\ Indexed(o) => shares = earned

\* The buckets of /historical are disjoint stretches of slots which hold every row
\* from the first slot of the oldest one on exactly once.
BucketsPartitionRows ==
    \A o \in Oracles, interval \in Intervals, limit \in Limits :
        LET buckets == Buckets(o, 0, slot, interval, limit)
        IN  /\ \A b \in buckets : /\ b.slot <= b.firstSlot
                                  /\ b.lastSlot < b.slot + interval
            /\ buckets # {} =>
                  SumFunction([b \in buckets |-> b.updateCount]) =
                      Cardinality({ r \in RowsOf(o) :
                                       r.slot >= Min({ b.slot : b \in buckets }) })

--------------------------------------------------------------------------------
(* What the SDK says and does not do *)

\* "Fetch recent OracleUpdate events for a given oracle address" (client.ts:370): they
\* are updates of that oracle.
HistoryIsOfTheOracle ==
    \A o \in Oracles, limit \in Limits : GetOracleUpdates(o, limit) \subseteq Range(updates[o])
================================================================================

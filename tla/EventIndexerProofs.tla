---------------------------- MODULE EventIndexerProofs ----------------------------
(***************************************************************************)
(* Theorems about EventIndexer, for any oracles and transactions, any      *)
(* number of restarts and failing writes, and any schedule of the          *)
(* handlers: what is in the table happened, and what the handlers were     *)
(* given is not lost by them.                                              *)
(***************************************************************************)
EXTENDS EventIndexerProperties, SumLemmas

Transactions == [slot : Nat \ {0}, failed : BOOLEAN, logs : Seq(Events), foreign : SUBSET Nat]

--------------------------------------------------------------------------------
(* The chain *)

ChainTypeOK == /\ slot \in Nat \ {0}
               /\ ledger \in Seq(Transactions)
               /\ Len(ledger) <= MaxTransactions
               /\ updates \in [Oracles -> Seq(Events)]

\* The updates of an oracle are in the order of their slots, and its cumulative
\* price does not fall.
UpdatesOK ==
    \A o \in Oracles : \A k \in DOMAIN updates[o] :
        /\ updates[o][k].oracle = o
        /\ updates[o][k].slot <= slot
        /\ \A j \in DOMAIN updates[o] : j < k =>
              /\ updates[o][j].slot < updates[o][k].slot
              /\ updates[o][j].cumulative_price <= updates[o][k].cumulative_price

\* The own events of a transaction that did not fail are updates, of its slot.
LogsOK ==
    \A t \in DOMAIN ledger : \A i \in OwnLines(t) :
        ~ ledger[t].failed =>
            LET e == ledger[t].logs[i]
            IN  /\ e.slot = ledger[t].slot
                /\ \E k \in DOMAIN updates[e.oracle] : updates[e.oracle][k] = e

SlotsOK == \A t \in DOMAIN ledger : ledger[t].slot <= slot

ChainOK == ChainTypeOK /\ UpdatesOK /\ LogsOK /\ SlotsOK

LEMMA EventsOfSequence ==
    ASSUME NEW s \in Seq(Events), NEW k \in DOMAIN s
    PROVE  /\ s[k] \in Events
           /\ s[k].oracle \in Oracles /\ s[k].price \in Nat /\ s[k].slot \in Nat
           /\ s[k].updater \in STRING /\ s[k].cumulative_price \in Nat
<1>1. s[k] \in Events
  OBVIOUS
<1> QED
  BY <1>1 DEF Events

LEMMA TransactionTypes ==
    ASSUME ChainTypeOK, NEW t \in DOMAIN ledger
    PROVE  ledger[t].logs \in Seq(Events) /\ ledger[t].slot \in Nat \ {0}
<1>1. ledger[t] \in Transactions
  BY DEF ChainTypeOK
<1> QED
  BY <1>1 DEF Transactions

LEMMA InitChainOK == Init => ChainOK
BY IndexerAssumption DEF Init, ChainOK, ChainTypeOK, UpdatesOK, LogsOK, SlotsOK

\* The account of an oracle is what its last update left.
LEMMA AccountOK ==
    ASSUME ChainTypeOK, UpdatesOK, NEW o \in Oracles
    PROVE  /\ Account(o).cumulative_price \in Nat /\ Account(o).last_price \in Nat
           /\ Account(o).last_slot \in Nat
           /\ \A k \in DOMAIN updates[o] :
                 /\ updates[o][k].slot <= Account(o).last_slot
                 /\ updates[o][k].cumulative_price <= Account(o).cumulative_price
<1>1. CASE updates[o] = <<>>
  BY <1>1 DEF Account
<1>2. CASE updates[o] # <<>>
  <2> DEFINE n == Len(updates[o])
             e == updates[o][n]
  <2>1. n \in Nat /\ n > 0 /\ DOMAIN updates[o] = 1 .. n /\ n \in DOMAIN updates[o]
    BY <1>2 DEF ChainTypeOK
  <2>2. e \in Events /\ e.slot \in Nat /\ e.price \in Nat /\ e.cumulative_price \in Nat
    BY <2>1, EventsOfSequence DEF ChainTypeOK
  <2>3. Account(o) = [cumulative_price |-> e.cumulative_price, last_price |-> e.price,
                      last_slot |-> e.slot]
    BY <1>2 DEF Account, Last
  <2>4. \A k \in DOMAIN updates[o] : k < n \/ k = n
    BY <2>1
  <2>5. ASSUME NEW k \in DOMAIN updates[o]
        PROVE  updates[o][k].slot <= e.slot /\ updates[o][k].cumulative_price <= e.cumulative_price
    <3>1. updates[o][k].slot \in Nat /\ updates[o][k].cumulative_price \in Nat
      BY <2>5, EventsOfSequence DEF ChainTypeOK
    <3> QED
      BY <2>1, <2>2, <2>4, <2>5, <3>1 DEF UpdatesOK
  <2> HIDE DEF e, n
  <2> QED
    BY <2>2, <2>3, <2>5
<1> QED
  BY <1>1, <1>2

\* The event of an update: its cumulative price is the account's or more.
LEMMA EventOK ==
    ASSUME ChainTypeOK, UpdatesOK, NEW o \in Oracles, NEW s \in Submissions,
           Account(o).last_slot < slot
    PROVE  /\ OracleUpdate(o, s) \in Events
           /\ OracleUpdate(o, s).oracle = o /\ OracleUpdate(o, s).slot = slot
           /\ OracleUpdate(o, s).cumulative_price >= Account(o).cumulative_price
<1>1. /\ Account(o).cumulative_price \in Nat /\ Account(o).last_price \in Nat
      /\ Account(o).last_slot \in Nat /\ slot \in Nat
  BY AccountOK DEF ChainTypeOK
<1>2. slot - Account(o).last_slot \in Nat
  BY <1>1
<1>3. \A x, y \in Nat : x * y \in Nat
  OBVIOUS
<1>4. Account(o).last_price * (slot - Account(o).last_slot) \in Nat
  BY <1>1, <1>2, <1>3
<1>5. /\ ExtendedCumulative(Account(o), slot) \in Nat
      /\ ExtendedCumulative(Account(o), slot) >= Account(o).cumulative_price
  BY <1>1, <1>4 DEF ExtendedCumulative
<1>6. s.price \in Nat /\ s.updater \in STRING
  BY IndexerAssumption
<1> QED
  BY <1>1, <1>5, <1>6 DEF OracleUpdate, Events

\* A transaction adds itself to the ledger; its own lines are those of its updates.
LEMMA WhatTransactAdds ==
    ASSUME ChainOK, NEW batch \in Batches, NEW s \in Submissions, NEW failed \in BOOLEAN,
           Transact(batch, s, failed)
    PROVE  LET n == Len(ledger) + 1
           IN  /\ Len(ledger) \in Nat /\ Len(ledger') = n
               /\ ledger' \in Seq(Transactions)
               /\ DOMAIN ledger' = DOMAIN ledger \cup {n} /\ n \notin DOMAIN ledger
               /\ \A t \in DOMAIN ledger : ledger'[t] = ledger[t]
               /\ ledger'[n].slot = slot /\ (ledger'[n].failed <=> failed)
               /\ \A i \in DOMAIN ledger'[n].logs \ ledger'[n].foreign :
                     /\ i \in DOMAIN batch /\ batch[i] \in Oracles
                     /\ Account(batch[i]).last_slot < slot
                     /\ ledger'[n].logs[i] = OracleUpdate(batch[i], s)
<1> DEFINE n == Len(ledger) + 1
           logs == [i \in DOMAIN batch |-> Logged(batch[i], s)]
           foreign == { i \in DOMAIN batch : batch[i] \notin Oracles }
           tx == [slot |-> slot, failed |-> failed, logs |-> logs, foreign |-> foreign]
<1>1. ledger \in Seq(Transactions) /\ ledger' = Append(ledger, tx)
  BY DEF Transact, ChainOK, ChainTypeOK
<1>2. /\ batch \in Seq(Oracles \cup Events)
      /\ DOMAIN batch = 1 .. Len(batch) /\ Len(batch) \in Nat
  BY IndexerAssumption
<1>3. \A i \in DOMAIN batch : batch[i] \in Oracles => Account(batch[i]).last_slot < slot
  BY <1>2 DEF Transact, Range
<1>4. logs \in Seq(Events)
  <2>1. \A i \in 1 .. Len(batch) : Logged(batch[i], s) \in Events
    <3> TAKE i \in 1 .. Len(batch)
    <3>1. CASE batch[i] \in Oracles
      BY <1>2, <1>3, <3>1, EventOK DEF ChainOK, Logged
    <3>2. CASE batch[i] \notin Oracles
      BY <1>2, <3>2 DEF Logged
    <3> QED
      BY <3>1, <3>2
  <2>2. logs \in [1 .. Len(batch) -> Events]
    BY <1>2, <2>1
  <2> QED
    BY <1>2, <2>2
<1>5. tx \in Transactions
  <2>1. foreign \in SUBSET Nat
    BY <1>2
  <2>2. slot \in Nat \ {0}
    BY DEF ChainOK, ChainTypeOK
  <2> HIDE DEF logs, foreign
  <2> QED
    BY <1>4, <2>1, <2>2 DEF Transactions
<1>6. /\ tx.slot = slot /\ (tx.failed <=> failed)
      /\ \A i \in DOMAIN tx.logs \ tx.foreign :
            /\ i \in DOMAIN batch /\ batch[i] \in Oracles
            /\ tx.logs[i] = OracleUpdate(batch[i], s)
  BY DEF Logged
<1> HIDE DEF tx
<1>7. /\ Len(ledger) \in Nat /\ Len(ledger') = n
      /\ ledger' \in Seq(Transactions)
      /\ DOMAIN ledger = 1 .. Len(ledger) /\ DOMAIN ledger' = 1 .. n
      /\ \A t \in 1 .. Len(ledger) : ledger'[t] = ledger[t]
      /\ ledger'[n] = tx
  BY <1>1, <1>5
<1> QED
  BY <1>3, <1>6, <1>7

LEMMA TransactKeepsUpdates ==
    ASSUME ChainOK, NEW batch \in Batches, NEW s \in Submissions, NEW failed \in BOOLEAN,
           Transact(batch, s, failed)
    PROVE  /\ updates' \in [Oracles -> Seq(Events)]
           /\ UpdatesOK'
           /\ \A o \in Oracles : \A k \in DOMAIN updates[o] :
                 k \in DOMAIN updates'[o] /\ updates'[o][k] = updates[o][k]
           /\ ~ failed => \A i \in DOMAIN batch : batch[i] \in Oracles =>
                 \E k \in DOMAIN updates'[batch[i]] :
                    updates'[batch[i]][k] = OracleUpdate(batch[i], s)
<1>1. /\ slot' = slot
      /\ updates' = [o \in Oracles |-> IF ~ failed /\ o \in Range(batch)
                                       THEN Append(updates[o], OracleUpdate(o, s))
                                       ELSE updates[o]]
      /\ \A o \in Oracles : o \in Range(batch) => Account(o).last_slot < slot
  BY DEF Transact
<1>2. ChainTypeOK /\ UpdatesOK
  BY DEF ChainOK
<1>3. ASSUME NEW o \in Oracles, ~ failed, o \in Range(batch)
      PROVE  LET e == OracleUpdate(o, s)
                 n == Len(updates[o]) + 1
             IN  /\ updates'[o] \in Seq(Events)
                 /\ DOMAIN updates'[o] = DOMAIN updates[o] \cup {n} /\ n \notin DOMAIN updates[o]
                 /\ n \in Nat /\ DOMAIN updates[o] = 1 .. n - 1
                 /\ \A k \in DOMAIN updates[o] : updates'[o][k] = updates[o][k]
                 /\ updates'[o][n] = e
                 /\ e.oracle = o /\ e.slot = slot
                 /\ \A k \in DOMAIN updates[o] :
                       /\ updates[o][k].slot < e.slot
                       /\ updates[o][k].cumulative_price <= e.cumulative_price
  <2> DEFINE e == OracleUpdate(o, s)
             n == Len(updates[o]) + 1
  <2>1. updates'[o] = Append(updates[o], e) /\ updates[o] \in Seq(Events)
    BY <1>1, <1>2, <1>3 DEF ChainTypeOK
  <2>2. /\ e \in Events /\ e.oracle = o /\ e.slot = slot
        /\ e.cumulative_price >= Account(o).cumulative_price
    BY <1>1, <1>2, <1>3, EventOK
  <2>3. slot \in Nat /\ e.cumulative_price \in Nat
    BY <1>2, <2>2 DEF ChainTypeOK, Events
  <2>4. \A k \in DOMAIN updates[o] :
           /\ updates[o][k].slot < slot
           /\ updates[o][k].cumulative_price <= e.cumulative_price
    BY <1>1, <1>2, <1>3, <2>1, <2>2, <2>3, AccountOK, EventsOfSequence
  <2> HIDE DEF e
  <2>5. /\ updates'[o] \in Seq(Events)
        /\ n \in Nat /\ DOMAIN updates[o] = 1 .. n - 1 /\ DOMAIN updates'[o] = 1 .. n
        /\ \A k \in 1 .. n - 1 : updates'[o][k] = updates[o][k]
        /\ updates'[o][n] = e
    BY <2>1, <2>2
  <2>6. DOMAIN updates'[o] = DOMAIN updates[o] \cup {n} /\ n \notin DOMAIN updates[o]
    BY <2>5
  <2> QED
    BY <2>2, <2>4, <2>5, <2>6 DEF e
<1>4. ASSUME NEW o \in Oracles, failed \/ o \notin Range(batch)
      PROVE  updates'[o] = updates[o]
  BY <1>1, <1>4
<1>5. \A o \in Oracles : updates'[o] \in Seq(Events)
  BY <1>2, <1>3, <1>4 DEF ChainTypeOK
<1>6. UpdatesOK'
  <2> SUFFICES ASSUME NEW o \in Oracles, NEW k \in DOMAIN updates'[o]
               PROVE  /\ updates'[o][k].oracle = o
                      /\ updates'[o][k].slot <= slot'
                      /\ \A j \in DOMAIN updates'[o] : j < k =>
                            /\ updates'[o][j].slot < updates'[o][k].slot
                            /\ updates'[o][j].cumulative_price <=
                                  updates'[o][k].cumulative_price
    BY DEF UpdatesOK
  <2>1. CASE failed \/ o \notin Range(batch)
    BY <1>1, <1>2, <1>4, <2>1 DEF UpdatesOK
  <2>2. CASE ~ failed /\ o \in Range(batch)
    <3> DEFINE n == Len(updates[o]) + 1
    <3>1. /\ DOMAIN updates'[o] = DOMAIN updates[o] \cup {n} /\ n \notin DOMAIN updates[o]
          /\ n \in Nat /\ DOMAIN updates[o] = 1 .. n - 1
          /\ \A j \in DOMAIN updates[o] : updates'[o][j] = updates[o][j]
          /\ updates'[o][n].oracle = o /\ updates'[o][n].slot = slot
          /\ \A j \in DOMAIN updates[o] :
                /\ updates[o][j].slot < updates'[o][n].slot
                /\ updates[o][j].cumulative_price <= updates'[o][n].cumulative_price
      BY <1>3, <2>2
    <3>2. slot \in Nat
      BY <1>2 DEF ChainTypeOK
    <3> HIDE DEF n
    <3>3. CASE k = n
      BY <1>1, <3>1, <3>2, <3>3
    <3>4. CASE k # n
      <4>1. k \in DOMAIN updates[o] /\ updates'[o][k] = updates[o][k] /\ k < n
        BY <3>1, <3>4
      <4>2. \A j \in DOMAIN updates'[o] : j < k => j \in DOMAIN updates[o]
        BY <3>1, <4>1
      <4> QED
        BY <1>1, <1>2, <3>1, <4>1, <4>2 DEF UpdatesOK
    <3> QED
      BY <3>3, <3>4
  <2> QED
    BY <2>1, <2>2
<1>7. ASSUME ~ failed, NEW i \in DOMAIN batch, batch[i] \in Oracles
      PROVE  \E k \in DOMAIN updates'[batch[i]] :
                updates'[batch[i]][k] = OracleUpdate(batch[i], s)
  <2>1. batch[i] \in Oracles /\ batch[i] \in Range(batch)
    BY <1>7 DEF Range
  <2>2. Len(updates[batch[i]]) + 1 \in DOMAIN updates'[batch[i]]
    BY <1>3, <1>7, <2>1
  <2> QED
    BY <1>3, <1>7, <2>1, <2>2
<1>8. \A o \in Oracles : \A k \in DOMAIN updates[o] :
         k \in DOMAIN updates'[o] /\ updates'[o][k] = updates[o][k]
  BY <1>3, <1>4
<1>9. updates' \in [Oracles -> Seq(Events)]
  BY <1>1, <1>5
<1> QED
  BY <1>6, <1>7, <1>8, <1>9

LEMMA TransactKeepsChain ==
    ASSUME ChainOK, NEW batch \in Batches, NEW s \in Submissions, NEW failed \in BOOLEAN,
           Transact(batch, s, failed)
    PROVE  ChainOK'
<1> DEFINE n == Len(ledger) + 1
<1>1. /\ Len(ledger) \in Nat /\ Len(ledger') = n
      /\ ledger' \in Seq(Transactions)
      /\ DOMAIN ledger' = DOMAIN ledger \cup {n} /\ n \notin DOMAIN ledger
      /\ \A t \in DOMAIN ledger : ledger'[t] = ledger[t]
      /\ ledger'[n].slot = slot /\ (ledger'[n].failed <=> failed)
      /\ \A i \in DOMAIN ledger'[n].logs \ ledger'[n].foreign :
            /\ i \in DOMAIN batch /\ batch[i] \in Oracles
            /\ Account(batch[i]).last_slot < slot
            /\ ledger'[n].logs[i] = OracleUpdate(batch[i], s)
  BY WhatTransactAdds
<1>2. /\ updates' \in [Oracles -> Seq(Events)]
      /\ UpdatesOK'
      /\ \A o \in Oracles : \A k \in DOMAIN updates[o] :
            k \in DOMAIN updates'[o] /\ updates'[o][k] = updates[o][k]
      /\ ~ failed => \A i \in DOMAIN batch : batch[i] \in Oracles =>
            \E k \in DOMAIN updates'[batch[i]] :
               updates'[batch[i]][k] = OracleUpdate(batch[i], s)
  BY TransactKeepsUpdates
<1>3. slot' = slot /\ Len(ledger) < MaxTransactions /\ MaxTransactions \in Nat
  BY IndexerAssumption DEF Transact
<1> HIDE DEF n
<1>4. ChainTypeOK'
  <2>1. Len(ledger') <= MaxTransactions
    BY <1>1, <1>3 DEF n
  <2> QED
    BY <1>1, <1>2, <1>3, <2>1 DEF ChainOK, ChainTypeOK
<1>5. \A o \in Oracles : Account(o).last_slot < slot =>
        OracleUpdate(o, s).oracle = o /\ OracleUpdate(o, s).slot = slot
  BY EventOK DEF ChainOK
<1>6. LogsOK'
  <2> SUFFICES ASSUME NEW t \in DOMAIN ledger',
                      NEW i \in DOMAIN ledger'[t].logs \ ledger'[t].foreign,
                      ~ ledger'[t].failed
               PROVE  LET e == ledger'[t].logs[i]
                      IN  /\ e.slot = ledger'[t].slot
                          /\ \E k \in DOMAIN updates'[e.oracle] : updates'[e.oracle][k] = e
    BY DEF LogsOK, OwnLines
  <2>1. CASE t = n
    <3> DEFINE e == OracleUpdate(batch[i], s)
    <3>1. /\ i \in DOMAIN batch /\ batch[i] \in Oracles /\ ~ failed
          /\ Account(batch[i]).last_slot < slot
          /\ ledger'[t].logs[i] = e /\ ledger'[t].slot = slot
      BY <1>1, <2>1
    <3>2. e.oracle = batch[i] /\ e.slot = slot
      BY <1>5, <3>1
    <3>3. \E k \in DOMAIN updates'[batch[i]] : updates'[batch[i]][k] = e
      BY <1>2, <3>1
    <3> HIDE DEF e
    <3> QED
      BY <3>1, <3>2, <3>3
  <2>2. CASE t # n
    <3> DEFINE e == ledger[t].logs[i]
    <3>1. /\ t \in DOMAIN ledger /\ ledger'[t] = ledger[t] /\ ~ ledger[t].failed
          /\ i \in OwnLines(t) /\ i \in DOMAIN ledger[t].logs
      BY <1>1, <2>2 DEF OwnLines
    <3>2. /\ e.slot = ledger[t].slot
          /\ \E k \in DOMAIN updates[e.oracle] : updates[e.oracle][k] = e
      BY <3>1 DEF ChainOK, LogsOK
    <3>3. e.oracle \in Oracles
      <4>1. ledger[t].logs \in Seq(Events)
        BY <3>1, TransactionTypes DEF ChainOK
      <4> QED
        BY <3>1, <4>1, EventsOfSequence
    <3> QED
      BY <1>2, <3>1, <3>2, <3>3
  <2> QED
    BY <2>1, <2>2
<1>7. SlotsOK'
  <2>1. slot \in Nat
    BY DEF ChainOK, ChainTypeOK
  <2> QED
    BY <1>1, <1>3, <2>1 DEF ChainOK, SlotsOK
<1> QED
  BY <1>2, <1>4, <1>6, <1>7 DEF ChainOK

LEMMA NextChainOK == ChainOK /\ [Next]_vars => ChainOK'
<1> SUFFICES ASSUME ChainOK, [Next]_vars PROVE ChainOK'
  OBVIOUS
<1>1. ASSUME UNCHANGED chainVars PROVE ChainOK'
  BY <1>1 DEF ChainOK, ChainTypeOK, UpdatesOK, LogsOK, OwnLines, SlotsOK, chainVars
<1>2. CASE AdvanceSlot
  <2>1. slot' = slot + 1 /\ ledger' = ledger /\ updates' = updates /\ slot \in Nat
    BY <1>2 DEF AdvanceSlot, ChainOK, ChainTypeOK
  <2>2. \A o \in Oracles : \A k \in DOMAIN updates[o] : updates[o][k].slot \in Nat
    BY EventsOfSequence DEF ChainOK, ChainTypeOK
  <2>3. \A o \in Oracles : \A k \in DOMAIN updates[o] : updates[o][k].slot <= slot + 1
    BY <2>1, <2>2 DEF ChainOK, UpdatesOK
  <2>4. UpdatesOK'
    BY <2>1, <2>3 DEF ChainOK, UpdatesOK
  <2>5. SlotsOK'
    <3>1. \A t \in DOMAIN ledger : ledger[t].slot \in Nat
      BY TransactionTypes DEF ChainOK
    <3> QED
      BY <2>1, <3>1 DEF ChainOK, SlotsOK
  <2>6. LogsOK'
    BY <2>1 DEF ChainOK, LogsOK, OwnLines
  <2> QED
    BY <2>1, <2>4, <2>5, <2>6 DEF ChainOK, ChainTypeOK
<1>3. ASSUME NEW batch \in Batches, NEW s \in Submissions, NEW failed \in BOOLEAN,
             Transact(batch, s, failed)
      PROVE  ChainOK'
  BY <1>3, TransactKeepsChain
<1>4. CASE Indexer
  BY <1>1, <1>4 DEF Indexer, Start, Deliver, StreamEnds, Shutdown, Exit, Crash, Insert,
                    InsertFails, InsertEnds
<1>5. CASE Verify
  BY <1>1, <1>5 DEF Verify, VerifyRows, ReadChain, ReadSlot, QueryPast, QueryLatest
<1>6. CASE UNCHANGED vars
  BY <1>1, <1>6 DEF vars
<1> QED
  BY <1>2, <1>3, <1>4, <1>5, <1>6 DEF Next, Chain

--------------------------------------------------------------------------------
(* The table *)

LogOf(txs, t, e) == /\ t \in DOMAIN txs /\ ~ txs[t].failed
                    /\ \E i \in DOMAIN txs[t].logs : txs[t].logs[i] = e

\* A row is made of a line of its transaction.
RowFits(txs, r) ==
    /\ r.tx \in DOMAIN txs /\ ~ txs[r.tx].failed /\ r.slot = txs[r.tx].slot
    /\ \E i \in DOMAIN txs[r.tx].logs :
          LET e == txs[r.tx].logs[i]
          IN  /\ r.oracle = e.oracle /\ r.price = e.price /\ r.updater = e.updater
              /\ r.cumulative_price = e.cumulative_price

\* A handler inserts events of its transaction, which did not fail.
InsertsOK ==
    /\ inserts \in [1 .. MaxTransactions -> Seq(Events)]
    /\ \A t \in 1 .. MaxTransactions : \A k \in DOMAIN inserts[t] : LogOf(ledger, t, inserts[t][k])

RowsOK ==
    /\ \A r \in rows : RowFits(ledger, r)
    /\ \A r, q \in rows : r.oracle = q.oracle /\ r.slot = q.slot => r = q

IndexerOK == /\ from \in Nat \ {0} /\ next \in Nat \ {0} /\ next <= Len(ledger) + 1
             /\ errors \in Nat

LEMMA InitTableOK == Init => InsertsOK /\ RowsOK /\ IndexerOK
<1> SUFFICES ASSUME Init PROVE InsertsOK /\ RowsOK /\ IndexerOK
  OBVIOUS
<1>1. InsertsOK
  BY DEF Init, InsertsOK
<1>2. RowsOK
  BY DEF Init, RowsOK
<1>3. IndexerOK
  BY DEF Init, IndexerOK
<1> QED
  BY <1>1, <1>2, <1>3

\* What is in the ledger stays there as it is.
LEMMA LedgerGrows ==
    ASSUME ChainOK, [Next]_vars
    PROVE  /\ Len(ledger) \in Nat /\ Len(ledger) <= Len(ledger')
           /\ Len(ledger') \in Nat
           /\ \A t \in DOMAIN ledger : t \in DOMAIN ledger' /\ ledger'[t] = ledger[t]
<1>0. ledger \in Seq(Transactions) /\ Len(ledger) \in Nat
  BY DEF ChainOK, ChainTypeOK
<1>1. ASSUME UNCHANGED ledger
      PROVE  /\ Len(ledger) <= Len(ledger') /\ Len(ledger') \in Nat
             /\ \A t \in DOMAIN ledger : t \in DOMAIN ledger' /\ ledger'[t] = ledger[t]
  BY <1>0, <1>1
<1>2. ASSUME NEW batch \in Batches, NEW s \in Submissions, NEW failed \in BOOLEAN,
             Transact(batch, s, failed)
      PROVE  /\ Len(ledger) <= Len(ledger') /\ Len(ledger') \in Nat
             /\ \A t \in DOMAIN ledger : t \in DOMAIN ledger' /\ ledger'[t] = ledger[t]
  BY <1>0, <1>2, WhatTransactAdds
<1>3. CASE AdvanceSlot
  BY <1>0, <1>1, <1>3 DEF AdvanceSlot
<1>4. CASE Indexer
  BY <1>0, <1>1, <1>4 DEF Indexer, Start, Deliver, StreamEnds, Shutdown, Exit, Crash, Insert,
                          InsertFails, InsertEnds, chainVars
<1>5. CASE Verify
  BY <1>0, <1>1, <1>5 DEF Verify, VerifyRows, ReadChain, ReadSlot, QueryPast, QueryLatest,
                          chainVars
<1>6. CASE UNCHANGED vars
  BY <1>0, <1>1, <1>6 DEF vars, chainVars
<1> QED
  BY <1>0, <1>2, <1>3, <1>4, <1>5, <1>6 DEF Next, Chain

LEMMA LogsStay ==
    ASSUME ChainOK, [Next]_vars
    PROVE  /\ \A t, e : LogOf(ledger, t, e) => LogOf(ledger', t, e)
           /\ \A r : RowFits(ledger, r) => RowFits(ledger', r)
<1>1. \A t, e : LogOf(ledger, t, e) => LogOf(ledger', t, e)
  BY LedgerGrows DEF LogOf
<1>2. \A r : RowFits(ledger, r) => RowFits(ledger', r)
  BY LedgerGrows DEF RowFits
<1> QED
  BY <1>1, <1>2

\* A step that leaves the handlers and the table alone.
LEMMA TableStays ==
    ASSUME ChainOK, [Next]_vars, InsertsOK, RowsOK, UNCHANGED <<inserts, rows>>
    PROVE  InsertsOK' /\ RowsOK'
<1>1. InsertsOK'
  <2>1. \A t, e : LogOf(ledger, t, e) => LogOf(ledger', t, e)
    BY LogsStay
  <2> QED
    BY <2>1 DEF InsertsOK, LogOf
<1>2. RowsOK'
  <2>1. \A r : RowFits(ledger, r) => RowFits(ledger', r)
    BY LogsStay
  <2>2. \A r \in rows' : RowFits(ledger', r)
    BY <2>1 DEF RowsOK
  <2>3. RowsOK' <=> /\ \A r \in rows' : RowFits(ledger', r)
                    /\ \A r, q \in rows' : r.oracle = q.oracle /\ r.slot = q.slot => r = q
    BY DEF RowsOK, RowFits
  <2> QED
    BY <2>2, <2>3 DEF RowsOK
<1> QED
  BY <1>1, <1>2

\* The row a handler inserts is the event at its head, of the slot of its transaction.
LEMMA RowIsEvent ==
    ASSUME InsertsOK, NEW t \in 1 .. MaxTransactions, inserts[t] # <<>>
    PROVE  /\ Row(t).tx = t /\ Row(t).slot = ledger[t].slot
           /\ Row(t).oracle = Head(inserts[t]).oracle
           /\ RowFits(ledger, Row(t))
<1> DEFINE e == Head(inserts[t])
<1>1. inserts[t] \in Seq(Events) /\ 1 \in DOMAIN inserts[t] /\ e = inserts[t][1]
  BY DEF InsertsOK
<1>2. LogOf(ledger, t, e)
  BY <1>1 DEF InsertsOK
<1>3. Row(t) = [tx |-> t, oracle |-> e.oracle, price |-> e.price,
                cumulative_price |-> e.cumulative_price, slot |-> ledger[t].slot,
                updater |-> e.updater]
  BY DEF Row
<1> HIDE DEF e
<1>4. RowFits(ledger, Row(t))
  BY <1>2, <1>3 DEF LogOf, RowFits
<1> QED
  BY <1>3, <1>4 DEF e

\* An insert leaves the table as it is or adds the row, which conflicts with none.
LEMMA InsertKeepsTable ==
    ASSUME ChainOK, InsertsOK, RowsOK, NEW t \in 1 .. MaxTransactions, NEW newRows,
           InsertEnds(t, newRows), newRows \in {rows, Inserted(Row(t))}
    PROVE  InsertsOK' /\ RowsOK'
<1>1. /\ inserts[t] # <<>> /\ rows' = newRows /\ ledger' = ledger
      /\ inserts' = [inserts EXCEPT ![t] = Tail(@)]
  BY DEF InsertEnds, chainVars
<1>2. InsertsOK'
  <2>1. inserts[t] \in Seq(Events)
    BY DEF InsertsOK
  <2>2. Tail(inserts[t]) \in Seq(Events)
    BY <1>1, <2>1
  <2>3. \A k \in DOMAIN Tail(inserts[t]) :
           k + 1 \in DOMAIN inserts[t] /\ Tail(inserts[t])[k] = inserts[t][k + 1]
    BY <1>1, <2>1
  <2>4. inserts'[t] = Tail(inserts[t])
    BY <1>1 DEF InsertsOK
  <2>5. \A u \in 1 .. MaxTransactions : u # t => inserts'[u] = inserts[u]
    BY <1>1 DEF InsertsOK
  <2>6. inserts' \in [1 .. MaxTransactions -> Seq(Events)]
    BY <1>1, <2>2 DEF InsertsOK
  <2>7. ASSUME NEW u \in 1 .. MaxTransactions, NEW k \in DOMAIN inserts'[u]
        PROVE  LogOf(ledger', u, inserts'[u][k])
    <3>1. CASE u = t
      <4>1. k + 1 \in DOMAIN inserts[t] /\ inserts'[u][k] = inserts[t][k + 1]
        BY <2>3, <2>4, <2>7, <3>1
      <4> QED
        BY <1>1, <3>1, <4>1 DEF InsertsOK
    <3>2. CASE u # t
      BY <1>1, <2>5, <2>7, <3>2 DEF InsertsOK
    <3> QED
      BY <3>1, <3>2
  <2> QED
    BY <2>6, <2>7 DEF InsertsOK
<1>3. \A r \in rows' : RowFits(ledger, r)
  BY <1>1, RowIsEvent DEF Inserted, RowsOK
<1>4. \A r, q \in rows' : r.oracle = q.oracle /\ r.slot = q.slot => r = q
  BY <1>1 DEF Inserted, RowsOK
<1> QED
  BY <1>1, <1>2, <1>3, <1>4 DEF RowsOK, RowFits

LEMMA DeliverKeepsInserts ==
    ASSUME ChainOK, InsertsOK, IndexerOK, Deliver PROVE InsertsOK'
<1>1. /\ next <= Len(ledger) /\ ledger' = ledger
      /\ inserts' = IF ledger[next].failed THEN inserts
                    ELSE [inserts EXCEPT ![next] = ledger[next].logs]
  BY DEF Deliver, chainVars
<1>2. CASE ledger[next].failed
  BY <1>1, <1>2 DEF InsertsOK, LogOf
<1>3. CASE ~ ledger[next].failed
  <2>1. /\ next \in DOMAIN ledger /\ ledger \in Seq(Transactions)
        /\ next \in 1 .. MaxTransactions
    BY <1>1, IndexerAssumption DEF ChainOK, ChainTypeOK, IndexerOK
  <2>2. ledger[next] \in Transactions
    BY <2>1
  <2>3. ledger[next].logs \in Seq(Events)
    BY <2>2 DEF Transactions
  <2>4. /\ inserts' \in [1 .. MaxTransactions -> Seq(Events)]
        /\ inserts'[next] = ledger[next].logs
        /\ \A t \in 1 .. MaxTransactions : t # next => inserts'[t] = inserts[t]
    BY <1>1, <1>3, <2>1, <2>3 DEF InsertsOK
  <2>5. \A t \in 1 .. MaxTransactions : \A k \in DOMAIN inserts'[t] : LogOf(ledger, t, inserts'[t][k])
    <3>1. \A k \in DOMAIN inserts'[next] : LogOf(ledger, next, inserts'[next][k])
      BY <1>3, <2>1, <2>4 DEF LogOf
    <3>2. \A t \in 1 .. MaxTransactions \ {next} :
             \A k \in DOMAIN inserts'[t] : LogOf(ledger, t, inserts'[t][k])
      BY <2>4 DEF InsertsOK
    <3> QED
      BY <3>1, <3>2
  <2> QED
    BY <1>1, <2>4, <2>5 DEF InsertsOK
<1> QED
  BY <1>2, <1>3

LEMMA NextTableOK ==
    ChainOK /\ InsertsOK /\ RowsOK /\ IndexerOK /\ [Next]_vars => InsertsOK' /\ RowsOK'
<1> SUFFICES ASSUME ChainOK, InsertsOK, RowsOK, IndexerOK, [Next]_vars
             PROVE  InsertsOK' /\ RowsOK'
  OBVIOUS
<1>1. ASSUME UNCHANGED <<inserts, rows>> PROVE InsertsOK' /\ RowsOK'
  BY <1>1, TableStays
<1>2. ASSUME UNCHANGED <<ledger, rows>> PROVE RowsOK'
  BY <1>2 DEF RowsOK, RowFits
<1>3. CASE Chain \/ Verify \/ UNCHANGED vars
  BY <1>1, <1>3 DEF Chain, AdvanceSlot, Transact, Verify, VerifyRows, ReadChain, ReadSlot,
                    QueryPast, QueryLatest, vars, indexerVars
<1>4. CASE Start \/ StreamEnds \/ Exit
  BY <1>1, <1>4 DEF Start, StreamEnds, Exit
<1>5. CASE Deliver
  <2>1. UNCHANGED <<ledger, rows>>
    BY <1>5 DEF Deliver, chainVars
  <2> QED
    BY <1>2, <1>5, <2>1, DeliverKeepsInserts
<1>6. CASE Shutdown
  <2>1. UNCHANGED <<ledger, rows>>
    BY <1>6 DEF Shutdown, chainVars
  <2>2. \A t \in 1 .. MaxTransactions :
           /\ inserts'[t] \in Seq(Events)
           /\ \A k \in DOMAIN inserts'[t] : k \in DOMAIN inserts[t] /\ inserts'[t][k] = inserts[t][k]
    <3> TAKE t \in 1 .. MaxTransactions
    <3>1. /\ inserts'[t] = IF inserts[t] = <<>> THEN <<>> ELSE <<Head(inserts[t])>>
          /\ inserts[t] \in Seq(Events)
      BY <1>6 DEF Shutdown, InsertsOK
    <3> QED
      BY <3>1
  <2>3. inserts' \in [1 .. MaxTransactions -> Seq(Events)]
    BY <1>6, <2>2 DEF Shutdown, InsertsOK
  <2> QED
    BY <1>2, <2>1, <2>2, <2>3 DEF InsertsOK, LogOf
<1>7. CASE Crash
  <2>1. UNCHANGED <<ledger, rows>> /\ inserts' = [t \in DOMAIN inserts |-> <<>>]
    BY <1>7 DEF Crash, chainVars
  <2> QED
    BY <1>2, <2>1 DEF InsertsOK
<1>8. ASSUME NEW t \in DOMAIN inserts, Insert(t) \/ InsertFails(t)
      PROVE  InsertsOK' /\ RowsOK'
  <2>1. t \in 1 .. MaxTransactions
    BY DEF InsertsOK
  <2> QED
    BY <1>8, <2>1, InsertKeepsTable DEF Insert, InsertFails
<1> QED
  BY <1>3, <1>4, <1>5, <1>6, <1>7, <1>8 DEF Next, Indexer

LEMMA NextIndexerOK == ChainOK /\ IndexerOK /\ [Next]_vars => IndexerOK'
<1> SUFFICES ASSUME ChainOK, IndexerOK, [Next]_vars PROVE IndexerOK'
  OBVIOUS
<1>1. Len(ledger) \in Nat /\ Len(ledger') \in Nat /\ Len(ledger) <= Len(ledger')
  BY LedgerGrows
<1>2. ASSUME UNCHANGED <<from, next, errors>> PROVE IndexerOK'
  BY <1>1, <1>2 DEF IndexerOK
<1>3. CASE Chain \/ Verify \/ UNCHANGED vars
  BY <1>2, <1>3 DEF Chain, AdvanceSlot, Transact, Verify, VerifyRows, ReadChain, ReadSlot,
                    QueryPast, QueryLatest, vars, indexerVars
<1>4. CASE StreamEnds \/ Shutdown \/ Exit \/ Crash
  BY <1>2, <1>4 DEF StreamEnds, Shutdown, Exit, Crash
<1>5. CASE Start
  <2>1. PICK t \in 1 .. Len(ledger) + 1 : from' = t /\ next' = t
    BY <1>5 DEF Start
  <2>2. ledger' = ledger /\ errors' = errors
    BY <1>5 DEF Start, chainVars
  <2> QED
    BY <1>1, <2>1, <2>2 DEF IndexerOK
<1>6. CASE Deliver
  <2>1. next <= Len(ledger) /\ next' = next + 1 /\ UNCHANGED <<ledger, from, errors>>
    BY <1>6 DEF Deliver, chainVars
  <2> QED
    BY <1>1, <2>1 DEF IndexerOK
<1>7. ASSUME NEW t \in DOMAIN inserts, Insert(t) PROVE IndexerOK'
  BY <1>2, <1>7 DEF Insert, InsertEnds
<1>8. ASSUME NEW t \in DOMAIN inserts, InsertFails(t) PROVE IndexerOK'
  <2>1. UNCHANGED <<ledger, from, next>> /\ errors' = errors + 1
    BY <1>8 DEF InsertFails, InsertEnds, chainVars
  <2> QED
    BY <2>1 DEF IndexerOK
<1> QED
  BY <1>3, <1>4, <1>5, <1>6, <1>7, <1>8 DEF Next, Indexer

TableOK == ChainOK /\ InsertsOK /\ RowsOK /\ IndexerOK

LEMMA TableIsKept == Spec => []TableOK
<1>1. Init => TableOK
  BY InitChainOK, InitTableOK DEF TableOK
<1>2. TableOK /\ [Next]_vars => TableOK'
  BY NextChainOK, NextTableOK, NextIndexerOK DEF TableOK
<1> QED
  BY <1>1, <1>2, PTL DEF Spec

\* What a row holds, whoever logged it.
LEMMA RowTypes ==
    ASSUME TableOK, NEW r \in rows
    PROVE  /\ r.tx \in DOMAIN ledger /\ ~ ledger[r.tx].failed /\ r.slot = ledger[r.tx].slot
           /\ r.oracle \in Oracles /\ r.price \in Nat /\ r.cumulative_price \in Nat
           /\ r.slot \in Nat \ {0} /\ r.slot <= slot /\ slot \in Nat
<1>1. RowFits(ledger, r) /\ slot \in Nat
  BY DEF TableOK, RowsOK, ChainOK, ChainTypeOK
<1>2. r.tx \in DOMAIN ledger /\ ~ ledger[r.tx].failed /\ r.slot = ledger[r.tx].slot
  BY <1>1 DEF RowFits
<1>3. ledger[r.tx].logs \in Seq(Events) /\ ledger[r.tx].slot \in Nat \ {0}
  BY <1>2, TransactionTypes DEF TableOK, ChainOK
<1>4. PICK i \in DOMAIN ledger[r.tx].logs :
         /\ r.oracle = ledger[r.tx].logs[i].oracle /\ r.price = ledger[r.tx].logs[i].price
         /\ r.cumulative_price = ledger[r.tx].logs[i].cumulative_price
  BY <1>1 DEF RowFits
<1>5. r.oracle \in Oracles /\ r.price \in Nat /\ r.cumulative_price \in Nat
  BY <1>3, <1>4, EventsOfSequence
<1>6. r.slot <= slot
  BY <1>2 DEF TableOK, ChainOK, SlotsOK
<1> QED
  BY <1>1, <1>2, <1>3, <1>5, <1>6

\* A row that an own line of a transaction made is the update.
LEMMA OwnRowIsUpdate ==
    ASSUME TableOK, NEW r \in rows, NEW i \in OwnLines(r.tx), IsOfLine(r, i)
    PROVE  \E k \in DOMAIN updates[r.oracle] : updates[r.oracle][k] = UpdateOf(r)
<1> DEFINE e == ledger[r.tx].logs[i]
<1>1. r.tx \in DOMAIN ledger /\ ~ ledger[r.tx].failed /\ i \in DOMAIN ledger[r.tx].logs
  BY RowTypes DEF OwnLines
<1>2. ledger[r.tx].logs \in Seq(Events)
  BY <1>1, TransactionTypes DEF TableOK, ChainOK
<1>3. e \in Events
  BY <1>1, <1>2, EventsOfSequence
<1>4. e.slot = ledger[r.tx].slot /\ \E k \in DOMAIN updates[e.oracle] : updates[e.oracle][k] = e
  BY <1>1 DEF TableOK, ChainOK, LogsOK
<1>5. /\ r.oracle = e.oracle /\ r.price = e.price /\ r.updater = e.updater
      /\ r.cumulative_price = e.cumulative_price /\ r.slot = ledger[r.tx].slot
  BY DEF IsOfLine
<1> HIDE DEF e
<1>6. e = [oracle |-> e.oracle, price |-> e.price, slot |-> e.slot, updater |-> e.updater,
           cumulative_price |-> e.cumulative_price]
  BY <1>3 DEF Events
<1>7. UpdateOf(r) = e
  BY <1>4, <1>5, <1>6 DEF UpdateOf
<1> QED
  BY <1>4, <1>5, <1>7

\* Updates of one slot are one update.
LEMMA SlotsDiffer ==
    ASSUME TableOK, NEW o \in Oracles, NEW j \in DOMAIN updates[o], NEW k \in DOMAIN updates[o],
           updates[o][j].slot = updates[o][k].slot
    PROVE  j = k
<1>1. updates[o] \in Seq(Events)
  BY DEF TableOK, ChainOK, ChainTypeOK
<1>2. j \in Nat /\ k \in Nat /\ updates[o][j].slot \in Nat /\ updates[o][k].slot \in Nat
  BY <1>1, EventsOfSequence
<1>3. ~ (j < k) /\ ~ (k < j)
  BY <1>2 DEF TableOK, ChainOK, UpdatesOK
<1> QED
  BY <1>2, <1>3

\* Every row was logged by a successful transaction and is an update that took effect,
\* unless another program logged it; no slot of an oracle has two rows; and the rows of an
\* oracle that are all updates of it pass the checks verify-indexer makes of the table.
THEOREM TableIsSound == Spec => []RowsAreOfConfirmedLogs
<1>1. ASSUME TableOK PROVE RowsAreOfConfirmedLogs
  <2>1. ASSUME NEW r \in rows
        PROVE  /\ r.tx \in DOMAIN ledger /\ ~ ledger[r.tx].failed
               /\ \E i \in DOMAIN ledger[r.tx].logs :
                     /\ IsOfLine(r, i)
                     /\ i \in ledger[r.tx].foreign \/ UpdateOf(r) \in Range(updates[r.oracle])
    <3>1. RowFits(ledger, r)
      BY <1>1, <2>1 DEF TableOK, RowsOK
    <3>2. PICK i \in DOMAIN ledger[r.tx].logs : IsOfLine(r, i)
      BY <3>1 DEF RowFits, IsOfLine
    <3>3. i \notin ledger[r.tx].foreign => UpdateOf(r) \in Range(updates[r.oracle])
      <4> SUFFICES ASSUME i \notin ledger[r.tx].foreign
                   PROVE  UpdateOf(r) \in Range(updates[r.oracle])
        OBVIOUS
      <4>1. i \in OwnLines(r.tx)
        BY DEF OwnLines
      <4>2. \E k \in DOMAIN updates[r.oracle] : updates[r.oracle][k] = UpdateOf(r)
        BY <1>1, <3>2, <4>1, OwnRowIsUpdate
      <4> QED
        BY <4>2 DEF Range
    <3>4. r.tx \in DOMAIN ledger /\ ~ ledger[r.tx].failed
      BY <3>1 DEF RowFits
    <3> QED
      BY <3>2, <3>3, <3>4
  <2>2. \A r, q \in rows : r.oracle = q.oracle /\ r.slot = q.slot => r = q
    BY <1>1 DEF TableOK, RowsOK
  <2>3. ASSUME NEW o \in Oracles, ForeignRows(o) = {},
               NEW r \in RowsOf(o), NEW q \in RowsOf(o), r.slot < q.slot
        PROVE  ~ (q.cumulative_price < r.cumulative_price)
    <3>1. UpdateOf(r) \in Range(updates[o]) /\ UpdateOf(q) \in Range(updates[o])
      BY <2>3 DEF ForeignRows
    <3>2. PICK j \in DOMAIN updates[o] : updates[o][j] = UpdateOf(r)
      BY <3>1 DEF Range
    <3>3. PICK k \in DOMAIN updates[o] : updates[o][k] = UpdateOf(q)
      BY <3>1 DEF Range
    <3>4. /\ updates[o][j].slot = r.slot /\ updates[o][k].slot = q.slot
          /\ updates[o][j].cumulative_price = r.cumulative_price
          /\ updates[o][k].cumulative_price = q.cumulative_price
      BY <3>2, <3>3 DEF UpdateOf
    <3>5. updates[o] \in Seq(Events)
      BY <1>1 DEF TableOK, ChainOK, ChainTypeOK
    <3>6. /\ j \in Nat /\ k \in Nat /\ r.slot \in Nat /\ q.slot \in Nat
          /\ r.cumulative_price \in Nat /\ q.cumulative_price \in Nat
      BY <3>4, <3>5, EventsOfSequence
    <3>7. j < k
      BY <1>1, <2>3, <3>4, <3>6 DEF TableOK, ChainOK, UpdatesOK
    <3> QED
      BY <1>1, <3>4, <3>6, <3>7 DEF TableOK, ChainOK, UpdatesOK
  <2>4. ASSUME NEW o \in Oracles, BadRows(o), ForeignRows(o) = {} PROVE RowsOf(o) = {}
    BY <2>2, <2>3, <2>4 DEF BadRows, RowsOf
  <2> QED
    BY <2>1, <2>2, <2>4 DEF RowsAreOfConfirmedLogs
<1> QED
  BY <1>1, TableIsKept, PTL

--------------------------------------------------------------------------------
(* What was delivered *)

\* An event of a delivered transaction is with its handler, or its oracle has a row of
\* its slot.
Taken(t, i) ==
    \E r \in rows : r.oracle = ledger[t].logs[i].oracle /\ r.slot = ledger[t].slot

Handled(t, i) == Taken(t, i) \/ ledger[t].logs[i] \in Range(inserts[t])

DeliveredOK ==
    proc \in {"streaming", "deaf"} /\ errors = 0 =>
        \A t \in from .. next - 1 :
            ~ ledger[t].failed => \A i \in DOMAIN ledger[t].logs : Handled(t, i)

\* The row of an own event's slot is that update or a foreign row.
LEMMA TakenPlace ==
    ASSUME TableOK, NEW t \in DOMAIN ledger, ~ ledger[t].failed, NEW i \in OwnLines(t),
           Taken(t, i)
    PROVE  Stored(t, i) \/ Displaced(t, i)
<1> DEFINE e == ledger[t].logs[i]
<1>1. i \in DOMAIN ledger[t].logs /\ ledger[t].logs \in Seq(Events)
  BY TransactionTypes DEF OwnLines, TableOK, ChainOK
<1>2. e.oracle \in Oracles
  BY <1>1, EventsOfSequence
<1>3. e.slot = ledger[t].slot /\ \E k \in DOMAIN updates[e.oracle] : updates[e.oracle][k] = e
  BY DEF TableOK, ChainOK, LogsOK
<1>4. PICK r \in rows : r.oracle = e.oracle /\ r.slot = ledger[t].slot
  BY DEF Taken
<1>5. CASE UpdateOf(r) \notin Range(updates[e.oracle])
  BY <1>4, <1>5 DEF Displaced, ForeignRows, RowsOf
<1>6. CASE UpdateOf(r) \in Range(updates[e.oracle])
  <2> HIDE DEF e
  <2>1. PICK j \in DOMAIN updates[e.oracle] : updates[e.oracle][j] = e
    BY <1>3
  <2>2. PICK k \in DOMAIN updates[e.oracle] : updates[e.oracle][k] = UpdateOf(r)
    BY <1>6 DEF Range
  <2>3. UpdateOf(r).slot = r.slot
    BY DEF UpdateOf
  <2>4. updates[e.oracle][j].slot = updates[e.oracle][k].slot
    BY <1>3, <1>4, <2>1, <2>2, <2>3
  <2>5. j = k
    BY <1>2, <2>4, SlotsDiffer
  <2>6. UpdateOf(r) = e
    BY <2>1, <2>2, <2>5
  <2> QED
    BY <1>4, <2>6 DEF Stored, e
<1> QED
  BY <1>5, <1>6

\* A row that is refused has its place taken already.
LEMMA InsertHandles ==
    ASSUME TableOK, NEW t \in 1 .. MaxTransactions,
           InsertEnds(t, Inserted(Row(t))),
           NEW u \in DOMAIN ledger, NEW i \in DOMAIN ledger[u].logs, Handled(u, i)
    PROVE  Handled(u, i)'
<1>1. /\ inserts[t] # <<>> /\ ledger' = ledger /\ rows' = Inserted(Row(t))
      /\ rows \subseteq rows' /\ inserts' = [inserts EXCEPT ![t] = Tail(@)]
  BY DEF InsertEnds, Inserted, chainVars
<1>2. ChainOK /\ InsertsOK /\ RowsOK
  BY DEF TableOK
<1>3. CASE Taken(u, i)
  BY <1>1, <1>3 DEF Taken, Handled
<1>4. CASE ledger[u].logs[i] \in Range(inserts[u]) /\ u # t
  <2>1. inserts'[u] = inserts[u]
    BY <1>1, <1>2, <1>4 DEF InsertsOK
  <2> QED
    BY <1>1, <1>4, <2>1 DEF Handled
<1>5. CASE ledger[u].logs[i] \in Range(inserts[u]) /\ u = t
  <2> DEFINE e == Head(inserts[t])
  <2>1. /\ inserts[t] \in Seq(Events) /\ inserts'[t] = Tail(inserts[t])
        /\ e = inserts[t][1]
    BY <1>1, <1>2 DEF InsertsOK
  <2>2. PICK k \in DOMAIN inserts[t] : inserts[t][k] = ledger[u].logs[i]
    BY <1>5 DEF Range
  <2>3. CASE k # 1
    <3>1. k - 1 \in DOMAIN Tail(inserts[t]) /\ Tail(inserts[t])[k - 1] = inserts[t][k]
      BY <1>1, <2>1, <2>3
    <3> QED
      BY <1>1, <1>5, <2>1, <2>2, <3>1 DEF Handled, Range
  <2>4. CASE k = 1
    <3>1. Row(t).tx = t /\ Row(t).slot = ledger[t].slot /\ Row(t).oracle = e.oracle
      BY <1>1, <1>2, RowIsEvent
    <3>2. e = ledger[t].logs[i]
      BY <1>5, <2>1, <2>2, <2>4
    <3> HIDE DEF e
    <3>3. \E r \in rows' : r.oracle = e.oracle /\ r.slot = ledger[t].slot
      <4>1. CASE Row(t) \in rows'
        BY <3>1, <4>1
      <4>2. CASE Row(t) \notin rows'
        <5>1. PICK r \in rows : r.oracle = e.oracle /\ (r.tx = t \/ r.slot = ledger[t].slot)
          BY <1>1, <3>1, <4>2 DEF Inserted
        <5>2. r.slot = ledger[r.tx].slot
          BY <1>2 DEF RowsOK, RowFits
        <5> QED
          BY <1>1, <5>1, <5>2
      <4> QED
        BY <4>1, <4>2
    <3> QED
      BY <1>1, <1>5, <3>2, <3>3 DEF Handled, Taken
  <2> QED
    BY <2>3, <2>4
<1> QED
  BY <1>3, <1>4, <1>5 DEF Handled

LEMMA InitDelivered == Init => DeliveredOK
<1> SUFFICES ASSUME Init PROVE DeliveredOK
  OBVIOUS
<1>1. proc = "down"
  BY DEF Init
<1> QED
  BY <1>1 DEF DeliveredOK

LEMMA NextDelivered == TableOK /\ DeliveredOK /\ [Next]_vars => DeliveredOK'
<1> SUFFICES ASSUME TableOK, DeliveredOK, [Next]_vars,
                    proc' \in {"streaming", "deaf"}, errors' = 0,
                    NEW t \in from' .. next' - 1, ~ ledger'[t].failed,
                    NEW i \in DOMAIN ledger'[t].logs
             PROVE  Handled(t, i)'
  BY DEF DeliveredOK, Handled
<1>0. /\ ledger \in Seq(Transactions) /\ Len(ledger) \in Nat
      /\ from \in Nat \ {0} /\ next \in Nat \ {0} /\ next <= Len(ledger) + 1
  BY DEF TableOK, ChainOK, ChainTypeOK, IndexerOK
\* A transaction that was delivered before.
<1>1. ASSUME proc \in {"streaming", "deaf"}, errors = 0, t \in from .. next - 1
      PROVE  /\ t \in DOMAIN ledger /\ ledger'[t] = ledger[t]
             /\ ~ ledger[t].failed /\ i \in DOMAIN ledger[t].logs /\ Handled(t, i)
  <2>1. t \in DOMAIN ledger
    BY <1>0, <1>1
  <2>2. ledger'[t] = ledger[t]
    BY <2>1, LedgerGrows DEF TableOK
  <2> QED
    BY <1>1, <2>1, <2>2 DEF DeliveredOK, Handled
<1>2. ASSUME UNCHANGED <<proc, errors, from, next, inserts, rows>> PROVE Handled(t, i)'
  <2>1. ledger'[t] = ledger[t] /\ Handled(t, i)
    BY <1>1, <1>2
  <2> QED
    BY <1>2, <2>1 DEF Handled, Taken
<1>3. CASE Chain \/ Verify \/ UNCHANGED vars
  BY <1>2, <1>3 DEF Chain, AdvanceSlot, Transact, Verify, VerifyRows, ReadChain, ReadSlot,
                    QueryPast, QueryLatest, vars, indexerVars
<1>4. CASE Start
  BY <1>0, <1>4 DEF Start
<1>5. CASE StreamEnds
  <2>1. proc = "streaming" /\ UNCHANGED <<errors, from, next, inserts, rows, ledger>>
    BY <1>5 DEF StreamEnds, chainVars
  <2>2. Handled(t, i)
    BY <1>1, <2>1
  <2> QED
    BY <2>1, <2>2 DEF Handled, Taken
<1>6. CASE Shutdown \/ Exit \/ Crash
  BY <1>6 DEF Shutdown, Exit, Crash
<1>7. CASE Deliver
  <2>1. /\ proc = "streaming" /\ next <= Len(ledger) /\ next' = next + 1
        /\ inserts' = IF ledger[next].failed THEN inserts
                      ELSE [inserts EXCEPT ![next] = ledger[next].logs]
        /\ UNCHANGED <<ledger, rows, from, errors>>
    BY <1>7 DEF Deliver, chainVars
  <2>2. next \in 1 .. MaxTransactions
    BY <1>0, <2>1, IndexerAssumption DEF TableOK, ChainOK, ChainTypeOK
  <2>3. CASE t = next
    <3>1. inserts'[t] = ledger[t].logs
      BY <2>1, <2>2, <2>3 DEF TableOK, InsertsOK
    <3> QED
      BY <2>1, <3>1 DEF Handled, Range
  <2>4. CASE t # next
    <3>1. Handled(t, i)
      BY <1>0, <1>1, <2>1, <2>4
    <3>2. inserts'[t] = inserts[t]
      BY <2>1, <2>4 DEF TableOK, InsertsOK
    <3> QED
      BY <2>1, <3>1, <3>2 DEF Handled, Taken
  <2> QED
    BY <2>3, <2>4
<1>8. ASSUME NEW u \in DOMAIN inserts, Insert(u) PROVE Handled(t, i)'
  <2>1. InsertEnds(u, Inserted(Row(u))) /\ UNCHANGED <<proc, errors, from, next>>
    BY <1>8 DEF Insert, InsertEnds
  <2>2. u \in 1 .. MaxTransactions
    BY DEF TableOK, InsertsOK
  <2> QED
    BY <1>1, <2>1, <2>2, InsertHandles
<1>9. ASSUME NEW u \in DOMAIN inserts, InsertFails(u) PROVE Handled(t, i)'
  <2>1. errors \in Nat /\ errors' = errors + 1
    BY <1>9 DEF InsertFails, TableOK, IndexerOK
  <2> QED
    BY <2>1
<1> QED
  BY <1>3, <1>4, <1>5, <1>6, <1>7, <1>8, <1>9 DEF Next, Indexer

\* However handlers overlap and transactions are delivered again, the updates delivered to
\* a process that runs are stored or about to be, unless a write failed or a line of
\* another program has their place.
THEOREM DeliveredIsNotLost == Spec => []DeliveredIsStored
<1>1. ASSUME TableOK, DeliveredOK PROVE DeliveredIsStored
  <2> SUFFICES ASSUME proc \in {"streaming", "deaf"}, errors = 0,
                      NEW t \in from .. next - 1, ~ ledger[t].failed, NEW i \in OwnLines(t)
               PROVE  \/ Stored(t, i) \/ Displaced(t, i)
                      \/ ledger[t].logs[i] \in Range(inserts[t])
    BY DEF DeliveredIsStored
  <2>1. t \in DOMAIN ledger
    BY <1>1 DEF TableOK, ChainOK, ChainTypeOK, IndexerOK
  <2>2. Handled(t, i)
    BY <1>1 DEF DeliveredOK, OwnLines
  <2> QED
    BY <1>1, <2>1, <2>2, TakenPlace DEF Handled
<1>2. Spec => []DeliveredOK
  BY TableIsKept, InitDelivered, NextDelivered, PTL DEF Spec
<1> QED
  BY <1>1, <1>2, TableIsKept, PTL

--------------------------------------------------------------------------------
(* Types *)

LEMMA InitTypeOK == Init => IndexerTypeOK
<1> SUFFICES ASSUME Init PROVE IndexerTypeOK
  OBVIOUS
<1>1. slot = 1 /\ ledger = <<>> /\ proc = "down" /\ from = 1 /\ next = 1
  BY DEF Init
<1>2. \A t \in DOMAIN inserts : inserts[t] = <<>>
  BY DEF Init
<1> QED
  BY <1>1, <1>2, IndexerAssumption DEF IndexerTypeOK

LEMMA NextTypeOK == TableOK /\ IndexerTypeOK /\ [Next]_vars => IndexerTypeOK'
<1> SUFFICES ASSUME TableOK, IndexerTypeOK, [Next]_vars PROVE IndexerTypeOK'
  OBVIOUS
<1> DEFINE handlersOK ==
             /\ \A t \in DOMAIN inserts : inserts[t] # <<>> => proc # "down" /\ t < next
             /\ proc = "closing" => \A t \in DOMAIN inserts : Len(inserts[t]) <= 1
<1>0. /\ Len(ledger) \in Nat /\ Len(ledger') \in Nat /\ Len(ledger) <= Len(ledger')
      /\ from \in Nat /\ next \in Nat /\ slot \in Nat
      /\ inserts \in [1 .. MaxTransactions -> Seq(Events)]
  BY LedgerGrows DEF TableOK, ChainOK, ChainTypeOK, IndexerOK, InsertsOK
<1>1. Len(ledger') <= MaxTransactions
  BY NextChainOK DEF TableOK, ChainOK, ChainTypeOK
<1>2. slot' \in 1 .. MaxSlot
  <2>1. CASE AdvanceSlot
    BY <1>0, <2>1, IndexerAssumption DEF AdvanceSlot, IndexerTypeOK
  <2>2. CASE ~ AdvanceSlot
    <3>1. slot' = slot
      BY <2>2 DEF Next, Chain, Transact, Indexer, Start, Deliver, StreamEnds, Shutdown, Exit,
                  Crash, Insert, InsertFails, InsertEnds, Verify, VerifyRows, ReadChain,
                  ReadSlot, QueryPast, QueryLatest, vars, chainVars
    <3> QED
      BY <3>1 DEF IndexerTypeOK
  <2> QED
    BY <2>1, <2>2
<1>3. ASSUME proc' \in {"down", "streaming", "deaf", "closing"},
             from' <= next' /\ next' <= Len(ledger') + 1, handlersOK'
      PROVE  IndexerTypeOK'
  BY <1>1, <1>2, <1>3 DEF IndexerTypeOK
<1>4. ASSUME UNCHANGED <<proc, from, next, inserts>> PROVE IndexerTypeOK'
  BY <1>0, <1>3, <1>4 DEF IndexerTypeOK
<1>5. CASE Chain \/ Verify \/ UNCHANGED vars
  BY <1>4, <1>5 DEF Chain, AdvanceSlot, Transact, Verify, VerifyRows, ReadChain, ReadSlot,
                    QueryPast, QueryLatest, vars, indexerVars
<1>6. CASE Start
  <2>1. PICK t \in 1 .. Len(ledger) + 1 : from' = t /\ next' = t
    BY <1>6 DEF Start
  <2>2. proc = "down" /\ proc' = "streaming" /\ UNCHANGED <<ledger, inserts>>
    BY <1>6 DEF Start, chainVars
  <2>3. handlersOK'
    BY <2>2 DEF IndexerTypeOK
  <2> QED
    BY <1>0, <1>3, <2>1, <2>2, <2>3
<1>7. CASE Deliver
  <2>1. /\ proc = "streaming" /\ proc' = proc /\ next <= Len(ledger) /\ next' = next + 1
        /\ inserts' = IF ledger[next].failed THEN inserts
                      ELSE [inserts EXCEPT ![next] = ledger[next].logs]
        /\ UNCHANGED <<ledger, from>>
    BY <1>7 DEF Deliver, chainVars
  <2>2. \A t \in DOMAIN inserts' : t \in 1 .. MaxTransactions /\ (t # next => inserts'[t] = inserts[t])
    BY <1>0, <2>1
  <2>3. handlersOK'
    BY <1>0, <2>1, <2>2 DEF IndexerTypeOK
  <2> QED
    BY <1>0, <1>3, <2>1, <2>3 DEF IndexerTypeOK
<1>8. CASE StreamEnds
  <2>1. proc = "streaming" /\ proc' = "deaf" /\ UNCHANGED <<ledger, from, next, inserts>>
    BY <1>8 DEF StreamEnds, chainVars
  <2> QED
    BY <1>3, <2>1 DEF IndexerTypeOK
<1>9. CASE Shutdown
  <2>1. /\ proc \in {"streaming", "deaf"} /\ proc' = "closing"
        /\ inserts' = [t \in DOMAIN inserts |->
                          IF inserts[t] = <<>> THEN <<>> ELSE <<Head(inserts[t])>>]
        /\ UNCHANGED <<ledger, from, next>>
    BY <1>9 DEF Shutdown, chainVars
  <2>2. \A t \in DOMAIN inserts' :
           /\ t \in DOMAIN inserts /\ Len(inserts'[t]) <= 1
           /\ inserts'[t] # <<>> => inserts[t] # <<>>
    BY <2>1
  <2>3. handlersOK'
    BY <2>1, <2>2 DEF IndexerTypeOK
  <2> QED
    BY <1>3, <2>1, <2>3 DEF IndexerTypeOK
<1>10. CASE Exit
  <2>1. /\ proc' = "down" /\ UNCHANGED <<ledger, from, next, inserts>>
        /\ \A t \in DOMAIN inserts : inserts[t] = <<>>
    BY <1>10 DEF Exit, chainVars
  <2> QED
    BY <1>3, <2>1 DEF IndexerTypeOK
<1>11. CASE Crash
  <2>1. /\ proc' = "down" /\ UNCHANGED <<ledger, from, next>>
        /\ inserts' = [t \in DOMAIN inserts |-> <<>>]
    BY <1>11 DEF Crash, chainVars
  <2> QED
    BY <1>3, <2>1 DEF IndexerTypeOK
<1>12. ASSUME NEW t \in DOMAIN inserts, NEW newRows, InsertEnds(t, newRows)
       PROVE  IndexerTypeOK'
  <2>1. /\ inserts[t] # <<>> /\ inserts' = [inserts EXCEPT ![t] = Tail(@)]
        /\ UNCHANGED <<ledger, proc, from, next>>
    BY <1>12 DEF InsertEnds, chainVars
  <2>2. inserts[t] \in Seq(Events) /\ Len(Tail(inserts[t])) = Len(inserts[t]) - 1
    BY <1>0, <2>1
  <2>3. \A u \in DOMAIN inserts' :
           /\ u \in DOMAIN inserts
           /\ u # t => inserts'[u] = inserts[u]
           /\ u = t => inserts'[u] = Tail(inserts[t])
    BY <1>0, <2>1
  <2>4. handlersOK'
    BY <2>1, <2>2, <2>3 DEF IndexerTypeOK
  <2> QED
    BY <1>3, <2>1, <2>4 DEF IndexerTypeOK
<1>13. ASSUME NEW t \in DOMAIN inserts, Insert(t) \/ InsertFails(t) PROVE IndexerTypeOK'
  BY <1>12, <1>13 DEF Insert, InsertFails
<1> QED
  BY <1>5, <1>6, <1>7, <1>8, <1>9, <1>10, <1>11, <1>13 DEF Next, Indexer

\* Handlers belong to a process that runs and to transactions it was sent, and one that
\* was told to stop has at most one query in flight for each.
THEOREM IndexerIsTyped == Spec => []IndexerTypeOK
BY TableIsKept, InitTypeOK, NextTypeOK, PTL DEF Spec

--------------------------------------------------------------------------------
(* Rows *)

\* A row is of a slot that has been.
LEMMA RowInTable ==
    ASSUME TableOK, NEW o \in Oracles, NEW r \in RowsOf(o)
    PROVE  /\ r.slot \in Nat /\ r.price \in Nat /\ r.cumulative_price \in Nat
           /\ r.slot <= slot /\ slot \in Nat
<1>1. r \in rows
  BY DEF RowsOf
<1> QED
  BY <1>1, RowTypes

\* There are not more rows of an oracle than slots.
LEMMA RowsAreFinite ==
    ASSUME TableOK, NEW o \in Oracles PROVE IsFiniteSet(RowsOf(o))
<1> DEFINE f == [r \in RowsOf(o) |-> r.slot]
<1>1. slot \in Nat
  BY DEF TableOK, ChainOK, ChainTypeOK
<1>2. f \in [RowsOf(o) -> 0 .. slot]
  BY RowInTable
<1>3. \A r, q \in RowsOf(o) : f[r] = f[q] => r = q
  BY DEF TableOK, RowsOK, RowsOf
<1>4. IsFiniteSet(0 .. slot)
  BY <1>1, FS_Interval
<1> HIDE DEF f
<1> QED
  BY <1>2, <1>3, <1>4, OneToOne

--------------------------------------------------------------------------------
(* Buckets *)

\* A multiple of the interval is at or below a slot if and only if it is at or below the
\* bucket of the slot.
LEMMA BucketBounds ==
    ASSUME NEW x \in Nat, NEW i \in Nat \ {0}
    PROVE  /\ (x \div i) * i \in Nat
           /\ (x \div i) * i <= x /\ x < (x \div i) * i + i
<1> DEFINE q == x \div i
<1>1. q \in Int /\ x = i * q + (x % i) /\ x % i \in 0 .. i - 1
  OBVIOUS
<1>2. q >= 0
  OBVIOUS
<1> HIDE DEF q
<1>3. i * q = q * i /\ q * i \in Nat
  BY <1>1, <1>2
<1> QED
  BY <1>1, <1>3 DEF q

LEMMA MultiplesBelow ==
    ASSUME NEW x \in Nat, NEW y \in Nat, NEW i \in Nat \ {0}
    PROVE  (y \div i) * i <= x <=> (y \div i) * i <= (x \div i) * i
<1> DEFINE p == y \div i
           q == x \div i
<1>1. p \in Nat /\ q \in Nat
  OBVIOUS
<1>2. q * i <= x /\ x < q * i + i /\ q * i \in Nat /\ p * i \in Nat
  BY BucketBounds
<1> HIDE DEF p, q
<1>3. p * i <= q * i => p * i <= x
  BY <1>2
<1>4. ASSUME p * i <= x PROVE p * i <= q * i
  <2>1. p * i < (q + 1) * i
    BY <1>1, <1>2, <1>4
  <2>2. p < q + 1
    <3>1. CASE p >= q + 1
      <4>1. p * i >= (q + 1) * i
        BY <1>1, <3>1
      <4> QED
        BY <1>1, <2>1, <4>1
    <3> QED
      BY <1>1, <3>1
  <2>3. p <= q
    BY <1>1, <2>2
  <2> QED
    BY <1>1, <2>3
<1> QED
  BY <1>3, <1>4 DEF p, q

\* The buckets that hold a row, the rows of one, and what /historical says of it.
BucketsInUse(o, i) == { Bucket(r, i) : r \in RowsOf(o) }
RowsIn(o, i, b) == { r \in RowsOf(o) : Bucket(r, i) = b }
BucketOf(o, i, b) == [slot |-> b, updateCount |-> Cardinality(RowsIn(o, i, b)),
                      minPrice |-> Min({ r.price : r \in RowsIn(o, i, b) }),
                      maxPrice |-> Max({ r.price : r \in RowsIn(o, i, b) }),
                      firstSlot |-> Min({ r.slot : r \in RowsIn(o, i, b) }),
                      lastSlot |-> Max({ r.slot : r \in RowsIn(o, i, b) })]
NewestBuckets(o, i, n) ==
    { b \in BucketsInUse(o, i) : Cardinality({ c \in BucketsInUse(o, i) : c > b }) < n }

LEMMA WhatBucketsAre ==
    ASSUME TableOK, NEW o \in Oracles, NEW i, NEW n
    PROVE  Buckets(o, 0, slot, i, n) = { BucketOf(o, i, b) : b \in NewestBuckets(o, i, n) }
<1>1. { r \in RowsOf(o) : 0 <= r.slot /\ r.slot <= slot } = RowsOf(o)
  <2>1. \A r \in RowsOf(o) : 0 <= r.slot /\ r.slot <= slot
    BY RowInTable
  <2> QED
    BY <2>1
<1> QED
  BY <1>1 DEF Buckets, BucketOf, RowsIn, NewestBuckets, BucketsInUse

\* A bucket starts at or below its first slot, and ends above its last.
LEMMA BucketIsStretch ==
    ASSUME TableOK, NEW o \in Oracles, NEW i \in Nat \ {0}, NEW b \in BucketsInUse(o, i)
    PROVE  /\ b \in Nat
           /\ BucketOf(o, i, b).slot = b
           /\ BucketOf(o, i, b).updateCount = Cardinality(RowsIn(o, i, b))
           /\ b <= BucketOf(o, i, b).firstSlot /\ BucketOf(o, i, b).lastSlot < b + i
<1> DEFINE S == { r.slot : r \in RowsIn(o, i, b) }
<1>1. PICK r \in RowsIn(o, i, b) : TRUE
  BY DEF BucketsInUse, RowsIn
<1>2. \A x \in S : x \in Nat /\ b <= x /\ x < b + i /\ x <= slot /\ b \in Nat
  <2> SUFFICES ASSUME NEW q \in RowsIn(o, i, b)
               PROVE  /\ q.slot \in Nat /\ b <= q.slot /\ q.slot < b + i /\ q.slot <= slot
                      /\ b \in Nat
    OBVIOUS
  <2>1. q \in RowsOf(o) /\ b = (q.slot \div i) * i
    BY DEF RowsIn, Bucket
  <2>2. q.slot \in Nat /\ q.slot <= slot
    BY <2>1, RowInTable
  <2> DEFINE x == q.slot
  <2>3. (x \div i) * i \in Nat /\ (x \div i) * i <= x /\ x < (x \div i) * i + i
    <3> HIDE DEF x
    <3> QED
      BY <2>2, BucketBounds DEF x
  <2> QED
    BY <2>1, <2>2, <2>3
<1>3. S \in SUBSET Nat /\ S # {} /\ slot \in Nat
  BY <1>1, <1>2 DEF TableOK, ChainOK, ChainTypeOK
<1> HIDE DEF S
<1>4. \E x \in S : \A y \in S : x =< y
  BY <1>3, LeastNatural
<1>5. \E x \in S : \A y \in S : y <= x
  BY <1>2, <1>3, GreatestNatural
<1>6. \E x \in S : \A y \in S : x >= y
  BY <1>3, <1>5
<1>7. Min(S) \in S /\ Max(S) \in S
  BY <1>4, <1>6 DEF Min, Max
<1>8. BucketOf(o, i, b).firstSlot = Min(S) /\ BucketOf(o, i, b).lastSlot = Max(S)
  BY DEF BucketOf, S
<1>9. BucketOf(o, i, b).slot = b
      /\ BucketOf(o, i, b).updateCount = Cardinality(RowsIn(o, i, b))
  BY DEF BucketOf
<1> QED
  BY <1>2, <1>7, <1>8, <1>9

\* The newest buckets hold the rows from the first slot of the oldest one on.
LEMMA NewestBucketsHold ==
    ASSUME TableOK, NEW o \in Oracles, NEW i \in Nat \ {0}, NEW n \in Nat,
           NEW m \in NewestBuckets(o, i, n), \A b \in NewestBuckets(o, i, n) : m <= b
    PROVE  UNION { RowsIn(o, i, b) : b \in NewestBuckets(o, i, n) } =
              { r \in RowsOf(o) : r.slot >= m }
<1>1. m \in BucketsInUse(o, i)
  BY DEF NewestBuckets
<1>2. PICK q \in RowsOf(o) : m = (q.slot \div i) * i
  BY <1>1 DEF BucketsInUse, Bucket
<1>3. \A b \in BucketsInUse(o, i) : b \in Nat
  BY BucketIsStretch
<1>4. ASSUME NEW r \in RowsOf(o) PROVE r.slot >= m <=> Bucket(r, i) >= m
  <2> DEFINE x == r.slot
             y == q.slot
  <2>1. x \in Nat /\ y \in Nat
    BY <1>2, RowInTable
  <2>2. (y \div i) * i <= x <=> (y \div i) * i <= (x \div i) * i
    <3> HIDE DEF x, y
    <3> QED
      BY <2>1, MultiplesBelow
  <2>3. Bucket(r, i) = (x \div i) * i /\ m = (y \div i) * i
    BY <1>2 DEF Bucket
  <2>4. Bucket(r, i) \in Nat /\ m \in Nat
    BY <1>1, <1>3 DEF BucketsInUse
  <2> HIDE DEF x, y
  <2>5. x >= m <=> m <= x
    BY <2>1, <2>4
  <2>6. Bucket(r, i) >= m <=> m <= Bucket(r, i)
    BY <2>4
  <2>7. x >= m <=> Bucket(r, i) >= m
    BY <2>2, <2>3, <2>5, <2>6
  <2> QED
    BY <2>7 DEF x
<1>5. ASSUME NEW b \in BucketsInUse(o, i), b >= m PROVE b \in NewestBuckets(o, i, n)
  <2> DEFINE A == { c \in BucketsInUse(o, i) : c > b }
             M == { c \in BucketsInUse(o, i) : c > m }
  <2>1. A \subseteq M
    BY <1>1, <1>3, <1>5
  <2>2. \A c \in M : c \in Nat /\ c <= slot
    <3> SUFFICES ASSUME NEW r \in RowsOf(o) PROVE Bucket(r, i) \in Nat /\ Bucket(r, i) <= slot
      BY DEF BucketsInUse
    <3> DEFINE x == r.slot
    <3>1. x \in Nat /\ x <= slot /\ slot \in Nat
      BY RowInTable
    <3>2. (x \div i) * i \in Nat /\ (x \div i) * i <= x
      <4> HIDE DEF x
      <4> QED
        BY <3>1, BucketBounds
    <3> QED
      BY <3>1, <3>2 DEF Bucket
  <2>3. M \in SUBSET Nat /\ slot \in Nat
    BY <2>2 DEF TableOK, ChainOK, ChainTypeOK
  <2>4. Cardinality(M) < n
    BY DEF NewestBuckets
  <2> HIDE DEF A, M
  <2>5. IsFiniteSet(M)
    BY <2>2, <2>3, FS_BoundedSetOfNaturals
  <2>6. IsFiniteSet(A) /\ Cardinality(A) <= Cardinality(M)
    BY <2>1, <2>5, FS_Subset
  <2>7. Cardinality(A) \in Nat /\ Cardinality(M) \in Nat
    BY <2>5, <2>6, FS_CardinalityType
  <2>8. Cardinality(A) < n
    BY <2>4, <2>6, <2>7
  <2> QED
    BY <2>8 DEF NewestBuckets, A
<1>6. ASSUME NEW r \in RowsOf(o)
      PROVE  (\E b \in NewestBuckets(o, i, n) : Bucket(r, i) = b) <=> r.slot >= m
  <2>1. Bucket(r, i) \in BucketsInUse(o, i) /\ Bucket(r, i) \in Nat
    BY <1>3 DEF BucketsInUse
  <2>2. Bucket(r, i) >= m <=> m <= Bucket(r, i)
    BY <1>1, <1>3, <2>1
  <2> QED
    BY <1>4, <1>5, <2>1, <2>2
<1> QED
  BY <1>6 DEF RowsIn

\* The pages of /historical lose no row and show none twice, whatever the interval: their
\* counts add up to the rows from the first slot of the oldest bucket on.
THEOREM BucketsArePartition == Spec => []BucketsPartitionRows
<1>1. ASSUME TableOK PROVE BucketsPartitionRows
  <2> SUFFICES ASSUME NEW o \in Oracles, NEW i \in Intervals, NEW n \in Limits
               PROVE  LET buckets == Buckets(o, 0, slot, i, n)
                      IN  /\ \A b \in buckets : b.slot <= b.firstSlot /\ b.lastSlot < b.slot + i
                          /\ buckets # {} =>
                                SumFunction([b \in buckets |-> b.updateCount]) =
                                   Cardinality({ r \in RowsOf(o) :
                                                   r.slot >= Min({ b.slot : b \in buckets }) })
    BY DEF BucketsPartitionRows
  <2>1. i \in Nat \ {0} /\ n \in Nat
    BY IndexerAssumption
  <2> DEFINE newest == NewestBuckets(o, i, n)
             buckets == { BucketOf(o, i, b) : b \in newest }
             f == [b \in buckets |-> b.updateCount]
             part == [b \in buckets |-> RowsIn(o, i, b.slot)]
  <2>2. Buckets(o, 0, slot, i, n) = buckets
    BY <1>1, WhatBucketsAre
  <2>3. ASSUME NEW b \in newest
        PROVE  /\ b \in Nat
               /\ BucketOf(o, i, b).slot = b
               /\ BucketOf(o, i, b).updateCount = Cardinality(RowsIn(o, i, b))
               /\ b <= BucketOf(o, i, b).firstSlot /\ BucketOf(o, i, b).lastSlot < b + i
    <3>1. b \in BucketsInUse(o, i)
      BY DEF NewestBuckets
    <3> QED
      BY <1>1, <2>1, <3>1, BucketIsStretch
  <2>4. \A b \in buckets : b.slot <= b.firstSlot /\ b.lastSlot < b.slot + i
    BY <2>3
  <2>5. ASSUME buckets # {}
        PROVE  SumFunction(f) =
                  Cardinality({ r \in RowsOf(o) : r.slot >= Min({ b.slot : b \in buckets }) })
    <3>1. { b.slot : b \in buckets } = newest
      BY <2>3
    <3>2. newest \in SUBSET Nat /\ newest # {}
      BY <2>3, <2>5
    <3> DEFINE m == Min(newest)
    <3>3. m \in newest /\ \A b \in newest : m <= b
      <4> HIDE DEF newest
      <4>1. \E x \in newest : \A y \in newest : x =< y
        BY <3>2, LeastNatural
      <4> QED
        BY <4>1 DEF Min
    <3>4. UNION { RowsIn(o, i, b) : b \in newest } = { r \in RowsOf(o) : r.slot >= m }
      <4> HIDE DEF m
      <4> QED
        BY <1>1, <2>1, <3>3, NewestBucketsHold
    <3>5. UNION { part[b] : b \in buckets } = UNION { RowsIn(o, i, b) : b \in newest }
      <4>1. \A b \in newest : BucketOf(o, i, b) \in buckets
                              /\ part[BucketOf(o, i, b)] = RowsIn(o, i, b)
        BY <2>3
      <4>2. \A b \in buckets : b.slot \in newest /\ part[b] = RowsIn(o, i, b.slot)
        BY <2>3
      <4> HIDE DEF part, buckets, newest
      <4> QED
        BY <4>1, <4>2
    <3>6. part \in [buckets -> SUBSET RowsOf(o)]
      BY DEF RowsIn
    <3>7. \A b \in buckets : f[b] = Cardinality(part[b])
      BY <2>3
    <3>8. \A b, c \in buckets : b # c => part[b] \cap part[c] = {}
      <4>1. \A b, c \in buckets : b # c => b.slot # c.slot
        BY <2>3
      <4>2. \A b \in buckets : part[b] = RowsIn(o, i, b.slot)
        OBVIOUS
      <4> HIDE DEF part, buckets
      <4> QED
        BY <4>1, <4>2 DEF RowsIn
    <3>9. IsFiniteSet(RowsOf(o))
      BY <1>1, RowsAreFinite
    <3>10. IsFiniteSet(buckets)
      <4> DEFINE g == [b \in buckets |-> b.slot]
      <4>1. \A b \in newest : b <= slot
        <5> SUFFICES ASSUME NEW b \in newest PROVE b <= slot
          OBVIOUS
        <5>1. PICK r \in RowsOf(o) : b = (r.slot \div i) * i
          BY DEF NewestBuckets, BucketsInUse, Bucket
        <5> DEFINE x == r.slot
        <5>2. x \in Nat /\ x <= slot /\ slot \in Nat
          BY <1>1, RowInTable
        <5>3. (x \div i) * i \in Nat /\ (x \div i) * i <= x
          <6> HIDE DEF x
          <6> QED
            BY <2>1, <5>2, BucketBounds
        <5> QED
          BY <5>1, <5>2, <5>3
      <4>2. slot \in Nat
        BY <1>1 DEF TableOK, ChainOK, ChainTypeOK
      <4>3. IsFiniteSet(newest)
        <5> HIDE DEF newest
        <5> QED
          BY <3>2, <4>1, <4>2, FS_BoundedSetOfNaturals
      <4>4. g \in [buckets -> newest]
        BY <2>3
      <4>5. \A b, c \in buckets : g[b] = g[c] => b = c
        BY <2>3
      <4> HIDE DEF g, buckets
      <4> QED
        BY <4>3, <4>4, <4>5, OneToOne
    <3>11. SumFunction(f) = SumFunctionOnSet(f, buckets)
      BY DEF SumFunction
    <3>12. SumFunctionOnSet(f, buckets) = Cardinality(UNION { part[b] : b \in buckets })
      <4> HIDE DEF f, buckets, part
      <4> QED
        BY <3>6, <3>7, <3>8, <3>9, <3>10, SumOfParts
    <3> HIDE DEF f, buckets, part, newest
    <3> QED
      BY <3>1, <3>4, <3>5, <3>11, <3>12
  <2> QED
    BY <2>2, <2>4, <2>5
<1> QED
  BY <1>1, TableIsKept, PTL

--------------------------------------------------------------------------------
(* Rewards *)

\* The rows of an oracle that are its updates, and the place of one among them.
UpdateRows(o) == { r \in RowsOf(o) : UpdateOf(r) \in Range(updates[o]) }
IndexOf(o, r) == CHOOSE k \in DOMAIN updates[o] : updates[o][k] = UpdateOf(r)

LEMMA IndexedRows == ASSUME NEW o \in Oracles, Indexed(o) PROVE UpdateRows(o) = RowsOf(o)
BY DEF Indexed, UpdateRows

LEMMA IndexOfRow ==
    ASSUME TableOK, NEW o \in Oracles, NEW r \in UpdateRows(o)
    PROVE  /\ IndexOf(o, r) \in DOMAIN updates[o]
           /\ IndexOf(o, r) \in 1 .. Len(updates[o]) /\ Len(updates[o]) \in Nat
           /\ updates[o][IndexOf(o, r)] = UpdateOf(r)
           /\ updates[o][IndexOf(o, r)].slot = r.slot
           /\ updates[o][IndexOf(o, r)].updater = r.updater
           /\ r.slot \in Nat
<1>1. \E k \in DOMAIN updates[o] : updates[o][k] = UpdateOf(r)
  BY DEF UpdateRows, Range
<1>2. IndexOf(o, r) \in DOMAIN updates[o] /\ updates[o][IndexOf(o, r)] = UpdateOf(r)
  BY <1>1 DEF IndexOf
<1>3. UpdateOf(r).slot = r.slot /\ UpdateOf(r).updater = r.updater
  BY DEF UpdateOf
<1>4. Len(updates[o]) \in Nat /\ DOMAIN updates[o] = 1 .. Len(updates[o])
  BY DEF TableOK, ChainOK, ChainTypeOK
<1>5. r.slot \in Nat
  BY RowInTable DEF UpdateRows
<1> QED
  BY <1>2, <1>3, <1>4, <1>5

\* Rows are in the order of their updates.
LEMMA IndexOrder ==
    ASSUME TableOK, NEW o \in Oracles, NEW r \in UpdateRows(o), NEW q \in UpdateRows(o)
    PROVE  /\ IndexOf(o, r) < IndexOf(o, q) <=> r.slot < q.slot
           /\ IndexOf(o, r) = IndexOf(o, q) => r = q
<1> DEFINE j == IndexOf(o, r)
           k == IndexOf(o, q)
<1>1. /\ j \in DOMAIN updates[o] /\ updates[o][j].slot = r.slot
      /\ k \in DOMAIN updates[o] /\ updates[o][k].slot = q.slot
      /\ j \in Nat /\ k \in Nat /\ r.slot \in Nat /\ q.slot \in Nat
  BY IndexOfRow
<1> HIDE DEF j, k
<1>2. j < k => r.slot < q.slot
  BY <1>1 DEF TableOK, ChainOK, UpdatesOK
<1>3. k < j => q.slot < r.slot
  BY <1>1 DEF TableOK, ChainOK, UpdatesOK
<1>4. j = k => r.slot = q.slot
  BY <1>1
<1>5. r.slot = q.slot => r = q
  BY DEF TableOK, RowsOK, RowsOf, UpdateRows
<1> QED
  BY <1>1, <1>2, <1>3, <1>4, <1>5 DEF j, k

\* Every update has its row, when the table is complete.
LEMMA RowOfUpdate ==
    ASSUME TableOK, NEW o \in Oracles, Indexed(o), NEW k \in DOMAIN updates[o]
    PROVE  \E r \in RowsOf(o) : IndexOf(o, r) = k
<1>1. updates[o][k] \in Range(updates[o])
  BY DEF Range
<1>2. PICK r \in RowsOf(o) : UpdateOf(r) = updates[o][k]
  BY <1>1 DEF Indexed
<1> DEFINE j == IndexOf(o, r)
<1>3. j \in DOMAIN updates[o] /\ updates[o][j] = updates[o][k]
  BY <1>2, IndexedRows, IndexOfRow
<1>4. updates[o] \in Seq(Events)
  BY DEF TableOK, ChainOK, ChainTypeOK
<1> HIDE DEF j
<1>5. /\ j \in Nat /\ k \in Nat
      /\ updates[o][j].slot \in Nat /\ updates[o][k].slot \in Nat
  BY <1>3, <1>4, EventsOfSequence
<1>6. ~ (j < k) /\ ~ (k < j)
  BY <1>3, <1>5 DEF TableOK, ChainOK, UpdatesOK
<1>7. j = k
  BY <1>5, <1>6
<1> QED
  BY <1>7 DEF j

\* As many rows are newer than a row as there are updates after its own.
LEMMA RankOfRow ==
    ASSUME TableOK, NEW o \in Oracles, Indexed(o), NEW r \in RowsOf(o)
    PROVE  Cardinality({ x \in RowsOf(o) : x.slot > r.slot }) = Len(updates[o]) - IndexOf(o, r)
<1> DEFINE n == Len(updates[o])
           k == IndexOf(o, r)
           S == { x \in RowsOf(o) : x.slot > r.slot }
           T == k + 1 .. n
           f == [x \in S |-> IndexOf(o, x)]
<1>0. UpdateRows(o) = RowsOf(o)
  BY IndexedRows
<1>1. n \in Nat /\ k \in 1 .. n /\ DOMAIN updates[o] = 1 .. n
  BY <1>0, IndexOfRow DEF TableOK, ChainOK, ChainTypeOK
<1>2. ASSUME NEW x \in RowsOf(o)
      PROVE  /\ IndexOf(o, x) \in 1 .. n
             /\ x.slot > r.slot <=> k + 1 <= IndexOf(o, x)
  <2>1. IndexOf(o, x) \in 1 .. n /\ x.slot \in Nat /\ r.slot \in Nat
    BY <1>0, IndexOfRow
  <2>2. k < IndexOf(o, x) <=> r.slot < x.slot
    BY <1>0, IndexOrder
  <2> HIDE DEF k, n
  <2> QED
    BY <1>1, <2>1, <2>2
<1>3. f \in [S -> T]
  BY <1>1, <1>2
<1>4. \A x, y \in S : f[x] = f[y] => x = y
  BY <1>0, IndexOrder
<1>5. \A t \in T : \E x \in S : f[x] = t
  <2> SUFFICES ASSUME NEW t \in T PROVE \E x \in S : f[x] = t
    OBVIOUS
  <2>1. t \in DOMAIN updates[o] /\ t \in Nat /\ t >= k + 1
    BY <1>1
  <2>2. PICK x \in RowsOf(o) : IndexOf(o, x) = t
    BY <2>1, RowOfUpdate
  <2>3. x \in S
    BY <1>1, <1>2, <2>1, <2>2
  <2> QED
    BY <2>2, <2>3
<1>6. IsFiniteSet(T) /\ Cardinality(T) = n - k
  <2>1. k + 1 \in Int /\ n \in Int /\ k \in Int
    BY <1>1
  <2> DEFINE a == k + 1
  <2>2. IsFiniteSet(a .. n) /\ Cardinality(a .. n) = IF a > n THEN 0 ELSE n - a + 1
    <3> HIDE DEF a
    <3> QED
      BY <2>1, FS_Interval DEF a
  <2> HIDE DEF k, n
  <2> QED
    BY <1>1, <2>1, <2>2
<1> HIDE DEF f, S, T
<1>7. Cardinality(S) = Cardinality(T)
  BY <1>3, <1>4, <1>5, <1>6, OneToOne
<1> QED
  BY <1>6, <1>7 DEF S

\* The rows a reader asks for are those of the newest updates.
LEMMA NewestRowsAre ==
    ASSUME TableOK, NEW o \in Oracles, Indexed(o), NEW limit \in Nat, NEW r \in RowsOf(o)
    PROVE  r \in NewestRows(RowsOf(o), limit) <=> IndexOf(o, r) > Len(updates[o]) - limit
<1>1. IndexOf(o, r) \in 1 .. Len(updates[o]) /\ Len(updates[o]) \in Nat
  BY IndexedRows, IndexOfRow
<1>2. Cardinality({ x \in RowsOf(o) : x.slot > r.slot }) = Len(updates[o]) - IndexOf(o, r)
  BY RankOfRow
<1>3. r \in NewestRows(RowsOf(o), limit) <=>
         Cardinality({ x \in RowsOf(o) : x.slot > r.slot }) < limit
  BY DEF NewestRows
<1> DEFINE k == IndexOf(o, r)
           n == Len(updates[o])
           c == Cardinality({ x \in RowsOf(o) : x.slot > r.slot })
<1>4. c = n - k /\ k \in 1 .. n /\ n \in Nat
  BY <1>1, <1>2
<1>5. c < limit <=> k > n - limit
  <2> HIDE DEF c, n, k
  <2> QED
    BY <1>4
<1> QED
  BY <1>3, <1>5

\* The distribution depends only on who made the updates and in which slots, each one
\* counting once.
LEMMA SameDistribution ==
    ASSUME NEW A, NEW B, IsFiniteSet(B), NEW f \in [A -> B],
           \A x, y \in A : f[x] = f[y] => x = y, \A y \in B : \E x \in A : f[x] = y,
           \A x \in A : f[x].updater = x.updater /\ f[x].slot = x.slot
    PROVE  CalculateDistribution(A) = CalculateDistribution(B)
<1> DEFINE MineA(u) == { e \in A : e.updater = u }
           MineB(u) == { e \in B : e.updater = u }
<1>1. { e.updater : e \in A } = { e.updater : e \in B }
  OBVIOUS
<1>2. \A u : { e.slot : e \in MineA(u) } = { e.slot : e \in MineB(u) }
  OBVIOUS
<1>3. ASSUME NEW u PROVE Cardinality(MineA(u)) = Cardinality(MineB(u))
  <2> DEFINE S == MineA(u)
             T == MineB(u)
             g == [x \in S |-> f[x]]
  <2>1. g \in [S -> T] /\ \A x, y \in S : g[x] = g[y] => x = y
    OBVIOUS
  <2>2. \A t \in T : \E x \in S : g[x] = t
    OBVIOUS
  <2>3. IsFiniteSet(T)
    <3>1. T \in SUBSET B
      OBVIOUS
    <3> HIDE DEF T
    <3> QED
      BY <3>1, FS_Subset
  <2> HIDE DEF g, S, T
  <2>4. Cardinality(S) = Cardinality(T)
    BY <2>1, <2>2, <2>3, OneToOne
  <2> QED
    BY <2>4 DEF S, T
<1> DEFINE Share(c, s) == [updateCount |-> c, firstSlot |-> Min(s), lastSlot |-> Max(s)]
<1>4. CalculateDistribution(A) =
         [u \in { e.updater : e \in A } |->
             Share(Cardinality(MineA(u)), { e.slot : e \in MineA(u) })]
  BY DEF CalculateDistribution
<1>5. CalculateDistribution(B) =
         [u \in { e.updater : e \in B } |->
             Share(Cardinality(MineB(u)), { e.slot : e \in MineB(u) })]
  BY DEF CalculateDistribution
<1> HIDE DEF MineA, MineB, Share
<1>6. \A u : Share(Cardinality(MineA(u)), { e.slot : e \in MineA(u) })
                = Share(Cardinality(MineB(u)), { e.slot : e \in MineB(u) })
  BY <1>2, <1>3
<1> QED
  BY <1>1, <1>4, <1>5, <1>6

\* Nobody is counted more than the updates that took effect and the rows other programs
\* made, and a table of the updates and nothing else pays for the newest ones.
THEOREM RewardsAreEarned == Spec => []RewardsAreOfNewestUpdates
<1>1. ASSUME TableOK PROVE RewardsAreOfNewestUpdates
  <2> SUFFICES
        ASSUME NEW o \in Oracles, NEW limit \in Limits
        PROVE  LET paid   == FetchEventsFromPostgres(o, limit)
                   newest == { k \in DOMAIN updates[o] : k > Len(updates[o]) - limit }
                   shares == CalculateDistribution(paid)
                   earned == CalculateDistribution({ updates[o][k] : k \in newest })
               IN  /\ \A u \in DOMAIN shares :
                         shares[u].updateCount <=
                            Cardinality({ k \in DOMAIN updates[o] : updates[o][k].updater = u })
                            + Cardinality({ r \in ForeignRows(o) : r.updater = u })
                   /\ Indexed(o) => shares = earned
    BY DEF RewardsAreOfNewestUpdates
  <2> DEFINE paid   == FetchEventsFromPostgres(o, limit)
             newest == { k \in DOMAIN updates[o] : k > Len(updates[o]) - limit }
             shares == CalculateDistribution(paid)
             due    == { updates[o][k] : k \in newest }
  <2>1. limit \in Nat /\ paid \subseteq RowsOf(o)
    BY IndexerAssumption DEF FetchEventsFromPostgres, NewestRows
  <2>2. /\ updates[o] \in Seq(Events) /\ Len(updates[o]) \in Nat
        /\ DOMAIN updates[o] = 1 .. Len(updates[o])
    BY <1>1 DEF TableOK, ChainOK, ChainTypeOK
  <2>3. ASSUME NEW u \in DOMAIN shares
        PROVE  shares[u].updateCount <=
                  Cardinality({ k \in DOMAIN updates[o] : updates[o][k].updater = u })
                  + Cardinality({ r \in ForeignRows(o) : r.updater = u })
    <3> DEFINE S == { e \in paid : e.updater = u }
               Own == { e \in UpdateRows(o) : e.updater = u }
               Other == { r \in ForeignRows(o) : r.updater = u }
               T == { k \in DOMAIN updates[o] : updates[o][k].updater = u }
               f == [e \in Own |-> IndexOf(o, e)]
    <3>1. shares[u].updateCount = Cardinality(S)
      BY <2>3 DEF CalculateDistribution
    <3>2. f \in [Own -> T]
      BY <1>1, IndexOfRow
    <3>3. \A x, y \in Own : f[x] = f[y] => x = y
      BY <1>1, IndexOrder
    <3>4. IsFiniteSet(T)
      <4>1. T \in SUBSET (1 .. Len(updates[o]))
        BY <2>2
      <4>2. IsFiniteSet(1 .. Len(updates[o]))
        BY <2>2, FS_Interval
      <4> HIDE DEF T
      <4> QED
        BY <4>1, <4>2, FS_Subset
    <3>5. /\ S \in SUBSET (Own \cup Other)
          /\ Own \in SUBSET RowsOf(o) /\ Other \in SUBSET RowsOf(o)
      BY <2>1 DEF UpdateRows, ForeignRows
    <3>6. IsFiniteSet(RowsOf(o))
      BY <1>1, RowsAreFinite
    <3> HIDE DEF f, S, Own, Other, T
    <3>7. Cardinality(Own) <= Cardinality(T)
      BY <3>2, <3>3, <3>4, OneToOne
    <3>8. IsFiniteSet(Own) /\ IsFiniteSet(Other)
      BY <3>5, <3>6, FS_Subset
    <3>9. /\ IsFiniteSet(Own \cup Other) /\ IsFiniteSet(Own \cap Other)
          /\ Cardinality(Own \cup Other) =
                Cardinality(Own) + Cardinality(Other) - Cardinality(Own \cap Other)
      <4>1. IsFiniteSet(Own \cap Other)
        BY <3>8, FS_Intersection
      <4> QED
        BY <3>8, <4>1, FS_Union
    <3>10. Cardinality(S) <= Cardinality(Own \cup Other) /\ IsFiniteSet(S)
      BY <3>5, <3>9, FS_Subset
    <3>11. /\ Cardinality(S) \in Nat /\ Cardinality(Own) \in Nat /\ Cardinality(Other) \in Nat
           /\ Cardinality(T) \in Nat /\ Cardinality(Own \cap Other) \in Nat
      BY <3>4, <3>8, <3>9, <3>10, FS_CardinalityType
    <3>12. Cardinality(S) <= Cardinality(T) + Cardinality(Other)
      BY <3>7, <3>9, <3>10, <3>11
    <3> QED
      BY <3>1, <3>12 DEF T, Other
  <2>4. ASSUME Indexed(o) PROVE shares = CalculateDistribution(due)
    <3> DEFINE f == [r \in paid |-> UpdateOf(r)]
               g == [e \in due |-> e.slot]
    <3>1. ASSUME NEW r \in RowsOf(o)
          PROVE  /\ r \in paid <=> IndexOf(o, r) \in newest
                 /\ updates[o][IndexOf(o, r)] = UpdateOf(r)
      BY <1>1, <2>1, <2>4, IndexedRows, IndexOfRow, NewestRowsAre DEF FetchEventsFromPostgres
    <3>2. f \in [paid -> due]
      BY <2>1, <3>1
    <3>3. \A r, q \in paid : f[r] = f[q] => r = q
      BY <1>1, <2>1 DEF TableOK, RowsOK, RowsOf, UpdateOf
    <3>4. \A e \in due : \E r \in paid : f[r] = e
      <4> SUFFICES ASSUME NEW k \in newest PROVE \E r \in paid : f[r] = updates[o][k]
        OBVIOUS
      <4>1. PICK r \in RowsOf(o) : IndexOf(o, r) = k
        BY <1>1, <2>4, RowOfUpdate
      <4>2. r \in paid /\ f[r] = updates[o][k]
        BY <3>1, <4>1
      <4> QED
        BY <4>2
    <3>5. \A r \in paid : f[r].updater = r.updater /\ f[r].slot = r.slot
      BY DEF UpdateOf
    <3>6. IsFiniteSet(due)
      <4>1. slot \in Nat
        BY <1>1 DEF TableOK, ChainOK, ChainTypeOK
      <4>2. \A k \in newest : updates[o][k].slot \in 0 .. slot /\ k \in DOMAIN updates[o]
        BY <1>1, <2>2, <4>1, EventsOfSequence DEF TableOK, ChainOK, UpdatesOK
      <4>3. g \in [due -> 0 .. slot]
        BY <4>2
      <4>4. ASSUME NEW j \in newest, NEW k \in newest, updates[o][j].slot = updates[o][k].slot
            PROVE  j = k
        <5>1. j \in DOMAIN updates[o] /\ k \in DOMAIN updates[o] /\ j \in Nat /\ k \in Nat
          BY <2>2
        <5>2. updates[o][j].slot \in Nat /\ updates[o][k].slot \in Nat
          BY <4>1, <4>2
        <5>3. ~ (j < k) /\ ~ (k < j)
          BY <1>1, <4>4, <5>1, <5>2 DEF TableOK, ChainOK, UpdatesOK
        <5> QED
          BY <5>1, <5>3
      <4>5. \A d, e \in due : g[d] = g[e] => d = e
        BY <4>4
      <4>6. IsFiniteSet(0 .. slot)
        BY <4>1, FS_Interval
      <4> HIDE DEF g, due
      <4> QED
        BY <4>3, <4>5, <4>6, OneToOne
    <3> HIDE DEF f, paid, due
    <3>7. CalculateDistribution(paid) = CalculateDistribution(due)
      BY <3>2, <3>3, <3>4, <3>5, <3>6, SameDistribution
    <3> QED
      BY <3>7
  <2> QED
    BY <2>3, <2>4
<1> QED
  BY <1>1, TableIsKept, PTL

--------------------------------------------------------------------------------
(* verify-indexer *)

\* Rows of an oracle that are old enough to be compared.
OldRows(o, last) == { r \in RowsOf(o) : r.slot <= last }

\* What a run has read is still so, unless the chain or the table moved since it began.
CheckOK ==
    /\ check = [step |-> check.step, oracle |-> check.oracle, window |-> check.window,
                chainTwap |-> check.chainTwap, currentSlot |-> check.currentSlot,
                pastRows |-> check.pastRows, moved |-> check.moved]
    /\ check.step # "none" => check.oracle \in Verified /\ check.window \in Windows
    /\ ~ check.moved =>
          /\ check.step \in {"slot", "past", "latest"} =>
                ChainTwap(check.oracle, check.window) = Ok(check.chainTwap)
          /\ check.step \in {"past", "latest"} => check.currentSlot = slot
          /\ check.step = "latest" =>
                check.pastRows = NewestRows(OldRows(check.oracle, slot - check.window), 1)

LEMMA InitCheckOK == Init => CheckOK
<1> SUFFICES ASSUME Init PROVE CheckOK
  OBVIOUS
<1>1. check = NoCheck
  BY DEF Init
<1> QED
  BY <1>1 DEF CheckOK, NoCheck

LEMMA NoCheckOK == ASSUME check' = NoCheck PROVE CheckOK'
BY DEF CheckOK, NoCheck

\* A run whose chain or table moves has nothing more to keep.
LEMMA MovedOK == ASSUME CheckOK, check' = Moved PROVE CheckOK'
<1>1. CASE check = NoCheck
  BY <1>1, NoCheckOK DEF Moved
<1>2. CASE check # NoCheck
  <2>1. check' = [check EXCEPT !.moved = TRUE]
    BY <1>2 DEF Moved
  <2>2. check' = [step |-> check.step, oracle |-> check.oracle, window |-> check.window,
                  chainTwap |-> check.chainTwap, currentSlot |-> check.currentSlot,
                  pastRows |-> check.pastRows, moved |-> TRUE]
    BY <2>1 DEF CheckOK
  <2> QED
    BY <2>2 DEF CheckOK
<1> QED
  BY <1>1, <1>2

\* What the chain says depends on the chain only, and what the table says on the table.
LEMMA SameTwap ==
    ASSUME UNCHANGED <<slot, updates, check.oracle, check.window>>
    PROVE  ChainTwap(check.oracle, check.window)' = ChainTwap(check.oracle, check.window)
BY DEF ChainTwap, Account

LEMMA SameRows ==
    ASSUME UNCHANGED <<rows, slot, check.oracle, check.window>>
    PROVE  NewestRows(OldRows(check.oracle, slot - check.window), 1)' =
              NewestRows(OldRows(check.oracle, slot - check.window), 1)
BY DEF NewestRows, OldRows, RowsOf

LEMMA ReadingsKept == ASSUME CheckOK, UNCHANGED <<slot, updates, rows, check>> PROVE CheckOK'
BY SameTwap, SameRows DEF CheckOK

LEMMA TwapIsOk ==
    ASSUME NEW o, NEW w, ChainTwap(o, w).error = "none"
    PROVE  ChainTwap(o, w) = Ok(ChainTwap(o, w).swap)
BY DEF ChainTwap, Ok, Fails, ComputeSwapBN

LEMMA VerifyKeepsCheck == ASSUME CheckOK, Verify PROVE CheckOK'
<1>1. UNCHANGED <<slot, updates, rows>>
  BY DEF Verify, VerifyRows, ReadChain, ReadSlot, QueryPast, QueryLatest, chainVars
<1>3. ASSUME NEW o \in Verified, NEW w \in Windows, VerifyRows(o, w) PROVE CheckOK'
  <2>1. check' = [step |-> "chain", oracle |-> o, window |-> w, chainTwap |-> 0,
                  currentSlot |-> 0, pastRows |-> {}, moved |-> FALSE]
    BY <1>3 DEF VerifyRows, NoCheck
  <2> QED
    BY <2>1 DEF CheckOK
<1>4. CASE ReadChain
  <2> DEFINE twap == ChainTwap(check.oracle, check.window)
  <2>1. check.step = "chain"
    BY <1>4 DEF ReadChain
  <2>2. CASE twap.error # "none"
    BY <1>4, <2>2, NoCheckOK DEF ReadChain
  <2>3. CASE twap.error = "none"
    <3>1. check' = [check EXCEPT !.step = "slot", !.chainTwap = twap.swap]
      BY <1>4, <2>3 DEF ReadChain
    <3>2. twap = Ok(twap.swap)
      BY <2>3, TwapIsOk
    <3>3. check' = [step |-> "slot", oracle |-> check.oracle, window |-> check.window,
                    chainTwap |-> twap.swap, currentSlot |-> check.currentSlot,
                    pastRows |-> check.pastRows, moved |-> check.moved]
      BY <3>1 DEF CheckOK
    <3>4. ChainTwap(check.oracle, check.window)' = twap
      BY <1>1, <3>3, SameTwap
    <3> HIDE DEF twap
    <3> QED
      BY <2>1, <3>2, <3>3, <3>4 DEF CheckOK
  <2> QED
    BY <2>2, <2>3
<1>5. CASE ReadSlot
  <2>1. check.step = "slot" /\ check' = [check EXCEPT !.step = "past", !.currentSlot = slot]
    BY <1>5 DEF ReadSlot
  <2>2. check' = [step |-> "past", oracle |-> check.oracle, window |-> check.window,
                  chainTwap |-> check.chainTwap, currentSlot |-> slot,
                  pastRows |-> check.pastRows, moved |-> check.moved]
    BY <2>1 DEF CheckOK
  <2>3. ChainTwap(check.oracle, check.window)' = ChainTwap(check.oracle, check.window)
    BY <1>1, <2>2, SameTwap
  <2> QED
    BY <1>1, <2>1, <2>2, <2>3 DEF CheckOK
<1>6. CASE QueryPast
  <2> DEFINE old == NewestRows(OldRows(check.oracle, check.currentSlot - check.window), 1)
  <2>1. check.step = "past" /\ check' = [check EXCEPT !.step = "latest", !.pastRows = old]
    BY <1>6 DEF QueryPast, OldRows
  <2>2. check' = [step |-> "latest", oracle |-> check.oracle, window |-> check.window,
                  chainTwap |-> check.chainTwap, currentSlot |-> check.currentSlot,
                  pastRows |-> old, moved |-> check.moved]
    BY <2>1 DEF CheckOK
  <2>3. ChainTwap(check.oracle, check.window)' = ChainTwap(check.oracle, check.window)
    BY <1>1, <2>2, SameTwap
  <2>4. ~ check.moved => check.currentSlot = slot
    BY <2>1 DEF CheckOK
  <2>5. ~ check.moved => NewestRows(OldRows(check.oracle, slot - check.window), 1)' = old
    <3>1. NewestRows(OldRows(check.oracle, slot - check.window), 1)' =
             NewestRows(OldRows(check.oracle, slot - check.window), 1)
      BY <1>1, <2>2, SameRows
    <3> QED
      BY <2>4, <3>1
  <2> HIDE DEF old
  <2> QED
    BY <1>1, <2>1, <2>2, <2>3, <2>4, <2>5 DEF CheckOK
<1>7. CASE QueryLatest
  BY <1>7, NoCheckOK DEF QueryLatest
<1> QED
  BY <1>3, <1>4, <1>5, <1>6, <1>7 DEF Verify

LEMMA NextCheckOK == CheckOK /\ [Next]_vars => CheckOK'
<1> SUFFICES ASSUME CheckOK, [Next]_vars PROVE CheckOK'
  OBVIOUS
<1>1. CASE Chain
  BY <1>1, MovedOK DEF Chain, AdvanceSlot, Transact
<1>2. CASE Verify
  BY <1>2, VerifyKeepsCheck
<1>3. CASE Start \/ Deliver \/ StreamEnds \/ Shutdown \/ Exit \/ Crash
  BY <1>3, ReadingsKept DEF Start, Deliver, StreamEnds, Shutdown, Exit, Crash, chainVars
<1>4. ASSUME NEW t, NEW newRows, InsertEnds(t, newRows) PROVE CheckOK'
  <2>1. CASE rows' = rows
    <3>1. UNCHANGED <<slot, updates, rows, check>>
      BY <1>4, <2>1 DEF InsertEnds, chainVars
    <3> QED
      BY <3>1, ReadingsKept
  <2>2. CASE rows' # rows
    BY <1>4, <2>2, MovedOK DEF InsertEnds
  <2> QED
    BY <2>1, <2>2
<1>5. ASSUME NEW t \in DOMAIN inserts, Insert(t) \/ InsertFails(t) PROVE CheckOK'
  BY <1>4, <1>5 DEF Insert, InsertFails
<1>6. CASE UNCHANGED vars
  BY <1>6, ReadingsKept DEF vars, chainVars
<1> QED
  BY <1>1, <1>2, <1>3, <1>5, <1>6 DEF Next, Indexer

\* The average of a complete table from the newest old enough row is what the chain says.
LEMMA AveragesAgree ==
    ASSUME TableOK, NEW o \in Oracles, Indexed(o), NEW w \in Nat, NEW twap,
           ChainTwap(o, w) = Ok(twap),
           NEW past \in NewestRows(OldRows(o, slot - w), 1),
           NEW latest \in NewestRows(RowsOf(o), 1)
    PROVE  twap \in Nat /\ DbTwap(past, latest, slot) = twap
<1> DEFINE u == updates[o]
           n == Len(u)
           old == { k \in 1 .. n : k > n - CAPACITY /\ u[k].slot < slot - w + 1 }
           m == Max(old)
           j == IndexOf(o, past)
<1>1. /\ u \in Seq(Events) /\ n \in Nat /\ DOMAIN u = 1 .. n /\ slot \in Nat
      /\ CAPACITY \in Nat \ {0}
  BY IndexerAssumption DEF TableOK, ChainOK, ChainTypeOK
<1>2. \A k \in 1 .. n : /\ u[k].slot \in Nat /\ u[k].price \in Nat /\ u[k].cumulative_price \in Nat
                        /\ u[k].slot <= slot
                        /\ \A i \in 1 .. n : i < k => u[i].slot < u[k].slot
  BY <1>1, EventsOfSequence DEF TableOK, ChainOK, UpdatesOK
\* The newest row is the last update, from which the account was left.
<1>3. latest \in RowsOf(o)
  BY DEF NewestRows
<1>4. IndexOf(o, latest) = n /\ n > 0 /\ u[n] = UpdateOf(latest)
  <2>1. IndexOf(o, latest) > n - 1
    BY <1>3, NewestRowsAre
  <2>2. IndexOf(o, latest) \in 1 .. n /\ u[IndexOf(o, latest)] = UpdateOf(latest)
    BY <1>3, IndexedRows, IndexOfRow
  <2> HIDE DEF u, n
  <2>3. IndexOf(o, latest) = n
    BY <1>1, <2>1, <2>2
  <2> QED
    BY <1>1, <2>2, <2>3
<1>5. Account(o) = [cumulative_price |-> latest.cumulative_price, last_price |-> latest.price,
                    last_slot |-> latest.slot]
  <2>1. u # <<>> /\ Last(u) = u[n]
    BY <1>1, <1>4 DEF Last
  <2>2. Account(o) = [cumulative_price |-> u[n].cumulative_price, last_price |-> u[n].price,
                      last_slot |-> u[n].slot]
    BY <2>1 DEF Account
  <2> QED
    BY <1>4, <2>2 DEF UpdateOf
\* The chain's own answer.
<1>6. /\ old # {} /\ slot # u[m].slot
      /\ twap = DivBN(ExtendedCumulative(Account(o), slot) - u[m].cumulative_price,
                      slot - u[m].slot)
  <2>1. /\ Ok(twap).error = "none" /\ Ok(twap).swap = twap
        /\ Fails("Stale").error # "none" /\ Fails("Insufficient").error # "none"
        /\ Fails("DivisionByZero").error # "none"
    BY DEF Ok, Fails
  <2>2. ChainTwap(o, w) =
           IF slot - Account(o).last_slot > w THEN Fails("Stale")
           ELSE IF old = {} THEN Fails("Insufficient")
           ELSE ComputeSwapBN(ExtendedCumulative(Account(o), slot), u[m].cumulative_price,
                              slot, u[m].slot)
    BY DEF ChainTwap
  <2> HIDE DEF old, m, u
  <2>3. /\ old # {}
        /\ Ok(twap) = ComputeSwapBN(ExtendedCumulative(Account(o), slot),
                                    u[m].cumulative_price, slot, u[m].slot)
    BY <2>1, <2>2
  <2>4. slot # u[m].slot
    BY <2>1, <2>3 DEF ComputeSwapBN
  <2>5. Ok(twap) = Ok(DivBN(ExtendedCumulative(Account(o), slot) - u[m].cumulative_price,
                            slot - u[m].slot))
    BY <2>3, <2>4 DEF ComputeSwapBN
  <2> QED
    BY <2>3, <2>4, <2>5 DEF Ok
<1>7. m \in old /\ \A k \in old : k <= m
  <2>1. old \in SUBSET Nat /\ \A k \in old : k <= n
    BY <1>1
  <2> HIDE DEF old
  <2>2. \E x \in old : \A y \in old : y <= x
    BY <1>1, <1>6, <2>1, GreatestNatural
  <2>3. \E x \in old : \A y \in old : x >= y
    BY <2>1, <2>2
  <2>4. m \in old /\ \A y \in old : m >= y
    BY <2>3 DEF Max
  <2> QED
    BY <2>1, <2>4
\* The row it is compared from is of the same update.
<1>8. past \in RowsOf(o) /\ past.slot <= slot - w
  BY DEF NewestRows, OldRows
<1>9. j \in 1 .. n /\ u[j] = UpdateOf(past) /\ u[j].slot = past.slot /\ past.slot \in Nat
  BY <1>8, IndexedRows, IndexOfRow
<1>10. ASSUME NEW q \in RowsOf(o), q.slot <= slot - w PROVE ~ (q.slot > past.slot)
  <2> DEFINE S == { x \in OldRows(o, slot - w) : x.slot > past.slot }
  <2>1. S \in SUBSET RowsOf(o) /\ IsFiniteSet(RowsOf(o))
    BY RowsAreFinite DEF OldRows
  <2>2. Cardinality(S) < 1
    BY DEF NewestRows
  <2>3. q.slot > past.slot => q \in S
    BY <1>10 DEF OldRows
  <2> HIDE DEF S
  <2>4. IsFiniteSet(S) /\ Cardinality(S) \in Nat
    BY <2>1, FS_Subset, FS_CardinalityType
  <2>5. S = {}
    <3>1. Cardinality(S) = 0
      BY <2>2, <2>4
    <3> QED
      BY <2>4, <3>1, FS_EmptySet
  <2> QED
    BY <2>3, <2>5
<1>11. j = m
  <2>1. m \in 1 .. n /\ m > n - CAPACITY /\ u[m].slot < slot - w + 1
    BY <1>7
  <2>2. PICK q \in RowsOf(o) : IndexOf(o, q) = m
    BY <1>1, <2>1, RowOfUpdate
  <2>3. q.slot = u[m].slot
    <3>1. q \in UpdateRows(o)
      BY <2>2, IndexedRows
    <3> QED
      BY <2>2, <3>1, IndexOfRow
  <2>4. q.slot <= slot - w /\ q.slot \in Nat
    <3>1. u[m].slot \in Nat
      BY <1>2, <2>1
    <3> HIDE DEF u, m, n
    <3> QED
      BY <1>1, <2>1, <2>3, <3>1
  <2>5. ~ (q.slot > past.slot)
    BY <1>10, <2>4
  <2>6. ~ (j < m)
    <3>1. j < m => u[j].slot < u[m].slot
      BY <1>2, <1>9, <2>1
    <3> HIDE DEF j, m, u, n
    <3> QED
      BY <1>9, <2>3, <2>4, <2>5, <3>1
  <2>7. ~ (m < j)
    <3>1. m < j => j \in old
      <4> SUFFICES ASSUME m < j PROVE j > n - CAPACITY /\ u[j].slot < slot - w + 1
        BY <1>9
      <4> HIDE DEF j, m, u, n
      <4> QED
        BY <1>1, <1>8, <1>9, <2>1
    <3> HIDE DEF j, m, old, n, u
    <3> QED
      BY <1>7, <1>9, <2>1, <3>1
  <2> HIDE DEF j, m, u, n
  <2> QED
    BY <1>9, <2>1, <2>6, <2>7
<1>12. u[m].cumulative_price = past.cumulative_price /\ u[m].slot = past.slot
  BY <1>9, <1>11 DEF UpdateOf
\* Hence the two averages.
<1> DEFINE total == latest.cumulative_price + latest.price * (slot - latest.slot)
                       - past.cumulative_price
<1>13. ExtendedCumulative(Account(o), slot) - u[m].cumulative_price = total
  <2>1. /\ Account(o).cumulative_price = latest.cumulative_price
        /\ Account(o).last_price = latest.price /\ Account(o).last_slot = latest.slot
    BY <1>5
  <2>2. ExtendedCumulative(Account(o), slot) =
           latest.cumulative_price + latest.price * (slot - latest.slot)
    BY <2>1, Zenon DEF ExtendedCumulative
  <2>3. /\ latest.cumulative_price \in Nat /\ latest.price \in Nat /\ latest.slot \in Nat
        /\ latest.slot <= slot /\ past.cumulative_price \in Nat
    BY <1>3, <1>8, RowInTable
  <2> DEFINE x == latest.cumulative_price
             y == latest.price * (slot - latest.slot)
             z == past.cumulative_price
  <2>4. x \in Int /\ z \in Int /\ y \in Int
    BY <1>1, <2>3
  <2>5. total = x + (y - z)
    OBVIOUS
  <2>6. (x + y) - z = x + (y - z)
    <3> HIDE DEF x, y, z
    <3> QED
      BY <2>4
  <2>7. ExtendedCumulative(Account(o), slot) = x + y /\ u[m].cumulative_price = z
    BY <1>12, <2>2
  <2> HIDE DEF x, y, z, u, m, total
  <2> QED
    BY <2>5, <2>6, <2>7
<1>14. DbTwap(past, latest, slot) = twap
  BY <1>6, <1>12, <1>13 DEF DbTwap
<1>15. total \in Nat
  <2>1. past.cumulative_price <= latest.cumulative_price
    <3>1. \A k \in DOMAIN updates[o] : updates[o][k].cumulative_price <= Account(o).cumulative_price
      BY AccountOK DEF TableOK, ChainOK
    <3>2. u[m].cumulative_price <= Account(o).cumulative_price
      BY <1>1, <1>7, <3>1
    <3> QED
      BY <1>5, <1>12, <3>2
  <2>2. /\ latest.cumulative_price \in Nat /\ latest.price \in Nat /\ latest.slot \in Nat
        /\ latest.slot <= slot /\ past.cumulative_price \in Nat
    BY <1>3, <1>8, RowInTable
  <2>3. slot - latest.slot \in Nat
    BY <1>1, <2>2
  <2>4. \A x, y \in Nat : x * y \in Nat
    OBVIOUS
  <2>5. latest.price * (slot - latest.slot) \in Nat
    BY <2>2, <2>3, <2>4
  <2> QED
    BY <2>1, <2>2, <2>5
<1>16. slot - past.slot \in Nat \ {0}
  <2>1. past.slot <= slot
    BY <1>8, RowInTable
  <2> QED
    BY <1>1, <1>6, <1>9, <1>12, <2>1
<1>17. twap = DivBN(total, slot - past.slot)
  BY <1>6, <1>12, <1>13
<1> HIDE DEF total
<1>18. \A x \in Nat, d \in Nat \ {0} : DivBN(x, d) \in Nat
  BY DEF DivBN
<1> QED
  BY <1>14, <1>15, <1>16, <1>17, <1>18

\* What verify-indexer compares is the program's average of the same slots: a mismatch
\* means a table that misses an update or has a row that is none, or a chain or table
\* that moved meanwhile.
THEOREM MismatchMeansGap == Spec => []VerifierBlamesGaps
<1>1. ASSUME TableOK, CheckOK PROVE VerifierBlamesGaps
  <2> SUFFICES ASSUME check.step = "latest", TwapFails, ~ check.moved, Indexed(check.oracle)
               PROVE  FALSE
    BY DEF VerifierBlamesGaps
  <2> DEFINE o == check.oracle
             w == check.window
             twap == check.chainTwap
  <2>1. o \in Oracles /\ w \in Nat
    BY <1>1, IndexerAssumption DEF CheckOK
  <2>2. /\ ChainTwap(o, w) = Ok(twap) /\ check.currentSlot = slot
        /\ check.pastRows = NewestRows(OldRows(o, slot - w), 1)
    BY <1>1 DEF CheckOK
  <2>3. PICK past \in check.pastRows, latest \in NewestRows(RowsOf(o), 1) :
           Mismatch(twap, DbTwap(past, latest, check.currentSlot))
    BY DEF TwapFails
  <2>4. Indexed(o)
    OBVIOUS
  <2> HIDE DEF o, w, twap
  <2>5. twap \in Nat /\ DbTwap(past, latest, slot) = twap
    BY <1>1, <2>1, <2>2, <2>3, <2>4, AveragesAgree
  <2>6. Mismatch(twap, twap)
    BY <2>2, <2>3, <2>5
  <2>7. ~ Mismatch(twap, twap)
    <3>1. twap \div 100 >= 0
      BY <2>5
    <3> QED
      BY <2>5, <3>1 DEF Mismatch, DivBN
  <2> QED
    BY <2>6, <2>7
<1>2. Spec => []CheckOK
  BY InitCheckOK, NextCheckOK, PTL DEF Spec
<1> QED
  BY <1>1, <1>2, TableIsKept, PTL
================================================================================

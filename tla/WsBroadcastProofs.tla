---------------------------- MODULE WsBroadcastProofs ----------------------------
(***************************************************************************)
(* Theorems about WsBroadcast, for any clients, windows, polls, limits and *)
(* versions.                                                               *)
(***************************************************************************)
EXTENDS WsBroadcastProperties, FiniteSetTheorems, TLAPS

--------------------------------------------------------------------------------
(* Connections and subscriptions *)

\* One more element in a set that is below a limit.
LEMMA BelowTheLimit ==
    ASSUME NEW S, NEW x, NEW n \in Nat, IsFiniteSet(S), Cardinality(S) < n
    PROVE  IsFiniteSet(S \cup {x}) /\ Cardinality(S \cup {x}) <= n
<1>1. /\ IsFiniteSet(S \cup {x})
      /\ Cardinality(S \cup {x}) = IF x \in S THEN Cardinality(S) ELSE Cardinality(S) + 1
  BY FS_AddElement
<1>2. Cardinality(S) \in Nat
  BY FS_CardinalityType
<1> QED
  BY <1>1, <1>2

SubscriptionsOK == /\ subscriptions \in [Clients -> SUBSET Texts]
                   /\ \A c \in Clients : /\ IsFiniteSet(subscriptions[c])
                                         /\ Cardinality(subscriptions[c]) <= MAX_SUBS_PER_CLIENT

SocketsOK == /\ socket \in [Clients -> {"none", "open", "closing"}]
             /\ IsFiniteSet(clients)
             /\ Cardinality(clients) <= MAX_CONNECTIONS

LEMMA InitLimits == Init => SubscriptionsOK /\ SocketsOK
<1> SUFFICES ASSUME Init PROVE SubscriptionsOK /\ SocketsOK
  OBVIOUS
<1>1. clients = {} /\ \A c \in Clients : subscriptions[c] = {}
  BY DEF Init, clients
<1> QED
  BY <1>1, FS_EmptySet, WsAssumption DEF Init, SubscriptionsOK, SocketsOK

\* Sets of subscriptions that do not grow, and one that grows below the limit.
LEMMA SubscriptionsShrink ==
    ASSUME SubscriptionsOK, subscriptions' \in [Clients -> SUBSET Texts],
           \A c \in Clients : subscriptions'[c] \subseteq subscriptions[c]
    PROVE  SubscriptionsOK'
<1>1. ASSUME NEW c \in Clients
      PROVE  /\ IsFiniteSet(subscriptions'[c])
             /\ Cardinality(subscriptions'[c]) <= MAX_SUBS_PER_CLIENT
  <2>1. /\ IsFiniteSet(subscriptions'[c])
        /\ Cardinality(subscriptions'[c]) <= Cardinality(subscriptions[c])
    BY FS_Subset DEF SubscriptionsOK
  <2> QED
    BY <2>1, FS_CardinalityType, WsAssumption DEF SubscriptionsOK
<1> QED
  BY <1>1 DEF SubscriptionsOK

LEMMA SubscribeKeepsLimit ==
    ASSUME SubscriptionsOK, NEW c \in Clients, NEW w \in Texts, Subscribe(c, w)
    PROVE  SubscriptionsOK'
<1> DEFINE key == ParseInt[w]
<1>1. /\ subscriptions' = [subscriptions EXCEPT ![c] = @ \cup {key}]
      /\ Cardinality(subscriptions[c]) < MAX_SUBS_PER_CLIENT
      /\ key \in Texts
  BY WsAssumption DEF Subscribe
<1> HIDE DEF key
<1>2. /\ IsFiniteSet(subscriptions[c] \cup {key})
      /\ Cardinality(subscriptions[c] \cup {key}) <= MAX_SUBS_PER_CLIENT
  BY <1>1, BelowTheLimit, WsAssumption DEF SubscriptionsOK
<1> QED
  BY <1>1, <1>2 DEF SubscriptionsOK

\* Sockets that close, and one more that opens.
LEMMA SocketsShrink ==
    ASSUME SocketsOK, socket' \in [Clients -> {"none", "open", "closing"}],
           clients' \subseteq clients
    PROVE  SocketsOK'
<1>1. IsFiniteSet(clients') /\ Cardinality(clients') <= Cardinality(clients)
  BY FS_Subset DEF SocketsOK
<1> QED
  BY <1>1, FS_CardinalityType, WsAssumption DEF SocketsOK

LEMMA ConnectKeepsLimit ==
    ASSUME SocketsOK, NEW c \in Clients, Connect(c) PROVE SocketsOK'
<1>1. clients' = clients \cup {c}
  BY DEF clients, Connect, SocketsOK
<1>2. IsFiniteSet(clients \cup {c}) /\ Cardinality(clients \cup {c}) <= MAX_CONNECTIONS
  BY BelowTheLimit, WsAssumption DEF SocketsOK, Connect
<1>3. socket' \in [Clients -> {"none", "open", "closing"}]
  BY DEF SocketsOK, Connect
<1> QED
  BY <1>1, <1>2, <1>3 DEF SocketsOK

LEMMA ReplyKeepsClients ==
    ASSUME SocketsOK, NEW c \in clients, Reply(c) PROVE SocketsOK'
<1>1. c \in Clients
  BY DEF clients
<1>2. socket' \in [Clients -> {"none", "open", "closing"}] /\ clients' \subseteq clients
  BY <1>1 DEF Reply, SocketsOK, clients
<1> QED
  BY <1>2, SocketsShrink

LEMMA NextLimits ==
    SubscriptionsOK /\ SocketsOK /\ [Next]_vars => SubscriptionsOK' /\ SocketsOK'
<1> SUFFICES ASSUME SubscriptionsOK, SocketsOK, [Next]_vars
             PROVE  SubscriptionsOK' /\ SocketsOK'
  OBVIOUS
<1>1. ASSUME UNCHANGED subscriptions PROVE SubscriptionsOK'
  BY <1>1 DEF SubscriptionsOK
<1>2. ASSUME UNCHANGED socket PROVE SocketsOK'
  BY <1>2 DEF SocketsOK, clients
<1>3. ASSUME NEW c \in Clients, Connect(c) PROVE SubscriptionsOK' /\ SocketsOK'
  BY <1>1, <1>3, ConnectKeepsLimit DEF Connect
<1>4. ASSUME NEW c \in Clients, Close(c) PROVE SubscriptionsOK' /\ SocketsOK'
  <2>1. /\ subscriptions' \in [Clients -> SUBSET Texts]
        /\ \A d \in Clients : subscriptions'[d] \subseteq subscriptions[d]
    BY <1>4 DEF Close, SubscriptionsOK
  <2>2. socket' \in [Clients -> {"none", "open", "closing"}] /\ clients' \subseteq clients
    BY <1>4 DEF Close, SocketsOK, clients
  <2> QED
    BY <2>1, <2>2, SubscriptionsShrink, SocketsShrink
<1>5. ASSUME NEW c \in Clients, RefuseMessage(c) PROVE SubscriptionsOK' /\ SocketsOK'
  BY <1>1, <1>5, ReplyKeepsClients DEF RefuseMessage
<1>6. ASSUME NEW c \in Clients, NEW w \in Texts, Subscribe(c, w)
      PROVE  SubscriptionsOK' /\ SocketsOK'
  BY <1>6, SubscribeKeepsLimit, ReplyKeepsClients DEF Subscribe
<1>7. ASSUME NEW c \in Clients, NEW w \in Texts, Unsubscribe(c, w)
      PROVE  SubscriptionsOK' /\ SocketsOK'
  <2>1. /\ subscriptions' \in [Clients -> SUBSET Texts]
        /\ \A d \in Clients : subscriptions'[d] \subseteq subscriptions[d]
    BY <1>7 DEF Unsubscribe, SubscriptionsOK
  <2> QED
    BY <1>7, <2>1, SubscriptionsShrink, ReplyKeepsClients DEF Unsubscribe
<1>8. ASSUME NEW results, Broadcast(results), UNCHANGED subscriptions
      PROVE  SubscriptionsOK' /\ SocketsOK'
  <2>1. socket' \in [Clients -> {"none", "open", "closing"}] /\ clients' \subseteq clients
    BY <1>8 DEF Broadcast, SocketsOK, clients
  <2> QED
    BY <1>1, <1>8, <2>1, SocketsShrink
<1>9. ASSUME NEW i \in Polls, StartPoll(i) \/ PollStep(i)
      PROVE  SubscriptionsOK' /\ SocketsOK'
  BY <1>1, <1>2, <1>8, <1>9
     DEF StartPoll, PollStep, FetchOracle, StoreTwap, StoreError, Store, clientVars
<1>10. CASE NoClients
  <2>1. /\ subscriptions' \in [Clients -> SUBSET Texts]
        /\ \A c \in Clients : subscriptions'[c] \subseteq subscriptions[c]
    BY <1>10 DEF NoClients, SubscriptionsOK
  <2>2. socket' \in [Clients -> {"none", "open", "closing"}] /\ clients' \subseteq clients
    BY <1>10 DEF NoClients, SocketsOK, clients
  <2> QED
    BY <2>1, <2>2, SubscriptionsShrink, SocketsShrink
<1>11. CASE UpdateOracle \/ AttachWebSocket \/ UNCHANGED vars
  BY <1>1, <1>2, <1>11 DEF UpdateOracle, AttachWebSocket, vars, clientVars
<1> QED
  BY <1>3, <1>4, <1>5, <1>6, <1>7, <1>9, <1>10, <1>11 DEF Next, MessageThrows, StopBroadcast

--------------------------------------------------------------------------------
(* Polls *)

Results == UNION { [keys -> Nat \cup {Failed}] : keys \in SUBSET Texts }

Poll == [busy : BOOLEAN, todo : SUBSET Texts, began : Nat, read : Nat, results : Results,
         overlapped : BOOLEAN]

\* A poll has read and holds only versions that were current while it ran.
IsCurrent(p, v) ==
    /\ p.began <= v
    /\ p.read = 0 \/ (p.began <= p.read /\ p.read <= v)
    /\ \A k \in DOMAIN p.results :
          p.results[k] = Failed \/ p.results[k] \in p.began .. v

PollsOK == /\ version \in 1 .. MaxVersion
           /\ poll \in [Polls -> Poll]
           /\ \A i \in Polls : IsCurrent(poll[i], version)

SentOK == sent \subseteq [client : Clients, key : Texts, result : 0 .. version \cup {Failed}]

LEMMA NoResults == Idle.results \in Results /\ DOMAIN Idle.results = {}
<1>1. Idle.results \in [{} -> Nat \cup {Failed}]
  BY DEF Idle
<1> QED
  BY <1>1 DEF Results

LEMMA OneMoreResult ==
    ASSUME NEW old \in Results, NEW k \in Texts, NEW result \in Nat \cup {Failed}
    PROVE  [j \in DOMAIN old \cup {k} |-> IF j = k THEN result ELSE old[j]] \in Results
<1>1. PICK keys \in SUBSET Texts : old \in [keys -> Nat \cup {Failed}]
  BY DEF Results
<1> DEFINE new == [j \in DOMAIN old \cup {k} |-> IF j = k THEN result ELSE old[j]]
<1>2. new \in [keys \cup {k} -> Nat \cup {Failed}]
  BY <1>1
<1>3. keys \cup {k} \in SUBSET Texts
  OBVIOUS
<1> QED
  BY <1>2, <1>3 DEF Results

LEMMA IdleOK == Idle \in Poll /\ \A v \in Nat : IsCurrent(Idle, v)
<1> DEFINE none == [k \in {} |-> 0]
<1>1. none \in Results /\ DOMAIN none = {}
  BY NoResults DEF Idle
<1>2. Idle = [busy |-> FALSE, todo |-> {}, began |-> 0, read |-> 0, results |-> none,
             overlapped |-> FALSE]
  BY DEF Idle
<1> HIDE DEF none
<1>3. Idle \in Poll
  BY <1>1, <1>2 DEF Poll
<1> QED
  BY <1>1, <1>2, <1>3 DEF IsCurrent

LEMMA InitPollsOK == Init => PollsOK /\ SentOK
<1> SUFFICES ASSUME Init PROVE PollsOK /\ SentOK
  OBVIOUS
<1>1. PollsOK
  BY IdleOK, WsAssumption DEF Init, PollsOK
<1>2. SentOK
  BY DEF Init, SentOK
<1> QED
  BY <1>1, <1>2

LEMMA QuietKeepsSent == Quiet => SentOK'
BY DEF Quiet, SentOK

\* A broadcast sends some of its results.
LEMMA WhatIsBroadcast ==
    ASSUME NEW results, Broadcast(results)
    PROVE  \A m \in sent' : \E c \in Clients, k \in DOMAIN results :
              m = [client |-> c, key |-> k, result |-> results[k]]
<1> DEFINE all == { [client |-> s[1], key |-> s[2], result |-> results[s[2]]] :
                      s \in { r \in clients \X DOMAIN results : r[1] \in Recipients(r[2]) } }
<1>1. sent' \subseteq all
  BY DEF Broadcast
<1>2. ASSUME NEW s \in clients \X DOMAIN results
      PROVE  s[1] \in Clients /\ s[2] \in DOMAIN results
  BY DEF clients
<1> QED
  BY <1>1, <1>2

\* A poll that is replaced by another current one.
LEMMA OnePollChanges ==
    ASSUME PollsOK, UNCHANGED version, NEW i \in Polls, NEW p \in Poll,
           IsCurrent(p, version), poll' = [poll EXCEPT ![i] = p]
    PROVE  PollsOK'
BY DEF PollsOK

LEMMA StoreKeepsPolls ==
    ASSUME PollsOK, NEW i \in Polls, NEW k \in Texts, NEW result,
           result = Failed \/ result \in poll[i].began .. version,
           Store(i, k, result)
    PROVE  PollsOK' /\ SentOK'
<1> DEFINE p == poll[i]
           results == [j \in DOMAIN p.results \cup {k} |->
                          IF j = k THEN result ELSE p.results[j]]
           next == [busy |-> p.busy, todo |-> p.todo \ {k}, began |-> p.began,
                    read |-> 0, results |-> results, overlapped |-> p.overlapped]
<1>1. p \in Poll /\ IsCurrent(p, version) /\ version \in Nat
  BY DEF PollsOK
<1>2. /\ p.busy \in BOOLEAN /\ p.todo \in SUBSET Texts /\ p.began \in Nat
      /\ p.results \in Results /\ p.overlapped \in BOOLEAN
  BY <1>1, Zenon DEF Poll
<1>3. results \in Results
  <2>1. result \in Nat \cup {Failed}
    BY <1>1, <1>2
  <2> QED
    BY <1>2, <2>1, OneMoreResult
<1>4. \A j \in DOMAIN results : results[j] = Failed \/ results[j] \in p.began .. version
  BY <1>1 DEF IsCurrent
<1>5. CASE poll[i].todo = {k}
  <2>1. poll' = [poll EXCEPT ![i] = Idle] /\ UNCHANGED version /\ Broadcast(results)
    BY <1>5 DEF Store
  <2>2. PollsOK'
    BY <1>1, <2>1, IdleOK, OnePollChanges
  <2>3. \A j \in DOMAIN results : j \in Texts /\ results[j] \in 0 .. version \cup {Failed}
    <3>1. p.results \in Results => DOMAIN p.results \subseteq Texts
      BY DEF Results
    <3>2. DOMAIN results \subseteq Texts
      BY <1>2, <3>1
    <3> HIDE DEF p, results
    <3> QED
      BY <1>1, <1>2, <1>4, <3>2
  <2>4. SentOK'
    <3> HIDE DEF p, results
    <3> QED
      BY <2>1, <2>3, WhatIsBroadcast DEF SentOK
  <2> QED
    BY <2>2, <2>4
<1>6. CASE poll[i].todo # {k}
  <2>1. poll' = [poll EXCEPT ![i] = next] /\ UNCHANGED version /\ Quiet
    BY <1>6 DEF Store, PollsOK
  <2>2. next \in Poll
    BY <1>2, <1>3 DEF Poll
  <2>3. IsCurrent(next, version)
    <3> HIDE DEF p, results
    <3> QED
      BY <1>1, <1>4 DEF IsCurrent
  <2>4. PollsOK'
    <3> HIDE DEF next
    <3> QED
      BY <2>1, <2>2, <2>3, OnePollChanges
  <2> QED
    BY <2>1, <2>4, QuietKeepsSent
<1> QED
  BY <1>5, <1>6

LEMMA NextPollsOK ==
    PollsOK /\ SentOK /\ SubscriptionsOK /\ [Next]_vars => PollsOK' /\ SentOK'
<1> SUFFICES ASSUME PollsOK, SentOK, SubscriptionsOK, [Next]_vars PROVE PollsOK' /\ SentOK'
  OBVIOUS
<1>1. ASSUME UNCHANGED <<version, poll>>, Quiet PROVE PollsOK' /\ SentOK'
  <2>1. PollsOK'
    BY <1>1 DEF PollsOK
  <2> QED
    BY <1>1, <2>1, QuietKeepsSent
<1>2. CASE UpdateOracle
  <2>1. /\ version' = version + 1 /\ version < MaxVersion
        /\ poll' = poll /\ Quiet
    BY <1>2 DEF UpdateOracle
  <2>2. \A i \in Polls : IsCurrent(poll[i], version + 1)
    <3> SUFFICES ASSUME NEW i \in Polls PROVE IsCurrent(poll[i], version + 1)
      OBVIOUS
    <3>1. /\ poll[i].began \in Nat /\ poll[i].read \in Nat /\ version \in Nat
          /\ IsCurrent(poll[i], version)
      BY DEF PollsOK, Poll
    <3> QED
      BY <3>1 DEF IsCurrent
  <2>3. PollsOK'
    BY <2>1, <2>2, WsAssumption DEF PollsOK
  <2> QED
    BY <2>1, <2>3, QuietKeepsSent
<1>3. ASSUME NEW c \in Clients,
             \/ Connect(c) \/ Close(c) \/ RefuseMessage(c)
             \/ \E w \in Texts : Subscribe(c, w) \/ Unsubscribe(c, w)
      PROVE  PollsOK' /\ SentOK'
  BY <1>1, <1>3 DEF Connect, Close, RefuseMessage, Subscribe, Unsubscribe
<1>4. ASSUME NEW i \in Polls, StartPoll(i) PROVE PollsOK' /\ SentOK'
  <2> DEFINE o == { j \in Polls \ {i} : poll[j].busy } # {}
             p == [busy |-> TRUE, todo |-> Subscribed, began |-> version,
                   read |-> 0, results |-> Idle.results, overlapped |-> o]
  <2>1. /\ UNCHANGED version /\ Quiet
        /\ poll' = [j \in Polls |->
               IF j = i THEN p
               ELSE IF j \in { l \in Polls \ {i} : poll[l].busy }
                    THEN [poll[j] EXCEPT !.overlapped = TRUE]
               ELSE poll[j]]
    BY <1>4 DEF StartPoll
  <2>2. Subscribed \in SUBSET Texts
    BY DEF Subscribed, clients, SubscriptionsOK
  <2>3. o \in BOOLEAN
    OBVIOUS
  <2>4. p \in Poll /\ IsCurrent(p, version)
    <3> HIDE DEF o
    <3> QED
      BY <2>2, <2>3, NoResults DEF Poll, IsCurrent, PollsOK
  <2>5. ASSUME NEW j \in Polls
        PROVE  /\ [poll[j] EXCEPT !.overlapped = TRUE] \in Poll
               /\ IsCurrent([poll[j] EXCEPT !.overlapped = TRUE], version)
    BY DEF PollsOK, Poll, IsCurrent
  <2>6. PollsOK'
    <3> HIDE DEF p
    <3> QED
      BY <2>1, <2>4, <2>5 DEF PollsOK
  <2> QED
    BY <2>1, <2>6, QuietKeepsSent
<1>5. ASSUME NEW i \in Polls, FetchOracle(i) PROVE PollsOK' /\ SentOK'
  <2> DEFINE p == [poll[i] EXCEPT !.read = version]
  <2>1. poll' = [poll EXCEPT ![i] = p] /\ UNCHANGED version /\ Quiet
    BY <1>5 DEF FetchOracle, PollsOK
  <2>2. p \in Poll /\ IsCurrent(p, version)
    BY DEF PollsOK, Poll, IsCurrent
  <2>3. PollsOK'
    <3> HIDE DEF p
    <3> QED
      BY <2>1, <2>2, OnePollChanges
  <2> QED
    BY <2>1, <2>3, QuietKeepsSent
<1>6. ASSUME NEW i \in Polls, NEW k \in Texts, StoreTwap(i, k) PROVE PollsOK' /\ SentOK'
  <2>1. poll[i].read \in poll[i].began .. version
    BY <1>6 DEF StoreTwap, PollsOK, IsCurrent, Poll
  <2> QED
    BY <1>6, <2>1, StoreKeepsPolls DEF StoreTwap
<1>7. ASSUME NEW i \in Polls, NEW k \in Texts, StoreError(i, k) PROVE PollsOK' /\ SentOK'
  BY <1>7, StoreKeepsPolls DEF StoreError
<1>8. CASE StopBroadcast \/ AttachWebSocket
  BY <1>1, <1>8 DEF StopBroadcast, AttachWebSocket
<1>9. ASSUME NEW c \in Clients, MessageThrows(c) PROVE PollsOK' /\ SentOK'
  <2>1. poll' = [i \in Polls |-> Idle] /\ UNCHANGED version /\ Quiet
    BY <1>9 DEF MessageThrows
  <2>2. PollsOK'
    BY <2>1, IdleOK DEF PollsOK
  <2> QED
    BY <2>1, <2>2, QuietKeepsSent
<1>10. CASE UNCHANGED vars
  BY <1>10 DEF vars, PollsOK, SentOK
<1> QED
  BY <1>2, <1>3, <1>4, <1>5, <1>6, <1>7, <1>8, <1>9, <1>10 DEF Next, PollStep

--------------------------------------------------------------------------------
(* Overlapping polls *)

\* Polls in flight together know of each other, and a poll that was always alone began
\* after every result that was sent.
OverlapOK ==
    /\ \A v \in outdated : v \in Nat /\ 1 <= v /\ v < version
    /\ \A i \in Polls : poll[i].todo # {} => poll[i].busy
    /\ \A i \in Polls : poll[i].busy /\ ~ poll[i].overlapped =>
          /\ \A v \in outdated : v < poll[i].began
          /\ \A j \in Polls \ {i} : ~ poll[j].busy

LEMMA InitOverlapOK == Init => OverlapOK
BY DEF Init, OverlapOK, Idle

\* Polls that go on as they were, while nothing is sent.
LEMMA OverlapStays ==
    ASSUME OverlapOK, PollsOK, PollsOK', version <= version', outdated' = outdated,
           \A i \in Polls : /\ poll'[i].busy = poll[i].busy
                            /\ poll'[i].began = poll[i].began
                            /\ poll'[i].overlapped = poll[i].overlapped
                            /\ poll'[i].todo \subseteq poll[i].todo
    PROVE  OverlapOK'
<1>1. \A v \in outdated' : v \in Nat /\ 1 <= v /\ v < version'
  BY DEF OverlapOK, PollsOK
<1> QED
  BY <1>1 DEF OverlapOK

LEMMA StartKeepsOverlap ==
    ASSUME OverlapOK, PollsOK, PollsOK', NEW i \in Polls, StartPoll(i)
    PROVE  OverlapOK'
<1> DEFINE others == { j \in Polls \ {i} : poll[j].busy }
<1>1. /\ version' = version /\ outdated' = outdated
      /\ poll'[i].busy /\ poll'[i].began = version
      /\ poll'[i].overlapped = (others # {})
  BY DEF StartPoll, Quiet
<1>2. ASSUME NEW j \in Polls \ {i}
      PROVE  /\ poll'[j].todo = poll[j].todo /\ poll'[j].busy = poll[j].busy
             /\ poll'[j].busy => poll'[j].overlapped
  <2>1. poll[j] \in Poll /\ poll'[j] = IF j \in others
                                       THEN [poll[j] EXCEPT !.overlapped = TRUE] ELSE poll[j]
    BY DEF StartPoll, PollsOK
  <2> QED
    BY <2>1 DEF Poll
<1>3. ASSUME ~ poll'[i].overlapped
      PROVE  /\ \A v \in outdated' : v < poll'[i].began
             /\ \A j \in Polls \ {i} : ~ poll'[j].busy
  <2>1. \A j \in Polls \ {i} : ~ poll'[j].busy
    BY <1>1, <1>2, <1>3
  <2>2. \A v \in outdated : v < version
    BY DEF OverlapOK, PollsOK
  <2> QED
    BY <1>1, <2>1, <2>2
<1> QED
  BY <1>1, <1>2, <1>3 DEF OverlapOK

\* The last result of a poll: what it sends is as new as the poll, and not newer than
\* the oracle.
LEMMA BroadcastIsFresh ==
    ASSUME PollsOK, NEW i \in Polls, NEW k \in Texts, NEW result,
           result = Failed \/ result \in poll[i].began .. version,
           Store(i, k, result), poll[i].todo = {k}
    PROVE  /\ poll' = [poll EXCEPT ![i] = Idle] /\ version' = version
           /\ \A m \in sent' : m.result = Failed \/ m.result \in poll[i].began .. version
           /\ outdated' = outdated \cup
                 { v \in 1 .. version : \E m \in sent' : m.result # Failed /\ v < m.result }
<1> DEFINE results == [j \in DOMAIN poll[i].results \cup {k} |->
                          IF j = k THEN result ELSE poll[i].results[j]]
<1>1. Broadcast(results) /\ poll' = [poll EXCEPT ![i] = Idle] /\ version' = version
  BY DEF Store
<1>2. \A j \in DOMAIN results :
         results[j] = Failed \/ results[j] \in poll[i].began .. version
  BY DEF PollsOK, IsCurrent
<1> HIDE DEF results
<1>3. \A m \in sent' : m.result = Failed \/ m.result \in poll[i].began .. version
  BY <1>1, <1>2, WhatIsBroadcast
<1> QED
  BY <1>1, <1>3 DEF Broadcast

LEMMA EndKeepsOverlap ==
    ASSUME OverlapOK, PollsOK, NEW i \in Polls, NEW k \in Texts, NEW result,
           result = Failed \/ result \in poll[i].began .. version,
           Store(i, k, result), poll[i].todo = {k}
    PROVE  OverlapOK'
<1>1. poll' = [poll EXCEPT ![i] = Idle] /\ version' = version
  BY BroadcastIsFresh
<1>2. \A v \in outdated' : v \in Nat /\ 1 <= v /\ v < version
  <2>1. \A m \in sent' : m.result = Failed \/ m.result \in poll[i].began .. version
    BY BroadcastIsFresh
  <2>2. outdated' = outdated \cup
          { v \in 1 .. version : \E m \in sent' : m.result # Failed /\ v < m.result }
    BY BroadcastIsFresh
  <2>3. poll[i].began \in Nat /\ version \in Nat
    BY DEF PollsOK, Poll
  <2> QED
    BY <2>1, <2>2, <2>3 DEF OverlapOK
<1>3. ~ poll'[i].busy /\ poll'[i].todo = {}
  BY <1>1 DEF PollsOK, Idle
\* The others were in flight together with this one.
<1>4. ASSUME NEW j \in Polls \ {i}
      PROVE  poll'[j] = poll[j] /\ (poll[j].busy => poll[j].overlapped)
  BY <1>1 DEF PollsOK, OverlapOK
<1>5. \A j \in Polls : poll'[j].busy => poll'[j].overlapped
  BY <1>3, <1>4
<1>6. \A j \in Polls : poll'[j].todo # {} => poll'[j].busy
  BY <1>3, <1>4 DEF OverlapOK
<1> QED
  BY <1>1, <1>2, <1>5, <1>6 DEF OverlapOK

LEMMA NextOverlapOK == OverlapOK /\ PollsOK /\ PollsOK' /\ [Next]_vars => OverlapOK'
<1> SUFFICES ASSUME OverlapOK, PollsOK, PollsOK', [Next]_vars PROVE OverlapOK'
  OBVIOUS
<1>0. version \in Nat
  BY DEF PollsOK
<1>1. ASSUME poll' = poll, version <= version', outdated' = outdated PROVE OverlapOK'
  BY <1>1, OverlapStays
<1>2. CASE UpdateOracle
  BY <1>0, <1>1, <1>2 DEF UpdateOracle, Quiet
<1>3. ASSUME NEW c \in Clients,
             \/ Connect(c) \/ Close(c) \/ RefuseMessage(c)
             \/ \E w \in Texts : Subscribe(c, w) \/ Unsubscribe(c, w)
      PROVE  OverlapOK'
  BY <1>0, <1>1, <1>3 DEF Connect, Close, RefuseMessage, Subscribe, Unsubscribe, Quiet
<1>4. ASSUME NEW c \in Clients, MessageThrows(c) PROVE OverlapOK'
  BY <1>4 DEF MessageThrows, Quiet, Idle, OverlapOK
<1>5. ASSUME NEW i \in Polls, StartPoll(i) PROVE OverlapOK'
  BY <1>5, StartKeepsOverlap
<1>6. ASSUME NEW i \in Polls, FetchOracle(i) PROVE OverlapOK'
  <2>1. /\ poll' = [poll EXCEPT ![i] = [poll[i] EXCEPT !.read = version]]
        /\ version' = version /\ outdated' = outdated
    BY <1>6 DEF FetchOracle, Quiet, PollsOK
  <2> QED
    BY <1>0, <2>1, OverlapStays DEF PollsOK, Poll
<1>7. ASSUME NEW i \in Polls, NEW k \in Texts, NEW result,
             result = Failed \/ result \in poll[i].began .. version, Store(i, k, result)
      PROVE  OverlapOK'
  <2>1. CASE poll[i].todo = {k}
    BY <1>7, <2>1, EndKeepsOverlap
  <2>2. CASE poll[i].todo # {k}
    <3> DEFINE results == [j \in DOMAIN poll[i].results \cup {k} |->
                              IF j = k THEN result ELSE poll[i].results[j]]
               next == [busy |-> poll[i].busy, todo |-> poll[i].todo \ {k},
                        began |-> poll[i].began, read |-> 0, results |-> results,
                        overlapped |-> poll[i].overlapped]
    <3>1. /\ poll' = [poll EXCEPT ![i] = next]
          /\ version' = version /\ outdated' = outdated
      BY <1>7, <2>2 DEF Store, Quiet, PollsOK
    <3>2. \A j \in Polls : poll'[j] = IF j = i THEN next ELSE poll[j]
      <4> HIDE DEF next
      <4> QED
        BY <3>1 DEF PollsOK
    <3>3. \A j \in Polls : /\ poll'[j].busy = poll[j].busy
                           /\ poll'[j].began = poll[j].began
                           /\ poll'[j].overlapped = poll[j].overlapped
                           /\ poll'[j].todo \subseteq poll[j].todo
      <4> TAKE j \in Polls
      <4>1. CASE j # i
        BY <3>2, <4>1, Zenon
      <4>2. poll'[i] = next
        BY <3>2
      <4>3. /\ poll'[i].busy = poll[i].busy
            /\ poll'[i].began = poll[i].began
            /\ poll'[i].overlapped = poll[i].overlapped
            /\ poll'[i].todo = poll[i].todo \ {k}
        <5> HIDE DEF results
        <5> QED
          BY <4>2
      <4> QED
        BY <4>1, <4>3
    <3> QED
      BY <1>0, <3>1, <3>3, OverlapStays
  <2> QED
    BY <2>1, <2>2
<1>8. ASSUME NEW i \in Polls, NEW k \in Texts, StoreTwap(i, k) \/ StoreError(i, k)
      PROVE  OverlapOK'
  BY <1>7, <1>8 DEF StoreTwap, StoreError, PollsOK, IsCurrent, Poll
<1>9. CASE StopBroadcast \/ AttachWebSocket \/ UNCHANGED vars
  BY <1>0, <1>1, <1>9 DEF StopBroadcast, AttachWebSocket, vars, Quiet
<1> QED
  BY <1>2, <1>3, <1>4, <1>5, <1>6, <1>8, <1>9 DEF Next, PollStep

--------------------------------------------------------------------------------
(* Theorems *)

ServiceOK == SubscriptionsOK /\ SocketsOK /\ PollsOK /\ SentOK /\ OverlapOK

LEMMA ServiceIsKept == Spec => []ServiceOK
<1>1. Init => ServiceOK
  BY InitLimits, InitPollsOK, InitOverlapOK DEF ServiceOK
<1>2. ServiceOK /\ [Next]_vars => ServiceOK'
  BY NextLimits, NextPollsOK, NextOverlapOK DEF ServiceOK
<1> QED
  BY <1>1, <1>2, PTL DEF Spec

\* However connections, closes, messages and polls interleave, the service keeps to its
\* limits of connections and subscriptions, and sends versions it can have read.
THEOREM ServiceKeepsLimits == Spec => []WsTypeOK
<1>1. ServiceOK => WsTypeOK
  <2> SUFFICES ASSUME ServiceOK PROVE WsTypeOK
    OBVIOUS
  <2>1. \A i \in Polls : poll[i].read \in 0 .. version /\ poll[i].began \in 0 .. version
    BY DEF ServiceOK, PollsOK, Poll, IsCurrent
  <2>2. outdated \subseteq 1 .. version
    BY DEF ServiceOK, OverlapOK, PollsOK
  <2> QED
    BY <2>1, <2>2
       DEF ServiceOK, SubscriptionsOK, SocketsOK, PollsOK, SentOK, WsTypeOK
<1> QED
  BY <1>1, ServiceIsKept, PTL

\* What a step sends: nothing, or the last result of one poll with those before it.
LEMMA WhatIsSent ==
    ASSUME ServiceOK, Next
    PROVE  \/ sent' = {}
           \/ \E result : \E i \in Polls, k \in Texts :
                 /\ result = Failed \/ result \in poll[i].began .. version
                 /\ Store(i, k, result) /\ poll[i].todo = {k}
<1>1. ASSUME NEW i \in Polls, NEW k \in Texts, StoreTwap(i, k), sent' # {}
      PROVE  /\ poll[i].read \in poll[i].began .. version
             /\ Store(i, k, poll[i].read) /\ poll[i].todo = {k}
  BY <1>1 DEF StoreTwap, Store, Quiet, ServiceOK, PollsOK, IsCurrent, Poll
<1>2. ASSUME NEW i \in Polls, NEW k \in Texts, StoreError(i, k), sent' # {}
      PROVE  Store(i, k, Failed) /\ poll[i].todo = {k}
  BY <1>2 DEF StoreError, Store, Quiet
<1>3. CASE \E c \in Clients :
             \/ Connect(c) \/ Close(c) \/ RefuseMessage(c) \/ MessageThrows(c)
             \/ \E w \in Texts : Subscribe(c, w) \/ Unsubscribe(c, w)
  BY <1>3 DEF Connect, Close, RefuseMessage, MessageThrows, Subscribe, Unsubscribe, Quiet
<1>4. CASE UpdateOracle \/ StopBroadcast \/ AttachWebSocket
  BY <1>4 DEF UpdateOracle, StopBroadcast, AttachWebSocket, Quiet
<1>5. CASE \E i \in Polls : StartPoll(i) \/ FetchOracle(i)
  BY <1>5 DEF StartPoll, FetchOracle, Quiet
<1>6. CASE \E i \in Polls, k \in Texts : StoreTwap(i, k) \/ StoreError(i, k)
  BY <1>1, <1>2, <1>6
<1> QED
  BY <1>3, <1>4, <1>5, <1>6 DEF Next, PollStep

\* The poll that ends is the one whose results are sent.
LEMMA PricesAreItsOwn ==
    ASSUME ServiceOK, Next, NEW i \in Polls, NEW m \in PricesOf(i)
    PROVE  m.result \in poll[i].began .. version
<1>1. poll[i].busy /\ ~ poll'[i].busy /\ m \in sent' /\ m.result # Failed
  BY DEF PricesOf
<1>2. PICK result : \E j \in Polls, k \in Texts :
        /\ result = Failed \/ result \in poll[j].began .. version
        /\ Store(j, k, result) /\ poll[j].todo = {k}
  BY <1>1, WhatIsSent
<1>3. PICK j \in Polls, k \in Texts :
        /\ result = Failed \/ result \in poll[j].began .. version
        /\ Store(j, k, result) /\ poll[j].todo = {k}
  BY <1>2
<1>4. /\ poll' = [poll EXCEPT ![j] = Idle]
      /\ \A n \in sent' : n.result = Failed \/ n.result \in poll[j].began .. version
  BY <1>3, BroadcastIsFresh DEF ServiceOK
<1>5. j = i
  BY <1>1, <1>4 DEF ServiceOK, PollsOK
<1> QED
  BY <1>1, <1>4, <1>5

\* A price that is sent is at least as new as the poll that fetched it.
THEOREM PricesAreFresh == Spec => PricesAreOfThePoll
<1> DEFINE fresh == \A i \in Polls : \A m \in PricesOf(i) : m.result >= poll[i].began
<1>1. ASSUME ServiceOK, Next PROVE fresh
  <2> SUFFICES ASSUME NEW i \in Polls, NEW m \in PricesOf(i)
               PROVE  m.result >= poll[i].began
    OBVIOUS
  <2>1. poll[i].began \in Nat /\ version \in Nat
    BY <1>1 DEF ServiceOK, PollsOK, Poll
  <2> QED
    BY <1>1, <2>1, PricesAreItsOwn
<1>2. ServiceOK /\ [Next]_vars => [fresh]_vars
  BY <1>1
<1> QED
  BY <1>2, ServiceIsKept, PTL DEF Spec, PricesAreOfThePoll

\* For any number of clients, windows and polls: an older price is sent after a newer one
\* only by a poll that overlapped with another.  Whatever was sent before a poll that was
\* always alone began was read before it began; and nothing is sent while it runs.
THEOREM OlderNeedsOverlap == Spec => OlderOnlyOnOverlap
<1> DEFINE ordered == \A i \in Polls : ~ poll[i].overlapped =>
                         \A m \in PricesOf(i) : m.result \notin outdated
<1>1. ASSUME ServiceOK, Next PROVE ordered
  <2> SUFFICES ASSUME NEW i \in Polls, ~ poll[i].overlapped, NEW m \in PricesOf(i),
                      m.result \in outdated
               PROVE  FALSE
    OBVIOUS
  <2>1. poll[i].began \in Nat /\ version \in Nat
    BY <1>1 DEF ServiceOK, PollsOK, Poll
  <2>2. poll[i].busy
    BY DEF PricesOf
  <2>3. m.result < poll[i].began
    BY <1>1, <2>2 DEF ServiceOK, OverlapOK
  <2>4. m.result \in poll[i].began .. version
    BY <1>1, PricesAreItsOwn
  <2> QED
    BY <2>1, <2>3, <2>4
<1>2. ServiceOK /\ [Next]_vars => [ordered]_vars
  BY <1>1
<1> QED
  BY <1>2, ServiceIsKept, PTL DEF Spec, OlderOnlyOnOverlap
================================================================================

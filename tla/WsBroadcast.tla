------------------------------- MODULE WsBroadcast -------------------------------
(***************************************************************************)
(* The WebSocket service of the API (api/src/ws.ts): clients connect and   *)
(* subscribe, and a timer polls the chain for every subscription and sends *)
(* the results.  A poll awaits one request after the other; the timer does *)
(* not wait for it, so polls overlap, and messages, connections and closes *)
(* are handled in between.  An action is what runs between two awaits.     *)
(* A message whose handling throws ends the process.                       *)
(*                                                                         *)
(* One oracle.  A subscription is known by the text of its window: parseInt*)
(* reads 50 in "50" and in "50 slots", and the key is the number's text.   *)
(***************************************************************************)
EXTENDS Integers, FiniteSets

CONSTANTS
    Clients,
    Texts,                  \* windows as clients write them
    ParseInt,               \* the text of the number parseInt reads, Invalid if none
    Invalid,
    MAX_CONNECTIONS,
    MAX_SUBS_PER_CLIENT,
    Polls,                  \* polls that can be in flight together
    Failed,                 \* the result of a request that failed
    MaxVersion              \* versions of the oracle's account explored

ASSUME WsAssumption == /\ Invalid \notin Texts
                       /\ ParseInt \in [Texts -> Texts \cup {Invalid}]
                       /\ MAX_CONNECTIONS \in Nat /\ MAX_SUBS_PER_CLIENT \in Nat
                       /\ MaxVersion \in Nat \ {0}

VARIABLES
    version,        \* the oracle account's version
    socket,         \* readyState of each client's socket
    subscriptions,  \* the keys of each client's subscriptions
    poll,           \* what each poll is doing
    sent,           \* the results that the latest step sent, if any
    outdated,       \* the versions older than one that was sent to anybody
    service         \* the process: polling, stopped by stopBroadcast, or dead

clientVars == <<socket, subscriptions>>
vars == <<version, clientVars, poll, sent, outdated, service>>

\* The set `clients': a closing socket stays in it until its close event.
clients == { c \in Clients : socket[c] # "none" }

\* A poll: the subscriptions it has yet to fetch, the version when it began, the
\* one it read for the next of them, the results, and whether another poll was in
\* flight at any time while it was.
Idle == [busy |-> FALSE, todo |-> {}, began |-> 0, read |-> 0,
         results |-> [k \in {} |-> 0], overlapped |-> FALSE]

Quiet == sent' = {} /\ outdated' = outdated

Init ==
    /\ version = 1
    /\ socket = [c \in Clients |-> "none"]
    /\ subscriptions = [c \in Clients |-> {}]
    /\ poll = [i \in Polls |-> Idle]
    /\ sent = {}
    /\ outdated = {}
    /\ service = "polling"

UpdateOracle ==
    /\ version < MaxVersion
    /\ version' = version + 1
    /\ Quiet /\ UNCHANGED <<clientVars, poll, service>>

--------------------------------------------------------------------------------
(* Connections and messages *)

\* At the limit a connection is closed again and not kept.
Connect(c) ==
    /\ service # "dead"
    /\ socket[c] = "none"
    /\ Cardinality(clients) < MAX_CONNECTIONS
    /\ socket' = [socket EXCEPT ![c] = "open"]
    /\ Quiet /\ UNCHANGED <<version, subscriptions, poll, service>>

\* The event that follows a close by either side.
Close(c) ==
    /\ socket[c] # "none"
    /\ socket' = [socket EXCEPT ![c] = "none"]
    /\ subscriptions' = [subscriptions EXCEPT ![c] = {}]
    /\ Quiet /\ UNCHANGED <<version, poll, service>>

\* send answers a message; a client that is too slow is closed instead.
Reply(c) ==
    \E slow \in BOOLEAN :
        socket' = [socket EXCEPT ![c] = IF slow THEN "closing" ELSE @]

\* Slip: the limit is off by one.
SubscribeOneTooMany(c, window) ==
    /\ c \in clients /\ Reply(c)
    /\ Cardinality(subscriptions[c]) <= MAX_SUBS_PER_CLIENT
    /\ ParseInt[window] # Invalid
    /\ subscriptions' = [subscriptions EXCEPT ![c] = @ \cup {ParseInt[window]}]
    /\ Quiet /\ UNCHANGED <<version, poll, service>>

\* The limit is tested before the key is known.
Subscribe(c, window) ==
    /\ c \in clients /\ Reply(c)
    /\ Cardinality(subscriptions[c]) < MAX_SUBS_PER_CLIENT
    /\ ParseInt[window] # Invalid
    /\ subscriptions' = [subscriptions EXCEPT ![c] = @ \cup {ParseInt[window]}]
    /\ Quiet /\ UNCHANGED <<version, poll, service>>

\* The key is built from the text as it was sent.
Unsubscribe(c, window) ==
    /\ c \in clients /\ Reply(c)
    /\ subscriptions' = [subscriptions EXCEPT ![c] = @ \ {window}]
    /\ Quiet /\ UNCHANGED <<version, poll, service>>

\* Rate limited, not JSON, or refused: the client gets an error.  Any message can
\* be the one beyond the limit of its minute, as time is not modelled.
RefuseMessage(c) ==
    /\ c \in clients /\ Reply(c)
    /\ Quiet /\ UNCHANGED <<version, subscriptions, poll, service>>

NoClients == /\ socket' = [c \in Clients |-> "none"]
             /\ subscriptions' = [c \in Clients |-> {}]

\* Only JSON.parse and the key are tried: JSON that is no object (null) throws in
\* the handler, and nothing catches it.  The process ends with all it was doing.
MessageThrows(c) ==
    /\ c \in clients
    /\ service' = "dead"
    /\ NoClients
    /\ poll' = [i \in Polls |-> Idle]
    /\ Quiet /\ UNCHANGED version

\* The process is started again.
AttachWebSocket ==
    /\ service = "dead"
    /\ service' = "polling"
    /\ Quiet /\ UNCHANGED <<version, clientVars, poll>>

--------------------------------------------------------------------------------
(* A poll: broadcastUpdates *)

Subscribed == UNION { subscriptions[c] : c \in clients }

StartPoll(i) ==
    /\ service = "polling"
    /\ ~ poll[i].busy
    /\ Subscribed # {}
    /\ LET others == { j \in Polls \ {i} : poll[j].busy }
       IN  poll' = [j \in Polls |->
               IF j = i THEN [busy |-> TRUE, todo |-> Subscribed, began |-> version,
                              read |-> 0, results |-> Idle.results,
                              overlapped |-> others # {}]
               ELSE IF j \in others THEN [poll[j] EXCEPT !.overlapped = TRUE]
               ELSE poll[j]]
    /\ Quiet /\ UNCHANGED <<version, clientVars, service>>

Fetching(i) == poll[i].busy /\ poll[i].todo # {}

\* Slip: an account that was read before is not read again.
FetchOracleOnce(i) ==
    /\ Fetching(i) /\ poll[i].read = 0
    /\ \E v \in 1 .. version : poll' = [poll EXCEPT ![i].read = v]
    /\ Quiet /\ UNCHANGED <<version, clientVars, service>>

\* fetchOracle is answered; two more requests follow.
FetchOracle(i) ==
    /\ Fetching(i) /\ poll[i].read = 0
    /\ poll' = [poll EXCEPT ![i].read = version]
    /\ Quiet /\ UNCHANGED <<version, clientVars, service>>

Recipients(k) == { c \in clients : socket[c] = "open" /\ k \in subscriptions[c] }

\* send each result to its subscribers.  A client that is too slow is closed and
\* loses that result and those after it.
Broadcast(results) ==
    LET sends == { [client |-> s[1], key |-> s[2], result |-> results[s[2]]] :
                     s \in { r \in clients \X DOMAIN results : r[1] \in Recipients(r[2]) } }
    IN  \E lost \in SUBSET sends :
            /\ sent' = sends \ lost
            /\ outdated' = outdated \cup
                   { v \in 1 .. version : \E m \in sent' : m.result # Failed /\ v < m.result }
            /\ socket' = [c \in Clients |-> IF \E m \in lost : m.client = c THEN "closing"
                                           ELSE socket[c]]

\* The result for one key is stored; after the last, all are sent.
Store(i, k, result) ==
    LET results == [j \in DOMAIN poll[i].results \cup {k} |->
                       IF j = k THEN result ELSE poll[i].results[j]]
    IN  IF poll[i].todo = {k}
        THEN /\ poll' = [poll EXCEPT ![i] = Idle]
             /\ UNCHANGED <<version, subscriptions, service>>
             /\ Broadcast(results)
        ELSE /\ poll' = [poll EXCEPT ![i] = [busy |-> @.busy, todo |-> @.todo \ {k},
                                             began |-> @.began, read |-> 0,
                                             results |-> results,
                                             overlapped |-> @.overlapped]]
             /\ Quiet /\ UNCHANGED <<version, clientVars, service>>

StoreTwap(i, k) == poll[i].read # 0 /\ k \in poll[i].todo /\ Store(i, k, poll[i].read)

\* Slip: an error ends the poll.
FailPoll(i, k) ==
    /\ k \in poll[i].todo
    /\ poll' = [poll EXCEPT ![i] = Idle]
    /\ Quiet /\ UNCHANGED <<version, clientVars, service>>

\* Slip: after an error a price that was read before is sent.
StoreCached(i, k) ==
    /\ k \in poll[i].todo
    /\ \E v \in 1 .. version : Store(i, k, v)

\* Any of the three requests fails: the subscribers of the key get the error.
StoreError(i, k) == k \in poll[i].todo /\ Store(i, k, Failed)

PollStep(i) == \/ FetchOracle(i)
               \/ \E k \in Texts : StoreTwap(i, k) \/ StoreError(i, k)

\* stopBroadcast: a poll in flight goes on, with nobody to send to.
StopBroadcast ==
    /\ service = "polling"
    /\ service' = "stopped"
    /\ NoClients
    /\ Quiet /\ UNCHANGED <<version, poll>>

--------------------------------------------------------------------------------
Next ==
    \/ UpdateOracle
    \/ \E c \in Clients : \/ Connect(c) \/ Close(c) \/ RefuseMessage(c) \/ MessageThrows(c)
                          \/ \E w \in Texts : Subscribe(c, w) \/ Unsubscribe(c, w)
    \/ \E i \in Polls : StartPoll(i) \/ PollStep(i)
    \/ StopBroadcast \/ AttachWebSocket

\* The timer fires, every request is answered or fails, and a closed socket has
\* its close event.
Fairness == /\ \A i \in Polls : WF_vars(StartPoll(i)) /\ WF_vars(PollStep(i))
            /\ \A c \in Clients : WF_vars(socket[c] = "closing" /\ Close(c))

Spec == Init /\ [][Next]_vars /\ Fairness
================================================================================

-------------------------- MODULE WsBroadcastProperties --------------------------
(***************************************************************************)
(* What a WebSocket client can rely on.                                    *)
(***************************************************************************)
EXTENDS WsBroadcast

\* The service keeps what its limits allow, and a poll only versions it can have
\* read.
WsTypeOK ==
    /\ version \in 1 .. MaxVersion
    /\ socket \in [Clients -> {"none", "open", "closing"}]
    /\ subscriptions \in [Clients -> SUBSET Texts]
    /\ \A c \in Clients : Cardinality(subscriptions[c]) <= MAX_SUBS_PER_CLIENT
    /\ Cardinality(clients) <= MAX_CONNECTIONS
    /\ \A i \in Polls : poll[i].read \in 0 .. version /\ poll[i].began \in 0 .. version
    /\ sent \subseteq [client : Clients, key : Texts, result : 0 .. version \cup {Failed}]
    /\ outdated \subseteq 1 .. version

\* The prices poll i sends as it ends.
PricesOf(i) == { m \in sent' : poll[i].busy /\ ~ poll'[i].busy /\ m.result # Failed }

\* A price that is sent is at least as new as the poll that fetched it, whatever
\* the poll waited for in between.
PricesAreOfThePoll ==
    [][\A i \in Polls : \A m \in PricesOf(i) : m.result >= poll[i].began]_vars

\* An older price is sent after a newer one, of any window, only by a poll that
\* overlapped with another: the timer does not wait for a poll that takes longer
\* than its interval, and results carry no order, but that is the one way a client
\* can see the price go back in time, however the chain, the subscriptions and the
\* connections change between the polls, and though the service dies in one.
OlderOnlyOnOverlap ==
    [][\A i \in Polls : ~ poll[i].overlapped =>
          \A m \in PricesOf(i) : m.result \notin outdated]_vars

\* Whoever stays subscribed hears again and again of the chain, a result or an
\* error, though other subscriptions fail and others come and go during every
\* poll, until the socket is closed or the service stops.
Hears(c, k) ==
    []<>(\/ \E m \in sent : m.client = c /\ m.key = k
         \/ k \notin subscriptions[c]
         \/ socket[c] # "open"
         \/ service # "polling")

SubscribersHear == \A c \in Clients, k \in Texts : Hears(c, k)
================================================================================

------------------------------ MODULE MCWsBroadcast ------------------------------
(***************************************************************************)
(* Instances of WsBroadcast for TLC: windows "50", "60" and "50 slots".    *)
(***************************************************************************)
EXTENDS WsBroadcastProperties

CONSTANTS c1, w50, w60, w50slots

\* parseInt reads 50 in "50 slots", too.
Windows == [w \in {w50, w60, w50slots} |-> IF w = w60 THEN w60 ELSE w50]

\* Whoever stays subscribed hears again and again of the chain (SubscribersHear).
\* The specification treats all clients alike, and w50 and w60 alike, so TLC is
\* asked about one client and one window among the others.
OneSubscriberHears == Hears(c1, w50)
================================================================================

--------------------------- MODULE SdkReaderProperties ---------------------------
(***************************************************************************)
(* When the answer of computeSwapFromChain can be relied on.               *)
(***************************************************************************)
EXTENDS SdkReader, TwapOracleProperties

\* The chain has not moved since the three requests were served.
NothingMoved ==
    /\ fetched["oracle"] = oracle
    /\ fetched["buffer"] = buffer
    /\ fetched["slot"] = slot

\* Read in one state, the chain gives the client what get_swap would return, or
\* an error when get_swap fails: except that the client does not look at `paused'
\* and does not overflow.  Two implementations of one computation, in two number
\* systems, agree.
AgreesWithGetSwap ==
    Answered /\ NothingMoved /\ ~ oracle.paused /\ ~ Wedged =>
        LET onChain == GetSwap(call.windowSlots, call.staleness)
        IN  /\ Answer.error = "none" <=> onChain.error = "none"
            /\ Answer.swap = onChain.swap

\* The price in force in slot s as far as the oracle account knows that was read.
PriceKnown(s) ==
    PriceInForce(IF s < fetched["oracle"].last_slot
                 THEN s ELSE fetched["oracle"].last_slot)

\* With the default staleness, and unless the slot was read before the update
\* the oracle account shows, an answer is an average of prices in force over an
\* interval that covers the window, however many updates and resizes fell
\* between the requests: the staleness limit also keeps observations newer than
\* the account out of the interval.
DefaultAnswersAreAverages ==
    Answered /\ Answer.error = "none"
    /\ call.staleness = call.windowSlots
    /\ fetched["oracle"].last_slot <= fetched["slot"] =>
        \E k \in DOMAIN updates :
            LET past == updates[k].slot
                now  == fetched["slot"]
            IN  /\ past <= now - call.windowSlots
                /\ Answer.swap =
                      SumFunction([s \in past .. now - 1 |-> PriceKnown(s)])
                         \div (now - past)

\* "Extends cumulative price to the current slot like get_swap does"
\* (client.ts:298): an answer, being an average of prices, is never negative.
AnswersAreNotNegative == Answered => Answer.swap >= 0

==================================================================================

------------------------- MODULE ClientProgramsProperties ------------------------
(***************************************************************************)
(* What these programs may rely on, in whatever slots their steps fall.    *)
(***************************************************************************)
EXTENDS ClientPrograms

\* On a validator of their own, e2e-test.ts and benchmark.ts are stopped by nothing
\* but the node or a delay: every update is accepted, for its slot
\* (waitForNextSlot) and for its price ("oscillates +-5% to stay within deviation
\* guard", benchmark.ts:305); no window they query reaches back too far; and the
\* default staleness fails e2e-test.ts only when four slots went by between its
\* reading of the slot and the client's, benchmark.ts only more than five slots
\* after its last update.
OnlyDelayStopsScripts ==
    script \in Private /\ outcome \notin {"running", "passed", "rpc"} =>
        /\ outcome = "Stale"
        /\ script = "e2e-test" => fetched["slot"] - noted["slot"] >= 4
        /\ script = "benchmark" => slot - updates[Iterations].slot > 5

\* The two refusals e2e-test.ts waits for come, and for the reasons it expects: only
\* its look at the transaction's logs and a node that fails make it complain.
RefusalsAreTheExpectedOnes == "refused" \notin complaints

\* Others update between the requests of one answer.  The CLI's inspect never prints
\* a buffer older than the oracle it prints above it, and /twap never dates its
\* average before the slot it was computed for.
LaterPartsAreNotOlder ==
    /\ script = "inspect" /\ {"oracle", "buffer"} \subseteq DOMAIN noted
       /\ noted["oracle"].last_updater # NoKey =>
           \E n \in 1 .. noted["buffer"].len :
               NthNewest(noted["buffer"], n).slot >= noted["oracle"].last_slot
    /\ script = "/twap" /\ outcome = "passed" =>
           noted["slot"] >= noted["averagedAt"]
================================================================================

----------------------------- MODULE ClientPrograms ------------------------------
(***************************************************************************)
(* What uses the oracle through the SDK: scripts/e2e-test.ts and           *)
(* scripts/benchmark.ts on a validator of their own; and, on a chain that  *)
(* others use too, the pair creation of scripts/deploy-devnet.ts, the      *)
(* commands of sdk/src/cli.ts and the handlers of the REST routes /price   *)
(* and /twap.  Each is a list of steps awaited one after the other, with   *)
(* nothing but the clock and the other users in between.                   *)
(*                                                                         *)
(* A step that throws ends the program, except where the script catches    *)
(* the error and compares it with the one it expects: then fail() prints a *)
(* complaint and the script goes on.  Reads of scripts that are only       *)
(* printed are left out, and so is what they do to other accounts.         *)
(*                                                                         *)
(* Prices are in units of 10,000,000: 1.0 of e2e-test.ts is 100.           *)
(***************************************************************************)
EXTENDS SdkReader

CONSTANTS
    Payer, Other,       \* the key a program runs with; e2e-test.ts's second one
    Iterations,         \* updates benchmark.ts sends (20 in the code)
    Repeats,            \* queries it times in a row (10 or 20 in the code)
    MaxOthers           \* updates after which the other users leave off

\* A query of benchmark.ts asks for 5 slots before it.
ASSUME ScriptsAssumption == /\ {Payer, Other} \subseteq Users
                            /\ Iterations \in Nat /\ Iterations > 5
                            /\ Repeats \in Nat
                            /\ MaxOthers \in Nat

\* A u128 holds what the scripts' prices, 110 at most, amount to over all slots, and
\* what the largest step between two of them is in basis points.
ASSUME ScriptPricesAssumption == /\ 110 * FirstSlot <= MaxU128 /\ 110 * MaxSlot <= MaxU128
                                 /\ 100 * BPS_DENOMINATOR <= MaxU128

\* A window that is a number can be told from SinceFirst.
ASSUME WindowIsGivenAssumption == None \notin Nat

VARIABLES
    script,         \* the program that runs
    pc,             \* the step it is at
    noted,          \* what its variables hold, by name
    got,            \* the parts of a parallel read answered so far
    complaints,     \* the checks it has printed a failure of
    outcome         \* "running", "passed", or why it ended

scriptVars == <<script, pc, noted, got, complaints, outcome>>
chainVars == <<vars, readerVars>>

--------------------------------------------------------------------------------
(* Steps *)

Wait                  == [op |-> "wait"]
Initialize(capacity)  == [op |-> "initialize", capacity |-> capacity]
Update(by, price)     == [op |-> "update", by |-> by, price |-> price]
Fetches(names)        == [op |-> "read", names |-> names]
Average(window)       == [op |-> "average", window |-> window]
ParseEvents           == [op |-> "events"]
Refused(step, error)  == [op |-> "refused", step |-> step, error |-> error]
Simulate(w, m)        == [op |-> "getSwap", window |-> w, staleness |-> m]

Times(n, step) == [i \in 1 .. n |-> step]

\* An update in each of the next slots.
WaitedUpdates(prices) ==
    [k \in 1 .. 2 * Len(prices) |-> IF k % 2 = 1 THEN Wait ELSE Update(Payer, prices[k \div 2])]

\* The window of e2e-test.ts, which starts one slot after the first observation.
SinceFirst == None

E2ePrices == <<100, 105, 110, 105, 100>>

\* Slip: one wait before the query that must find the oracle stale.
E2eTestWaitingOnce ==
    <<Initialize(32)>>
    \o WaitedUpdates(E2ePrices)
    \o <<Fetches({"buffer"}), Fetches({"slot"}), Average(SinceFirst),
         Wait, Update(Other, 101), ParseEvents,
         Wait, Refused(Simulate(3, 1), "StaleOracle"),
         Wait, Refused(Update(Payer, 200), "PriceDeviationTooLarge")>>

\* The checks of e2e-test.ts, once the validator runs and the mints exist.
E2eTest ==
    <<Initialize(32)>>
    \o WaitedUpdates(E2ePrices)
    \o <<Fetches({"buffer"}), Fetches({"slot"}), Average(SinceFirst),
         Wait, Update(Other, 101), ParseEvents,
         Wait, Wait, Refused(Simulate(3, 1), "StaleOracle"),
         Wait, Refused(Update(Payer, 200), "PriceDeviationTooLarge")>>

\* What benchmark.ts does to its main oracle.
Benchmark ==
    <<Initialize(64)>>
    \o WaitedUpdates([i \in 1 .. Iterations |-> IF i % 2 = 1 THEN 105 ELSE 100])
    \o Times(Repeats, Simulate(5, 1000000))
    \o Times(Repeats, Average(5))
    \o Times(Repeats, Fetches({"oracle"}))
    \o <<Wait, Update(Payer, 100)>>
    \o Times(Repeats, ParseEvents)

\* initPair, after the program has been deployed or upgraded.
InitPair == <<Initialize(32), Fetches({"oracle"})>>

\* Slip: the buffer is read first.
InspectBufferFirst == <<Fetches({"buffer"}), Fetches({"oracle"})>>

Inspect == <<Fetches({"oracle"}), Fetches({"buffer"})>>

CliInit        == <<Initialize(32)>>
CliUpdatePrice == <<Update(Payer, 100)>>
CliGetSwap     == <<Average(2)>>
CliParseEvents == <<ParseEvents>>

\* The account and the slot come from two requests under one Promise.all.
PriceRoute == <<Fetches({"oracle", "slot"})>>

\* The slot in the response is read after the average has been computed.
TwapRoute == <<Fetches({"oracle"}), Average(2), Fetches({"slot"})>>

Program(name) ==
    CASE name = "e2e-test"     -> E2eTest
      [] name = "benchmark"    -> Benchmark
      [] name = "init-pair"    -> InitPair
      [] name = "inspect"      -> Inspect
      [] name = "init"         -> CliInit
      [] name = "update-price" -> CliUpdatePrice
      [] name = "get-swap"     -> CliGetSwap
      [] name = "parse-events" -> CliParseEvents
      [] name = "/price"       -> PriceRoute
      [] name = "/twap"        -> TwapRoute

\* These start a validator of their own.
Private == {"e2e-test", "benchmark"}
Scripts == Private \cup {"init-pair", "inspect", "init", "update-price",
                         "get-swap", "parse-events", "/price", "/twap"}

ScriptInit ==
    /\ ReaderInit
    /\ script \in Scripts
    /\ pc = 1
    /\ noted = <<>>
    /\ got = {}
    /\ complaints = {}
    /\ outcome = "running"

--------------------------------------------------------------------------------
(* Control *)

Finished == pc > Len(Program(script))
Running == outcome = "running" /\ ~ Finished
Current == Program(script)[pc]
At(op) == Running /\ Current.op = op

Noted(name, value) ==
    [n \in DOMAIN noted \cup {name} |-> IF n = name THEN value ELSE noted[n]]

Passed == pc' = pc + 1 /\ UNCHANGED <<script, complaints, outcome>>

Throws(error) == outcome' = error /\ UNCHANGED <<script, pc, complaints>>

\* fail() only prints.
Complains == /\ complaints' = complaints \cup {Current.op}
             /\ pc' = pc + 1
             /\ UNCHANGED <<script, outcome>>

\* The last step is done: "All checks passed", whatever was printed before.
Ends ==
    /\ outcome = "running" /\ Finished
    /\ outcome' = "passed"
    /\ UNCHANGED <<chainVars, script, pc, noted, got, complaints>>

Forgotten(name) == [n \in DOMAIN noted \ {name} |-> noted[n]]

\* e2e-test.ts waits in the try block of the update that must be refused.
WaitsInTry ==
    /\ At("wait") /\ pc < Len(Program(script))
    /\ LET next == Program(script)[pc + 1]
       IN  next.op = "refused" /\ next.step.op = "update"

\* The node does not answer, or a transaction expires.
RpcFails ==
    /\ Running /\ ~ WaitsInTry
    /\ Current.op \notin {"refused", "getSwap"}
    /\ Throws("rpc")
    /\ UNCHANGED <<chainVars, noted, got>>

\* The same in a try block: fail() prints the error, and the script goes on after it.
RpcFailsInTry ==
    /\ \/ At("refused") /\ pc' = pc + 1
       \/ WaitsInTry /\ pc' = pc + 2
    /\ complaints' = complaints \cup {"rpc"}
    /\ noted' = Forgotten("waitingFor")
    /\ UNCHANGED <<chainVars, script, got, outcome>>

--------------------------------------------------------------------------------
(* The steps *)

StartWaiting ==
    /\ At("wait")
    /\ "waitingFor" \notin DOMAIN noted
    /\ noted' = Noted("waitingFor", slot)
    /\ UNCHANGED <<chainVars, script, pc, got, complaints, outcome>>

\* Slip: the slot first read will do.
StopWaitingAtOnce ==
    /\ At("wait")
    /\ "waitingFor" \in DOMAIN noted
    /\ slot >= noted["waitingFor"]
    /\ Passed
    /\ noted' = Forgotten("waitingFor")
    /\ UNCHANGED <<chainVars, got>>

\* waitForNextSlot polls until the slot has passed the one first read.
StopWaiting ==
    /\ At("wait")
    /\ "waitingFor" \in DOMAIN noted
    /\ slot > noted["waitingFor"]
    /\ Passed
    /\ noted' = Forgotten("waitingFor")
    /\ UNCHANGED <<chainVars, got>>

\* The builder sends initialize_oracle; `init' fails on an account that exists.  A
\* transaction whose confirmation is lost throws all the same.
SendInitialize ==
    /\ At("initialize")
    /\ UNCHANGED <<readerVars, noted, got>>
    /\ \/ InitializeOracle(Payer, Current.capacity) /\ (Passed \/ Throws("rpc"))
       \/ OracleExists /\ UNCHANGED vars /\ Throws("exists")

\* The error update_price raises for a price, in the order of its checks.
UpdateError(price) ==
    IF ~ OracleExists THEN "NoAccount"
    ELSE IF oracle.paused THEN "OraclePaused"
    ELSE IF oracle.last_slot >= slot THEN "StaleSlot"
    ELSE IF oracle.last_price # 0
            /\ ~ Fits(Distance(price, oracle.last_price) * BPS_DENOMINATOR) THEN "PriceOverflow"
    ELSE IF ~ WithinDeviation(price) THEN "PriceDeviationTooLarge"
    ELSE IF ~ Fits(ExtendedCumulative(oracle, slot)) THEN "PriceOverflow"
    ELSE "none"

\* updatePrice passes none of the optional reward accounts.
SendUpdate ==
    /\ At("update")
    /\ UNCHANGED <<readerVars, noted, got>>
    /\ \/ UpdatePrice(Current.by, Current.price, None) /\ (Passed \/ Throws("rpc"))
       \/ /\ UpdateError(Current.price) # "none"
          /\ Throws(UpdateError(Current.price))
          /\ UNCHANGED vars

\* An update or a query that a check expects to be refused for one reason.
ErrorOf(step) ==
    IF step.op = "update" THEN UpdateError(step.price)
    ELSE GetSwap(step.window, step.staleness).error

ExpectRefusal ==
    /\ At("refused")
    /\ UNCHANGED <<readerVars, noted, got>>
    /\ IF ErrorOf(Current.step) = "none" /\ Current.step.op = "update"
       THEN UpdatePrice(Current.step.by, Current.step.price, None)
       ELSE UNCHANGED vars
    /\ IF ErrorOf(Current.step) = Current.error THEN Passed ELSE Complains

\* The benchmark swallows the errors of its simulations.
SimulateGetSwap ==
    /\ At("getSwap")
    /\ Passed
    /\ UNCHANGED <<chainVars, noted, got>>

OnChain(name) == CASE name = "slot"   -> slot
                   [] name = "oracle" -> oracle
                   [] name = "buffer" -> buffer

\* One request of a read is answered; an account that does not exist throws.
FetchOne ==
    /\ At("read")
    /\ UNCHANGED chainVars
    /\ \E name \in Current.names \ got :
          IF name = "slot" \/ OracleExists
          THEN /\ noted' = Noted(name, OnChain(name))
               /\ IF got \cup {name} = Current.names
                  THEN Passed /\ got' = {}
                  ELSE got' = got \cup {name} /\ UNCHANGED <<script, pc, complaints, outcome>>
          ELSE Throws("NoAccount") /\ UNCHANGED <<noted, got>>

WindowOf(step) ==
    IF step.window = SinceFirst
    THEN noted["slot"] - noted["buffer"].observations[0].slot - 1
    ELSE step.window

\* computeSwapFromChain with its default staleness, unless there is no window to ask
\* about; its requests are SdkReader's.
StartAverage ==
    /\ At("average")
    /\ call = None
    /\ LET window == WindowOf(Current)
       IN  IF window > 0
           THEN /\ call' = [windowSlots |-> window, staleness |-> window]
                /\ UNCHANGED scriptVars
           ELSE Passed /\ UNCHANGED call
    /\ UNCHANGED <<vars, fetched, noted, got>>

FetchMissing ==
    /\ At("average")
    /\ call # None
    /\ ~ OracleExists
    /\ Throws("NoAccount")
    /\ UNCHANGED <<chainVars, noted, got>>

GetAverage ==
    /\ At("average")
    /\ Answered
    /\ IF Answer.error = "none"
       THEN /\ Passed
            /\ noted' = Noted("averagedAt", fetched["slot"])
            /\ call' = None
            /\ fetched' = <<>>
       ELSE Throws(Answer.error) /\ UNCHANGED <<readerVars, noted>>
    /\ UNCHANGED <<vars, got>>

\* The transaction's logs, if the node knows the transaction already.
ReadEvents ==
    /\ At("events")
    /\ UNCHANGED <<chainVars, noted, got>>
    /\ \/ Passed
       \/ script = "e2e-test" /\ Complains

Fetch == /\ At("average")
         /\ FetchOracle \/ FetchObservationBuffer \/ GetSlot
         /\ UNCHANGED <<vars, scriptVars>>

Step == \/ StartWaiting \/ StopWaiting \/ SendInitialize \/ SendUpdate
        \/ ExpectRefusal \/ SimulateGetSwap \/ FetchOne
        \/ StartAverage \/ Fetch \/ FetchMissing \/ GetAverage \/ ReadEvents
        \/ RpcFails \/ RpcFailsInTry \/ Ends

\* What other users do on a public chain while the program runs.
Others ==
    /\ script \notin Private
    /\ outcome = "running"
    /\ Len(updates) < MaxOthers
    /\ \/ \E c \in Capacities : InitializeOracle(Other, c)
       \/ \E p \in Prices : UpdatePrice(Other, p, None)
    /\ UNCHANGED <<readerVars, scriptVars>>

Clock == outcome = "running" /\ AdvanceSlot /\ UNCHANGED <<readerVars, scriptVars>>

ScriptNext == Step \/ Others \/ Clock

ScriptSpec == ScriptInit /\ [][ScriptNext]_<<chainVars, scriptVars>>
================================================================================

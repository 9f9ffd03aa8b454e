-------------------------------- MODULE SdkReader --------------------------------
(***************************************************************************)
(* computeSwapFromChain of the SDK (sdk/src/client.ts), run by a client    *)
(* beside the program.  It asks an RPC node for the oracle, the buffer and *)
(* the slot, in three requests under one Promise.all, so that each answer  *)
(* is the chain's at a moment of its own, and then repeats get_swap's      *)
(* computation on them.  Transactions and slots go on in between.          *)
(*                                                                         *)
(* BN integers are unbounded and signed: nothing here overflows, and a     *)
(* difference can be negative.                                             *)
(***************************************************************************)
EXTENDS TwapOracle

CONSTANTS
    Windows,        \* windowSlots of the calls
    Stalenesses     \* maxStalenessSlots of the calls that pass one

ASSUME WindowsAssumption == Windows \subseteq Nat /\ Stalenesses \subseteq Nat
\* A scan that finds nothing can be told from one that does.
ASSUME NothingFoundAssumption == None \notin [slot : Nat, cumulative_price : Nat]

VARIABLES
    call,           \* the call in flight, None when there is none
    fetched         \* the requests answered so far, by name

readerVars == <<call, fetched>>
readerInit == call = None /\ fetched = <<>>

Requests == {"oracle", "buffer", "slot"}

--------------------------------------------------------------------------------
(* The computation *)

\* Slip: the scan looks at or before the target slot.
FindObservationAtOrBefore(fetchedBuffer, targetSlot) ==
    LET ages == AgesAtOrBefore(fetchedBuffer, targetSlot)
    IN  IF ages = {} THEN None ELSE NthNewest(fetchedBuffer, Min(ages))

FindObservationBeforeSlot(fetchedBuffer, targetSlot) ==
    IF AgesBefore(fetchedBuffer, targetSlot) = {} THEN None
    ELSE ObservationBeforeSlot(fetchedBuffer, targetSlot)

\* Slip: the age of the last update is not looked at.
AnswerOfAnyAge(o, b, s, c) ==
    LET past == FindObservationBeforeSlot(b, s - c.windowSlots + 1)
    IN  IF past = None THEN Fails("Insufficient")
        ELSE ComputeSwapBN(ExtendedCumulative(o, s), past.cumulative_price,
                           s, past.slot)

\* What the call c makes of an oracle, a buffer and a slot.
ComputeSwapFrom(o, b, s, c) ==
    LET past == FindObservationBeforeSlot(b, s - c.windowSlots + 1)
    IN  IF s - o.last_slot > c.staleness THEN Fails("Stale")
        ELSE IF past = None THEN Fails("Insufficient")
        ELSE ComputeSwapBN(ExtendedCumulative(o, s), past.cumulative_price,
                           s, past.slot)

--------------------------------------------------------------------------------
(* The call *)

\* maxStalenessSlots defaults to windowSlots.
Call ==
    /\ call = None
    /\ \E w \in Windows, m \in Stalenesses \cup {None} :
          call' = [windowSlots |-> w, staleness |-> IF m = None THEN w ELSE m]
    /\ UNCHANGED fetched

Fetched(request) == request \in DOMAIN fetched

Receive(request, answer) ==
    /\ call # None
    /\ ~ Fetched(request)
    /\ fetched' = [r \in DOMAIN fetched \cup {request} |->
                      IF r = request THEN answer ELSE fetched[r]]
    /\ UNCHANGED call

FetchOracle == OracleExists /\ Receive("oracle", oracle)

FetchObservationBuffer == OracleExists /\ Receive("buffer", buffer)

GetSlot == Receive("slot", slot)

\* The call ends: with the answer, once all three requests are served, or
\* because one of them failed or found no account.
EndCall ==
    /\ call # None
    /\ call' = None
    /\ fetched' = <<>>

Read == Call \/ FetchOracle \/ FetchObservationBuffer \/ GetSlot \/ EndCall

ReaderInit == Init /\ readerInit

ReaderNext == \/ Next /\ UNCHANGED readerVars
              \/ Read /\ UNCHANGED vars

ReaderSpec == ReaderInit /\ [][ReaderNext]_<<vars, readerVars>>

\* All three requests are served: this is what the caller gets.
Answered == \A r \in Requests : Fetched(r)

Answer == ComputeSwapFrom(fetched["oracle"], fetched["buffer"], fetched["slot"], call)
================================================================================

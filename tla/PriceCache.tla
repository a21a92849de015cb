----------------------------- MODULE PriceCache -----------------------------
(***************************************************************************)
(* The SOL price of the server: cached for Ttl, refreshed by at most one   *)
(* fetch that all the requests which find it too old share.  Only the age  *)
(* of the price matters, so the price itself is left out.                  *)
(***************************************************************************)
EXTENDS Integers, FiniteSets

CONSTANTS
    Readers,
    Ttl,        \* ttlMs
    PriceEnd,   \* bound: when the clock of the model stops
    Never       \* stands for no time

ASSUME PriceAssumption == Ttl \in Nat \ {0} /\ PriceEnd \in Nat /\ Never \notin Nat

VARIABLES
    time,
    cachedAt,   \* when the cached price was fetched, or Never
    fetches,    \* fetches on their way to CoinGecko
    fetching,   \* the promise that requests join is set
    awaiting,   \* requests that await it
    answers,    \* the last answer to each request
    lastFetch   \* how the latest fetch ended (history)

priceVars == <<time, cachedAt, fetches, fetching, awaiting, answers, lastFetch>>

NoAnswer == [at |-> Never, stale |-> FALSE, given |-> FALSE]

PriceInit ==
    /\ time = 0 /\ cachedAt = Never /\ fetches = 0
    /\ fetching = FALSE /\ awaiting = {}
    /\ answers = [r \in Readers |-> NoAnswer]
    /\ lastFetch = "none"

TooOldByOne(at) == at = Never \/ time - at > Ttl

TooOld(at) == at = Never \/ time - at >= Ttl

Given(at) == [at |-> at, stale |-> at # Never /\ TooOld(at), given |-> TRUE]

(* A request with a fresh price is answered at once; any other starts a    *)
(* fetch, or joins the one on its way.                                     *)
Get(r) ==
    /\ r \notin awaiting
    /\ IF TooOld(cachedAt)
       THEN /\ awaiting' = awaiting \cup {r}
            /\ fetching' = TRUE
            /\ fetches' = fetches + (IF fetching THEN 0 ELSE 1)
            /\ UNCHANGED answers
       ELSE /\ answers' = [answers EXCEPT ![r] = Given(cachedAt)]
            /\ UNCHANGED <<awaiting, fetching, fetches>>
    /\ UNCHANGED <<time, cachedAt, lastFetch>>

(* A failed refresh keeps the last good price. *)
CachedAfter(ok) == IF ok THEN time ELSE cachedAt

StillInflight == TRUE

NoLongerInflight == FALSE

(* The fetch answers, or fails, or gives up after its timeout: everybody   *)
(* who awaited it reads the cache in the same turn of the event loop.      *)
Settle ==
    /\ fetches > 0
    /\ \E ok \in BOOLEAN :
        /\ cachedAt' = CachedAfter(ok)
        /\ lastFetch' = IF ok THEN "ok" ELSE "failed"
    /\ fetches' = fetches - 1
    /\ fetching' = NoLongerInflight
    /\ answers' = [r \in Readers |->
                      IF r \in awaiting THEN Given(cachedAt') ELSE answers[r]]
    /\ awaiting' = {}
    /\ UNCHANGED time

Elapse ==
    /\ time < PriceEnd /\ time' = time + 1
    /\ UNCHANGED <<cachedAt, fetches, fetching, awaiting, answers, lastFetch>>

PriceNext == (\E r \in Readers : Get(r)) \/ Settle \/ Elapse

PriceSpec == PriceInit /\ [][PriceNext]_priceVars

(* Every fetch carries a timeout, so it ends. *)
PriceFairness == WF_priceVars(Settle)

-----------------------------------------------------------------------------
(* Properties.                                                             *)

(* Nobody is given a price as old as Ttl, or none, while a fetch could     *)
(* still renew it: only after a failed one; and no failure takes away a    *)
(* price that anybody was given before.                                    *)
OldOnlyAfterFailure ==
    [][\A r \in Readers : answers'[r] # answers[r] =>
           LET at == answers'[r].at IN
           /\ at = Never \/ time - at >= Ttl => lastFetch' = "failed"
           /\ \A q \in Readers : answers[q].at # Never => at # Never /\ at >= answers[q].at]_priceVars

(* Every request is answered. *)
EveryRequestAnswered == \A r \in Readers : r \in awaiting ~> r \notin awaiting
=============================================================================

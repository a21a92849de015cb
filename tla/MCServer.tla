------------------------------ MODULE MCServer ------------------------------
(* The services of the server's process share no state.  A behaviour       *)
(* follows one of them, chosen at the start, while the others rest.        *)
EXTENDS Indexer, Faucet, RateLimiter, PriceCache, NftStore

VARIABLE service

serverVars == <<service, indexerVars, faucetVars, limiterVars, priceVars, storeVars>>

(* Requests and addresses are interchangeable: it only matters how many    *)
(* addresses three requests are for.                                       *)
AskFor(n) ==
    CHOOSE f \in [Requests -> Request] :
        /\ \A r \in Requests : f[r].phase = "new"
        /\ Cardinality({f[r].to : r \in Requests}) = n

Init ==
    /\ service \in {"indexer", "faucet", "limiter", "price", "store"}
    /\ IndexerInit /\ FaucetInit /\ LimiterInit /\ PriceInit /\ StoreInit
    /\ \E n \in 1 .. 3 : req = AskFor(n) /\ (service # "faucet" => n = 1)

Next ==
    /\ \/ /\ service = "indexer" /\ IndexerNext
          /\ UNCHANGED <<faucetVars, limiterVars, priceVars, storeVars>>
       \/ /\ service = "faucet" /\ FaucetNext
          /\ UNCHANGED <<indexerVars, limiterVars, priceVars, storeVars>>
       \/ /\ service = "limiter" /\ LimiterNext
          /\ UNCHANGED <<indexerVars, faucetVars, priceVars, storeVars>>
       \/ /\ service = "price" /\ PriceNext
          /\ UNCHANGED <<indexerVars, faucetVars, limiterVars, storeVars>>
       \/ /\ service = "store" /\ StoreNext
          /\ UNCHANGED <<indexerVars, faucetVars, limiterVars, priceVars>>
    /\ UNCHANGED service

(* The fairness of the service that runs: the others never take a step.    *)
Spec == Init /\ [][Next]_serverVars /\ IndexerFairness /\ FaucetFairness /\ PriceFairness
=============================================================================

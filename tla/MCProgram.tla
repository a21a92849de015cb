----------------------------- MODULE MCProgram -----------------------------
(* The parts of the wallet program share no account: locks, links and      *)
(* pools each have their own.  A behaviour follows one part, chosen at the *)
(* start, on a small instance, while the others rest.                      *)
EXTENDS MCTimelock, LinkEscrow, Pool
CONSTANT key1

VARIABLE part

SolSmall    == [u \in LinkUsers |-> IF u = alice THEN 5 ELSE 1]
TokensSmall == [u \in LinkUsers |-> IF u = alice THEN 2 ELSE 1]
TimesOfLink == 0 .. 2
FundsASmall == [u \in PoolUsers |-> IF u = alice THEN 7 ELSE 2]
FundsBSmall == [u \in PoolUsers |-> IF u = alice THEN 5 ELSE 2]

programVars == <<part, timelockVars, linkVars, poolVars>>

Init ==
    /\ part \in {"timelock", "links", "pool"}
    /\ TimelockInit /\ LinksInit /\ PoolInit

Next ==
    /\ \/ part = "timelock" /\ TimelockNext /\ UNCHANGED <<linkVars, poolVars>>
       \/ part = "links" /\ LinksNext /\ UNCHANGED <<timelockVars, poolVars>>
       \/ part = "pool" /\ PoolNext /\ UNCHANGED <<timelockVars, linkVars>>
    /\ UNCHANGED part

Spec == Init /\ [][Next]_programVars
=============================================================================

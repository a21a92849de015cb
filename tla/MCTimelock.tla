---------------------------- MODULE MCTimelock ----------------------------
(* Instances of Timelock (and of the grant it implements) for TLC.         *)
EXTENDS TimelockGrant
CONSTANTS alice, bob

(* One lock from alice to bob. *)
OneLock == {<<alice, bob, 1>>}

FundsSmall == [u \in Users |-> IF u = alice THEN 5 ELSE 1]

AmountsLine  == {1, 4, 5}
AmountsTwo   == {2}
TimesLine    == -1 .. 3
(* -6 and 2 are further apart than the largest i64 of the instance, 7. *)
TimesWide    == {-6, -1, 0, 1, 2}
MinusEight   == -8
===========================================================================

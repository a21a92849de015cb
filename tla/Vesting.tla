------------------------------ MODULE Vesting ------------------------------
(***************************************************************************)
(* The vesting arithmetic shared by the on-chain program and the wallet:   *)
(* vested_amount of math.rs, and its TypeScript port.  Times are unix      *)
(* seconds (i64 in the program), amounts are base units of a token (u64).  *)
(***************************************************************************)
EXTENDS Integers

(* u64::saturating_sub *)
Monus(a, b) == IF a > b THEN a - b ELSE 0

Earlier(a, b) == IF a < b THEN a ELSE b

(* Nothing before the cliff, everything from the end, the floor of a       *)
(* straight line from start to end in between.                             *)
VestedAmount(total, start, cliff, end, now) ==
    IF now < cliff THEN 0
    ELSE IF now >= end THEN total
    ELSE (total * (now - start)) \div (end - start)

(* The line is computed with the i64 differences now - start and           *)
(* end - start; the release profile keeps overflow checks on, so a         *)
(* difference above the largest i64 aborts the transaction.  The larger of *)
(* the two is end - start, hence one test.                                 *)
VestedAmountAborts(start, cliff, end, now, timeMax) ==
    /\ cliff <= now
    /\ now < end
    /\ end - start > timeMax
=============================================================================

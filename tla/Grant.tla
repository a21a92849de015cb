------------------------------- MODULE Grant -------------------------------
(***************************************************************************)
(* What a timelock promises, without clocks, schedules or arithmetic.  A   *)
(* grantor sets aside a total for a beneficiary.  The beneficiary's earned *)
(* part grows with time and never shrinks; at any moment they may take     *)
(* what they have earned and not yet taken.  Once all is earned they       *)
(* collect the rest and the grant is over.  The grantor of a revocable     *)
(* grant may reclaim, once, exactly what has not been earned.              *)
(***************************************************************************)
EXTENDS Integers

CONSTANT Grants

VARIABLES
    active,     \* the grants that exist
    revocable,  \* may the grantor still reclaim?
    total,      \* what the beneficiary can earn at most
    earned,     \* what they have earned so far
    taken,      \* what they have been counted as having taken
    held,       \* tokens set aside (donations may come on top)
    received,   \* tokens the beneficiary got since the grant was made
    returned    \* tokens the grantor got back

vars == <<active, revocable, total, earned, taken, held, received, returned>>

Init ==
    /\ active = {}
    /\ revocable = [g \in Grants |-> FALSE]
    /\ total = [g \in Grants |-> 0]
    /\ earned = [g \in Grants |-> 0]
    /\ taken = [g \in Grants |-> 0]
    /\ held = [g \in Grants |-> 0]
    /\ received = [g \in Grants |-> 0]
    /\ returned = [g \in Grants |-> 0]

(* The grants other than g are left alone. *)
OthersUnchanged(g) ==
    \A h \in Grants \ {g} :
        /\ h \in active' <=> h \in active
        /\ revocable'[h] = revocable[h]
        /\ total'[h] = total[h]
        /\ earned'[h] = earned[h]
        /\ taken'[h] = taken[h]
        /\ held'[h] = held[h]
        /\ received'[h] = received[h]
        /\ returned'[h] = returned[h]

Over(g) ==
    /\ active' = active \ {g}
    /\ revocable'[g] = FALSE
    /\ total'[g] = 0 /\ earned'[g] = 0 /\ taken'[g] = 0
    /\ held'[g] = 0

Award(g) ==
    /\ g \notin active
    /\ active' = active \cup {g}
    /\ revocable'[g] \in BOOLEAN
    /\ total'[g] > 0 /\ held'[g] = total'[g]
    /\ 0 <= earned'[g] /\ earned'[g] < total'[g]
    /\ taken'[g] = 0 /\ received'[g] = 0 /\ returned'[g] = 0
    /\ OthersUnchanged(g)

(* Time passes for every grant at once. *)
Accrue ==
    /\ \A g \in Grants :
          IF g \in active
          THEN earned[g] <= earned'[g] /\ earned'[g] <= total[g]
          ELSE earned'[g] = earned[g]
    /\ UNCHANGED <<active, revocable, total, taken, held, received, returned>>

TopUp(g) ==
    /\ g \in active
    /\ active' = active
    /\ held'[g] > held[g]
    /\ revocable'[g] = revocable[g] /\ total'[g] = total[g]
    /\ earned'[g] = earned[g] /\ taken'[g] = taken[g]
    /\ received'[g] = received[g] /\ returned'[g] = returned[g]
    /\ OthersUnchanged(g)

Take(g) ==
    /\ g \in active
    /\ taken[g] < earned[g] /\ earned[g] < total[g]
    /\ active' = active
    /\ taken'[g] = earned[g]
    /\ held'[g] = held[g] - (earned[g] - taken[g])
    /\ received'[g] = received[g] + (earned[g] - taken[g])
    /\ revocable'[g] = revocable[g] /\ total'[g] = total[g]
    /\ earned'[g] = earned[g] /\ returned'[g] = returned[g]
    /\ OthersUnchanged(g)

(* The last withdrawal: everything set aside, donations included. *)
Collect(g) ==
    /\ g \in active
    /\ taken[g] < earned[g] /\ earned[g] = total[g]
    /\ Over(g)
    /\ received'[g] = received[g] + held[g] /\ returned'[g] = returned[g]
    /\ OthersUnchanged(g)

(* The grantor takes back all but what the beneficiary has earned and not  *)
(* taken.  That remainder is the beneficiary's for good, but stays set     *)
(* aside until they take it (see CancelSettles in module Timelock).        *)
Reclaim(g) ==
    LET keep == earned[g] - taken[g]
    IN  /\ g \in active /\ revocable[g]
        /\ held[g] >= keep
        /\ returned'[g] = returned[g] + (held[g] - keep)
        /\ received'[g] = received[g]
        /\ \/ keep = 0 /\ Over(g)
           \/ /\ keep > 0
              /\ active' = active
              /\ revocable'[g] = FALSE
              /\ total'[g] = earned[g] /\ earned'[g] = earned[g]
              /\ taken'[g] = taken[g] /\ held'[g] = keep
        /\ OthersUnchanged(g)

Next ==
    \/ Accrue
    \/ \E g \in Grants :
          Award(g) \/ TopUp(g) \/ Take(g) \/ Collect(g) \/ Reclaim(g)

Spec == Init /\ [][Next]_vars
=============================================================================

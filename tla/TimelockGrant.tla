--------------------------- MODULE TimelockGrant ---------------------------
(***************************************************************************)
(* The timelock instructions implement the promise of module Grant: the    *)
(* earned part is what the schedule says has vested at the chain's clock,  *)
(* the set-aside tokens are the vault.                                     *)
(***************************************************************************)
EXTENDS Timelock

G == INSTANCE Grant WITH
        Grants    <- Locks,
        active    <- open,
        revocable <- [k \in Locks |-> lock[k].cancellable],
        total     <- [k \in Locks |-> lock[k].total],
        earned    <- [k \in Locks |-> Vested(k)],
        taken     <- [k \in Locks |-> lock[k].withdrawn],
        held      <- vault,
        received  <- [k \in Locks |-> history[k].paid],
        returned  <- [k \in Locks |-> history[k].refunded]

(* Every behaviour of the three instructions, of donations and of the      *)
(* clock is, seen through the mapping, a behaviour of a grant: what is     *)
(* earned never shrinks, is taken at most once, and a cancellation returns *)
(* exactly what is not owed.  It pays the recipient nothing: the grant     *)
(* follows cancel_timelock there, and not README.md:195, which promises a  *)
(* payment and closed accounts (CancelSettles).                            *)
ImplementsGrant == G!Spec
=============================================================================

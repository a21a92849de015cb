------------------------------ MODULE Timelock ------------------------------
(***************************************************************************)
(* Time-locked and vesting transfers: the three timelock instructions of   *)
(* the on-chain program (create_timelock, withdraw_timelock,               *)
(* cancel_timelock), the chain's clock, and donations anyone may make to a *)
(* vault.  An instruction is atomic: it either commits every effect or     *)
(* aborts with none, so each one is a single action, and the instructions  *)
(* of different users interleave freely with each other and with the clock.*)
(*                                                                         *)
(* A lock is named by its PDA seeds <<sender, recipient, seed>>.  There is *)
(* one mint.  The timelock account and its vault are created and closed    *)
(* together, so `open' stands for the existence of both.                   *)
(***************************************************************************)
EXTENDS Vesting

CONSTANTS
    Users,      \* wallet owners
    Locks,      \* the PDAs in play: triples <<sender, recipient, seed>>
    Amounts,    \* the amounts instructions are called with
    Times,      \* instants the clock and the schedules take
    TimeMin,    \* the smallest and the largest i64
    TimeMax,
    Genesis,    \* the clock when the model starts
    Funds       \* tokens each user starts with

ASSUME AmountsAssumption == Amounts \subseteq Nat
ASSUME TimesAssumption ==
    /\ TimeMin \in Int /\ TimeMax \in Nat /\ TimeMin <= TimeMax
    /\ Times \subseteq TimeMin .. TimeMax
    /\ Genesis \in Times
ASSUME LocksAssumption == \A k \in Locks : k[1] \in Users /\ k[2] \in Users
ASSUME FundsAssumption == Funds \in [Users -> Nat]

VARIABLES
    now,        \* Clock::get()?.unix_timestamp
    open,       \* the locks whose accounts exist
    lock,       \* the Timelock account of each lock (Blank unless open)
    vault,      \* token balance of each lock's vault (0 unless open)
    wallet,     \* token balance of each user
    history     \* what happened to each lock since it was last created

timelockVars == <<now, open, lock, vault, wallet, history>>

Sender(k)    == k[1]
Recipient(k) == k[2]

-----------------------------------------------------------------------------
(* State.                                                                  *)

LockState ==
    [total : Nat, withdrawn : Nat, start : Int, cliff : Int, end : Int,
     cancellable : BOOLEAN]

Blank == [total |-> 0, withdrawn |-> 0, start |-> 0, cliff |-> 0, end |-> 0,
          cancellable |-> FALSE]

(* History variables: the terms the sender agreed to, and every token that *)
(* has entered or left the vault since.                                    *)
History ==
    [amount : Nat, start : Int, cliff : Int, end : Int, cancellable : BOOLEAN,
     donated : Nat, paid : Nat, refunded : Nat]

NoHistory ==
    [amount |-> 0, start |-> 0, cliff |-> 0, end |-> 0, cancellable |-> FALSE,
     donated |-> 0, paid |-> 0, refunded |-> 0]

TimelockInit ==
    /\ now = Genesis
    /\ open = {}
    /\ lock = [k \in Locks |-> Blank]
    /\ vault = [k \in Locks |-> 0]
    /\ wallet = Funds
    /\ history = [k \in Locks |-> NoHistory]

-----------------------------------------------------------------------------
(* What the program computes from an account.                              *)

Vested(k) ==
    VestedAmount(lock[k].total, lock[k].start, lock[k].cliff, lock[k].end, now)

VestingAborts(k) ==
    VestedAmountAborts(lock[k].start, lock[k].cliff, lock[k].end, now, TimeMax)

(* Faulty variants of a definition stand before it; the checks of          *)
(* PROJECT.json replace the definition by the variant and expect the named *)
(* property to fail.                                                       *)
OwedAgain(k)   == Vested(k)

(* vested.saturating_sub(withdrawn): claimable when withdrawing, owed to   *)
(* the recipient when cancelling.                                          *)
Owed(k) == Monus(Vested(k), lock[k].withdrawn)

Finished(k) == Vested(k) >= lock[k].total

PayoutClaimable(k) == Owed(k)

(* When everything has vested the whole balance is paid, donations         *)
(* included; before that exactly what is claimable.                        *)
Payout(k) == IF Finished(k) THEN vault[k] ELSE Owed(k)

CountedNot(k) == lock[k]

(* The account after a withdrawal that does not close it. *)
Counted(k) == [lock[k] EXCEPT !.withdrawn = @ + Owed(k)]

(* What a cancellation returns to the sender. *)
Refund(k) == Monus(vault[k], Owed(k))

MayCancel(k) == lock[k].cancellable

NothingOwed(k) == Owed(k) = 0

FrozenAtTotal(k) ==
    [lock[k] EXCEPT !.start = Earlier(@, now), !.cliff = Earlier(@, now),
                    !.end = now, !.cancellable = FALSE]

FrozenRunning(k) == [lock[k] EXCEPT !.total = Vested(k), !.cancellable = FALSE]

(* The schedule of a cancelled lock: what the recipient has earned counts  *)
(* as fully vested from now on.                                            *)
Frozen(k) ==
    [lock[k] EXCEPT !.total = Vested(k),
                    !.start = Earlier(@, now),
                    !.cliff = Earlier(@, now),
                    !.end = now,
                    !.cancellable = FALSE]

VacantAnyway(k) == TRUE

(* The `init' constraints: neither account exists yet. *)
Vacant(k) == k \notin open

-----------------------------------------------------------------------------
(* The instructions.                                                       *)

CreateTimelock(k, amount, start, cliff, end, cancellable) ==
    /\ Vacant(k)
    /\ amount > 0
    /\ start <= cliff /\ cliff <= end /\ end > now
    /\ wallet[Sender(k)] >= amount
    /\ open' = open \cup {k}
    /\ lock' = [lock EXCEPT ![k] =
                   [total |-> amount, withdrawn |-> 0, start |-> start,
                    cliff |-> cliff, end |-> end, cancellable |-> cancellable]]
    /\ vault' = [vault EXCEPT ![k] = @ + amount]
    /\ wallet' = [wallet EXCEPT ![Sender(k)] = @ - amount]
    /\ history' = [history EXCEPT ![k] =
                   [amount |-> amount, start |-> start, cliff |-> cliff,
                    end |-> end, cancellable |-> cancellable,
                    donated |-> 0, paid |-> 0, refunded |-> 0]]
    /\ UNCHANGED now

(* The vault and the timelock account close in the same instruction; the   *)
(* token program refuses to close a vault that still holds tokens.         *)
CloseLock(k, payout) ==
    /\ vault[k] = payout
    /\ open' = open \ {k}
    /\ lock' = [lock EXCEPT ![k] = Blank]

(* The recipient takes what is claimable; the last withdrawal closes. *)
WithdrawTimelock(k) ==
    /\ k \in open
    /\ ~VestingAborts(k)
    /\ Owed(k) > 0
    /\ Payout(k) <= vault[k]
    /\ vault' = [vault EXCEPT ![k] = @ - Payout(k)]
    /\ wallet' = [wallet EXCEPT ![Recipient(k)] = @ + Payout(k)]
    /\ history' = [history EXCEPT ![k].paid = @ + Payout(k)]
    /\ \/ Finished(k) /\ CloseLock(k, Payout(k))
       \/ /\ ~Finished(k)
          /\ lock' = [lock EXCEPT ![k] = Counted(k)]
          /\ UNCHANGED open
    /\ UNCHANGED now

(* The sender takes back what is not owed.  If nothing is owed the lock    *)
(* closes, otherwise its schedule is frozen.                               *)
CancelTimelock(k) ==
    /\ k \in open
    /\ MayCancel(k)
    /\ ~VestingAborts(k)
    /\ vault' = [vault EXCEPT ![k] = @ - Refund(k)]
    /\ wallet' = [wallet EXCEPT ![Sender(k)] = @ + Refund(k)]
    /\ history' = [history EXCEPT ![k].refunded = @ + Refund(k)]
    /\ \/ NothingOwed(k) /\ CloseLock(k, Refund(k))
       \/ /\ ~NothingOwed(k)
          /\ lock' = [lock EXCEPT ![k] = Frozen(k)]
          /\ UNCHANGED open
    /\ UNCHANGED now

(* Anyone may transfer tokens to a vault: it is an ordinary token account. *)
Donate(u, k, amount) ==
    /\ k \in open
    /\ amount > 0 /\ wallet[u] >= amount
    /\ wallet' = [wallet EXCEPT ![u] = @ - amount]
    /\ vault' = [vault EXCEPT ![k] = @ + amount]
    /\ history' = [history EXCEPT ![k].donated = @ + amount]
    /\ UNCHANGED <<now, open, lock>>

(* The chain's clock never runs backwards; it may jump any distance.       *)
Tick ==
    /\ now' \in {t \in Times : t > now}
    /\ UNCHANGED <<open, lock, vault, wallet, history>>

TimelockNext ==
    \/ Tick
    \/ \E k \in Locks :
        \/ \E amount \in Amounts, s, c, e \in Times, b \in BOOLEAN :
              CreateTimelock(k, amount, s, c, e, b)
        \/ WithdrawTimelock(k)
        \/ CancelTimelock(k)
        \/ \E u \in Users, amount \in Amounts : Donate(u, k, amount)

TimelockSpec == TimelockInit /\ [][TimelockNext]_timelockVars

-----------------------------------------------------------------------------
(* Properties.                                                             *)

(* Types: balances and counters never go negative, accounts are well       *)
(* formed.                                                                 *)
TimelockTypeOK ==
    /\ now \in Times
    /\ open \subseteq Locks
    /\ lock \in [Locks -> LockState]
    /\ vault \in [Locks -> Nat]
    /\ wallet \in [Users -> Nat]
    /\ history \in [Locks -> History]

(* A vault always covers what its lock still promises, whatever order of   *)
(* withdrawals, donations and cancellations led here: the transfers of     *)
(* withdraw_timelock and cancel_timelock never fail for want of tokens.    *)
Solvent ==
    \A k \in open : vault[k] >= lock[k].total - lock[k].withdrawn

(* No token is lost or created: what entered a vault was paid to the       *)
(* recipient, returned to the sender, or is still there; and nothing is    *)
(* left behind in the vault of a closed lock.                              *)
Accounted ==
    \A k \in Locks :
        /\ history[k].paid + history[k].refunded + vault[k]
              = history[k].amount + history[k].donated
        /\ k \notin open => vault[k] = 0

(* There is no open lock with nothing left to withdraw: once its end has   *)
(* come, one withdrawal empties the vault, whatever was donated to it, and *)
(* closes the lock.  (A lock with withdrawn = total could never be closed: *)
(* withdraw_timelock would answer NothingToWithdraw for ever; one whose    *)
(* last payout leaves a donation behind could not close its vault.)        *)
NeverStranded ==
    \A k \in open :
        /\ lock[k].withdrawn < lock[k].total
        /\ now >= lock[k].end =>
              Owed(k) > 0 /\ ~VestingAborts(k) /\ Payout(k) = vault[k]

(* The recipient is never ahead of the schedule the sender signed, even    *)
(* after cancellations and freezes; only stray donations come on top.      *)
NeverAheadOfSchedule ==
    \A k \in Locks :
        LET h == history[k]
        IN  h.paid <= VestedAmount(h.amount, h.start, h.cliff, h.end, now)
                        + h.donated

(* A lock created as non-cancellable gives nothing back to its sender, not *)
(* even a donation.                                                        *)
Irrevocable ==
    \A k \in Locks : ~history[k].cancellable => history[k].refunded = 0

(* What a recipient has earned: what the account says has vested while it  *)
(* is open, what was paid once it is closed.                               *)
Earned(k) == IF k \in open THEN Vested(k) ELSE history[k].paid

(* No step takes back anything already earned: not a cancellation, not a   *)
(* withdrawal that closes the lock, not the passing of time over a frozen  *)
(* schedule.                                                               *)
EarnedNeverShrinks ==
    [][\A k \in open : Earned(k)' >= Earned(k)]_timelockVars

(* A cancelled lock is frozen: from then on nothing accrues, nothing flows *)
(* back to the sender, and the next withdrawal is the last.                *)
FrozenIsFinal ==
    [][\A k \in open :
          (history[k].cancellable /\ ~lock[k].cancellable) =>
              /\ history'[k].refunded = history[k].refunded
              /\ k \in open' => lock'[k] = lock[k]]_timelockVars

-----------------------------------------------------------------------------
(* What the documentation says of the program and the program does not do. *)

(* README.md:58: the recipient can "withdraw what has unlocked so far, any *)
(* time".  create_timelock accepts every start <= cliff <= end, also one   *)
(* whose end - start does not fit an i64; then vested_amount aborts from   *)
(* the cliff to the end, and with it withdraw_timelock and cancel_timelock.*)
WithdrawAnyTime ==
    \A k \in open : Owed(k) > 0 => ~VestingAborts(k)

(* README.md:195: cancel_timelock "Pays the recipient what they have        *)
(* earned, returns the rest to the sender and closes the accounts", and    *)
(* README.md:59 says that cancelling pays them.  While something is owed,  *)
(* cancel_timelock leaves it in the vault for withdraw_timelock and closes *)
(* nothing.                                                                *)
CancelSettles ==
    [][\A k \in open :
          CancelTimelock(k) =>
              /\ history'[k].paid = history[k].paid + Owed(k)
              /\ k \notin open']_timelockVars
=============================================================================

--------------------------- MODULE TimelockProofs ---------------------------
(***************************************************************************)
(* The invariants and action properties of Timelock, proved for any set of *)
(* users, locks, amounts and instants.                                     *)
(*                                                                         *)
(* The properties are about different things (the vault, the schedule, the *)
(* recipient's income) but none is inductive alone: that a vault is        *)
(* solvent after a cancellation needs what was owed to be no more than the *)
(* total; that the recipient is not ahead of the signed schedule needs to  *)
(* know how a frozen schedule relates to the signed one.  Safe(k) gathers  *)
(* for one lock what an instruction on it needs, and Inv is the inductive  *)
(* invariant.  GrantInv adds what the mapping to module Grant reads.       *)
(***************************************************************************)
EXTENDS TimelockGrant, TLAPS

-----------------------------------------------------------------------------
(* The vesting arithmetic, for every amount and every schedule             *)
(* create_timelock accepts (start <= cliff <= end).                        *)

LEMMA MonusNat ==
    ASSUME NEW a \in Nat, NEW b \in Nat
    PROVE  Monus(a, b) \in Nat
BY DEF Monus

(* A proper fraction of t is less than t. *)
LEMMA ProperFraction ==
    ASSUME NEW t \in Nat, NEW e \in Nat, NEW d \in Nat, e < d
    PROVE  /\ (t * e) \div d \in Nat
           /\ (t * e) \div d <= t
           /\ t > 0 => (t * e) \div d < t
<1>1. t * e \in Nat /\ t * d \in Nat /\ t * e <= t * d
  BY SMT
<1>2. t > 0 => t * e < t * d
  BY SMT
<1>3. (t * e) \div d \in Nat
  BY <1>1, SMT
<1>4. (t * e) \div d <= t
  BY <1>1, SMT
<1>5. t > 0 => (t * e) \div d < t
  BY <1>1, <1>2, SMT
<1> QED
  BY <1>3, <1>4, <1>5

(* A longer elapsed time gives no smaller share. *)
LEMMA FractionMonotone ==
    ASSUME NEW t \in Nat, NEW e \in Nat, NEW f \in Nat, NEW d \in Nat,
           e <= f, f < d
    PROVE  (t * e) \div d <= (t * f) \div d
<1>1. t * e \in Nat /\ t * f \in Nat /\ t * e <= t * f
  BY SMT
<1> DEFINE a == t * e
           b == t * f
<1>2. a \in Nat /\ b \in Nat /\ a <= b
  BY <1>1
<1>3. a \div d <= b \div d
  <2> HIDE DEF a, b
  <2> QED  BY <1>2, SMT
<1> QED
  BY <1>3

(* vested_amount pays at most the total; all of it exactly from the end on.*)
THEOREM VestedBounds ==
    ASSUME NEW total \in Nat, NEW start \in Int, NEW cliff \in Int,
           NEW end \in Int, NEW t \in Int, start <= cliff, cliff <= end
    PROVE  /\ VestedAmount(total, start, cliff, end, t) \in Nat
           /\ VestedAmount(total, start, cliff, end, t) <= total
           /\ t < end /\ total > 0
                 => VestedAmount(total, start, cliff, end, t) < total
           /\ t >= end => VestedAmount(total, start, cliff, end, t) = total
<1>1. CASE t < cliff
  BY <1>1 DEF VestedAmount
<1>2. CASE t >= end
  BY <1>2 DEF VestedAmount
<1>3. CASE t >= cliff /\ t < end
  <2>1. t - start \in Nat /\ end - start \in Nat /\ t - start < end - start
    BY <1>3
  <2>2. VestedAmount(total, start, cliff, end, t)
           = (total * (t - start)) \div (end - start)
    BY <1>3 DEF VestedAmount
  <2> QED
    BY <1>3, <2>1, <2>2, ProperFraction
<1> QED
  BY <1>1, <1>2, <1>3

(* The vested amount never shrinks as the clock advances. *)
THEOREM VestedMonotone ==
    ASSUME NEW total \in Nat, NEW start \in Int, NEW cliff \in Int,
           NEW end \in Int, start <= cliff, cliff <= end,
           NEW t \in Int, NEW u \in Int, t <= u
    PROVE  VestedAmount(total, start, cliff, end, t)
              <= VestedAmount(total, start, cliff, end, u)
<1>1. CASE t < cliff
  <2>1. VestedAmount(total, start, cliff, end, t) = 0
    BY <1>1 DEF VestedAmount
  <2> QED
    BY <2>1, VestedBounds
<1>2. CASE u >= end
  <2>1. VestedAmount(total, start, cliff, end, u) = total
    BY <1>2 DEF VestedAmount
  <2> QED
    BY <2>1, VestedBounds
<1>3. CASE t >= cliff /\ u < end
  <2>1. /\ t - start \in Nat /\ u - start \in Nat /\ end - start \in Nat
        /\ t - start <= u - start /\ u - start < end - start
    BY <1>3
  <2>2. /\ VestedAmount(total, start, cliff, end, t)
              = (total * (t - start)) \div (end - start)
        /\ VestedAmount(total, start, cliff, end, u)
              = (total * (u - start)) \div (end - start)
    BY <1>3 DEF VestedAmount
  <2> QED
    BY <2>1, <2>2, FractionMonotone
<1> QED
  BY <1>1, <1>2, <1>3

-----------------------------------------------------------------------------
(* The inductive invariant.                                                *)

(* The account itself. *)
WellFormed(k) ==
    /\ lock[k].start <= lock[k].cliff /\ lock[k].cliff <= lock[k].end
    /\ lock[k].withdrawn < lock[k].total

(* The vault holds what the account promises, and at most the donations on *)
(* top.                                                                    *)
Covered(k) ==
    /\ vault[k] >= lock[k].total - lock[k].withdrawn
    /\ vault[k] <= lock[k].total - lock[k].withdrawn + history[k].donated

(* What the signed schedule grants at the present instant. *)
Signed(k) ==
    VestedAmount(history[k].amount, history[k].start, history[k].cliff,
                 history[k].end, now)

AsSigned(k) ==
    /\ lock[k].total = history[k].amount
    /\ lock[k].start = history[k].start
    /\ lock[k].cliff = history[k].cliff
    /\ lock[k].end = history[k].end
    /\ lock[k].cancellable = history[k].cancellable
    /\ history[k].refunded = 0

CutShort(k) ==
    /\ history[k].cancellable
    /\ ~lock[k].cancellable
    /\ lock[k].end <= now
    /\ lock[k].total <= Signed(k)

SafeOpen(k) ==
    /\ WellFormed(k)
    /\ Covered(k)
    /\ history[k].paid = lock[k].withdrawn
    /\ AsSigned(k) \/ CutShort(k)

Balanced(k) ==
    history[k].paid + history[k].refunded + vault[k]
        = history[k].amount + history[k].donated

Safe(k) ==
    /\ history[k].start <= history[k].cliff
    /\ history[k].cliff <= history[k].end
    /\ Balanced(k)
    /\ ~history[k].cancellable => history[k].refunded = 0
    /\ history[k].paid <= Signed(k) + history[k].donated
    /\ IF k \in open THEN SafeOpen(k) ELSE vault[k] = 0

Inv == TimelockTypeOK /\ \A k \in Locks : Safe(k)

-----------------------------------------------------------------------------
(* Type correctness.                                                       *)

(* What an open, well-formed lock has vested and owes. *)
LEMMA VestedFacts ==
    ASSUME TimelockTypeOK, NEW k \in Locks,
           lock[k].start <= lock[k].cliff, lock[k].cliff <= lock[k].end
    PROVE  /\ Vested(k) \in Nat
           /\ Vested(k) <= lock[k].total
           /\ now < lock[k].end /\ lock[k].total > 0 => Vested(k) < lock[k].total
           /\ now >= lock[k].end => Vested(k) = lock[k].total
           /\ Owed(k) \in Nat
           /\ Owed(k) > 0 => Owed(k) = Vested(k) - lock[k].withdrawn
           /\ Owed(k) = 0 => Vested(k) <= lock[k].withdrawn
<1>1. /\ lock[k].total \in Nat /\ lock[k].withdrawn \in Nat
      /\ lock[k].start \in Int /\ lock[k].cliff \in Int /\ lock[k].end \in Int
  BY DEF TimelockTypeOK, LockState
<1>2. now \in Int
  BY TimesAssumption DEF TimelockTypeOK
<1>3. /\ Vested(k) \in Nat
      /\ Vested(k) <= lock[k].total
      /\ now < lock[k].end /\ lock[k].total > 0 => Vested(k) < lock[k].total
      /\ now >= lock[k].end => Vested(k) = lock[k].total
  <2> DEFINE total == lock[k].total
             start == lock[k].start
             cliff == lock[k].cliff
             end   == lock[k].end
  <2>1. Vested(k) = VestedAmount(total, start, cliff, end, now)
    BY DEF Vested
  <2>2. /\ total \in Nat /\ start \in Int /\ cliff \in Int /\ end \in Int
        /\ start <= cliff /\ cliff <= end
    BY <1>1
  <2> HIDE DEF total, start, cliff, end
  <2>3. /\ Vested(k) \in Nat
        /\ Vested(k) <= total
        /\ now < end /\ total > 0 => Vested(k) < total
        /\ now >= end => Vested(k) = total
    BY <1>2, <2>1, <2>2, VestedBounds
  <2> QED
    BY <2>3 DEF total, end
<1> QED
  BY <1>1, <1>3 DEF Owed, Monus

LEMMA EarlierInt ==
    ASSUME NEW a \in Int, NEW b \in Int
    PROVE  /\ Earlier(a, b) \in Int
           /\ Earlier(a, b) <= a /\ Earlier(a, b) <= b
           /\ \A c \in Int : a <= c => Earlier(a, b) <= Earlier(c, b)
BY DEF Earlier

(* The components of a state of the right type. *)
LEMMA Components ==
    ASSUME TimelockTypeOK, NEW k \in Locks
    PROVE  /\ lock[k] \in LockState
           /\ lock[k].total \in Nat /\ lock[k].withdrawn \in Nat
           /\ lock[k].start \in Int /\ lock[k].cliff \in Int
           /\ lock[k].end \in Int /\ lock[k].cancellable \in BOOLEAN
           /\ vault[k] \in Nat
           /\ history[k] \in History
           /\ history[k].amount \in Nat /\ history[k].donated \in Nat
           /\ history[k].paid \in Nat /\ history[k].refunded \in Nat
           /\ history[k].start \in Int /\ history[k].cliff \in Int
           /\ history[k].end \in Int /\ history[k].cancellable \in BOOLEAN
           /\ now \in Int
BY TimesAssumption DEF TimelockTypeOK, LockState, History

LEMMA TypeInit == TimelockInit => TimelockTypeOK
BY TimesAssumption, FundsAssumption
   DEF TimelockInit, TimelockTypeOK, Blank, NoHistory, LockState, History

LEMMA TypeCreate ==
    ASSUME TimelockTypeOK, NEW k \in Locks, NEW amount \in Amounts,
           NEW s \in Times, NEW c \in Times, NEW e \in Times, NEW b \in BOOLEAN,
           CreateTimelock(k, amount, s, c, e, b)
    PROVE  TimelockTypeOK'
<1>1. /\ amount \in Nat /\ s \in Int /\ c \in Int /\ e \in Int
      /\ Sender(k) \in Users
  BY AmountsAssumption, TimesAssumption, LocksAssumption DEF Sender
<1>2. now' \in Times /\ open' \subseteq Locks
  BY DEF TimelockTypeOK, CreateTimelock
<1>3. lock' \in [Locks -> LockState]
  BY <1>1 DEF TimelockTypeOK, CreateTimelock, LockState
<1>4. vault' \in [Locks -> Nat]
  BY <1>1 DEF TimelockTypeOK, CreateTimelock
<1>5. wallet' \in [Users -> Nat]
  <2>1. wallet[Sender(k)] - amount \in Nat
    BY <1>1 DEF TimelockTypeOK, CreateTimelock
  <2> QED
    BY <2>1 DEF TimelockTypeOK, CreateTimelock
<1>6. history' \in [Locks -> History]
  BY <1>1 DEF TimelockTypeOK, CreateTimelock, History
<1> QED
  BY <1>2, <1>3, <1>4, <1>5, <1>6 DEF TimelockTypeOK

LEMMA TypeWithdraw ==
    ASSUME TimelockTypeOK, NEW k \in Locks,
           k \in open => lock[k].start <= lock[k].cliff /\ lock[k].cliff <= lock[k].end,
           WithdrawTimelock(k)
    PROVE  TimelockTypeOK'
<1> DEFINE payout == Payout(k)
<1>1. /\ payout \in Nat /\ payout <= vault[k]
      /\ vault' = [vault EXCEPT ![k] = @ - payout]
      /\ wallet' = [wallet EXCEPT ![Recipient(k)] = @ + payout]
      /\ history' = [history EXCEPT ![k].paid = @ + payout]
      /\ Owed(k) \in Nat
  BY VestedFacts, Components DEF WithdrawTimelock, Payout
<1> HIDE DEF payout
<1>2. now' \in Times /\ open' \subseteq Locks
  BY DEF TimelockTypeOK, WithdrawTimelock, CloseLock
<1>3. lock' \in [Locks -> LockState]
  <2>1. lock' = [lock EXCEPT ![k] = Blank]
        \/ lock' = [lock EXCEPT ![k] = [lock[k] EXCEPT !.withdrawn = @ + Owed(k)]]
    BY DEF WithdrawTimelock, CloseLock, Payout, Finished, Counted
  <2>2. Blank \in LockState
    BY DEF Blank, LockState
  <2>3. [lock[k] EXCEPT !.withdrawn = @ + Owed(k)] \in LockState
    BY <1>1, Components DEF LockState
  <2> QED
    BY <2>1, <2>2, <2>3 DEF TimelockTypeOK
<1>4. vault' \in [Locks -> Nat]
  <2>1. vault[k] - payout \in Nat
    BY <1>1, Components
  <2> QED
    BY <1>1, <2>1 DEF TimelockTypeOK
<1>5. wallet' \in [Users -> Nat]
  <2>1. Recipient(k) \in Users
    BY LocksAssumption DEF Recipient
  <2>2. wallet[Recipient(k)] + payout \in Nat
    BY <1>1, <2>1 DEF TimelockTypeOK
  <2> QED
    BY <1>1, <2>2 DEF TimelockTypeOK
<1>6. history' \in [Locks -> History]
  <2>1. [history[k] EXCEPT !.paid = @ + payout] \in History
    BY <1>1, Components DEF History
  <2> QED
    BY <1>1, <2>1 DEF TimelockTypeOK
<1> QED
  BY <1>2, <1>3, <1>4, <1>5, <1>6 DEF TimelockTypeOK

LEMMA TypeCancel ==
    ASSUME TimelockTypeOK, NEW k \in Locks,
           k \in open => lock[k].start <= lock[k].cliff /\ lock[k].cliff <= lock[k].end,
           CancelTimelock(k)
    PROVE  TimelockTypeOK'
<1> DEFINE refund == Refund(k)
<1>1. /\ refund \in Nat /\ vault[k] - refund \in Nat
      /\ vault' = [vault EXCEPT ![k] = @ - refund]
      /\ wallet' = [wallet EXCEPT ![Sender(k)] = @ + refund]
      /\ history' = [history EXCEPT ![k].refunded = @ + refund]
      /\ Owed(k) \in Nat /\ Vested(k) \in Nat
  BY VestedFacts, Components DEF CancelTimelock, Refund, Monus
<1> HIDE DEF refund
<1>2. now' \in Times /\ open' \subseteq Locks
  BY DEF TimelockTypeOK, CancelTimelock, CloseLock
<1>3. lock' \in [Locks -> LockState]
  <2>1. lock' = [lock EXCEPT ![k] = Blank] \/ lock' = [lock EXCEPT ![k] = Frozen(k)]
    BY DEF CancelTimelock, CloseLock, NothingOwed
  <2>2. Blank \in LockState
    BY DEF Blank, LockState
  <2>3. Frozen(k) \in LockState
    BY <1>1, Components, EarlierInt DEF Frozen, LockState
  <2> QED
    BY <2>1, <2>2, <2>3 DEF TimelockTypeOK
<1>4. vault' \in [Locks -> Nat]
  BY <1>1 DEF TimelockTypeOK
<1>5. wallet' \in [Users -> Nat]
  <2>1. Sender(k) \in Users
    BY LocksAssumption DEF Sender
  <2>2. wallet[Sender(k)] + refund \in Nat
    BY <1>1, <2>1 DEF TimelockTypeOK
  <2> QED
    BY <1>1, <2>2 DEF TimelockTypeOK
<1>6. history' \in [Locks -> History]
  <2>1. [history[k] EXCEPT !.refunded = @ + refund] \in History
    BY <1>1, Components DEF History
  <2> QED
    BY <1>1, <2>1 DEF TimelockTypeOK
<1> QED
  BY <1>2, <1>3, <1>4, <1>5, <1>6 DEF TimelockTypeOK

LEMMA TypeDonate ==
    ASSUME TimelockTypeOK, NEW k \in Locks, NEW u \in Users, NEW amount \in Amounts,
           Donate(u, k, amount)
    PROVE  TimelockTypeOK'
<1>1. amount \in Nat /\ wallet[u] - amount \in Nat /\ vault[k] + amount \in Nat
  BY AmountsAssumption DEF TimelockTypeOK, Donate
<1>2. [history[k] EXCEPT !.donated = @ + amount] \in History
  BY <1>1, Components DEF History
<1> QED
  BY <1>1, <1>2 DEF TimelockTypeOK, Donate

-----------------------------------------------------------------------------
(* Every step keeps every lock safe.                                       *)

(* What the signed schedule grants lies between nothing and everything. *)
LEMMA SignedFacts ==
    ASSUME TimelockTypeOK, NEW k \in Locks,
           history[k].start <= history[k].cliff,
           history[k].cliff <= history[k].end
    PROVE  /\ Signed(k) \in Nat
           /\ Signed(k) <= history[k].amount
           /\ now >= history[k].end => Signed(k) = history[k].amount
<1> DEFINE amount == history[k].amount
           start == history[k].start
           cliff == history[k].cliff
           end   == history[k].end
<1>1. Signed(k) = VestedAmount(amount, start, cliff, end, now)
  BY DEF Signed
<1>2. /\ amount \in Nat /\ start \in Int /\ cliff \in Int /\ end \in Int
      /\ start <= cliff /\ cliff <= end /\ now \in Int
  BY Components
<1> HIDE DEF amount, start, cliff, end
<1>3. /\ Signed(k) \in Nat
      /\ Signed(k) <= amount
      /\ now >= end => Signed(k) = amount
  BY <1>1, <1>2, VestedBounds
<1> QED
  BY <1>3 DEF amount, end

(* A lock a step does not touch stays safe, however far the clock moves.   *)
LEMMA Untouched ==
    ASSUME TimelockTypeOK, TimelockTypeOK', NEW k \in Locks, Safe(k),
           lock'[k] = lock[k], vault'[k] = vault[k], history'[k] = history[k],
           k \in open' <=> k \in open,
           now <= now'
    PROVE  Safe(k)'
<1> DEFINE h == history[k]
<1>1. Signed(k) <= Signed(k)'
  <2> DEFINE amount == history[k].amount
             start == history[k].start
             cliff == history[k].cliff
             end   == history[k].end
  <2>1. /\ Signed(k) = VestedAmount(amount, start, cliff, end, now)
        /\ Signed(k)' = VestedAmount(amount, start, cliff, end, now')
    BY DEF Signed
  <2>2. /\ amount \in Nat /\ start \in Int /\ cliff \in Int /\ end \in Int
        /\ start <= cliff /\ cliff <= end
    BY Components DEF Safe
  <2>3. now \in Int /\ now' \in Int
    BY TimesAssumption DEF TimelockTypeOK
  <2> HIDE DEF amount, start, cliff, end
  <2> QED
    BY <2>1, <2>2, <2>3, VestedMonotone
<1>2. Signed(k) \in Nat /\ Signed(k)' \in Nat
  <2>1. Signed(k) \in Nat
    BY SignedFacts DEF Safe
  <2>2. Signed(k)' \in Nat
    <3> DEFINE amount == history[k].amount
               start == history[k].start
               cliff == history[k].cliff
               end   == history[k].end
    <3>1. Signed(k)' = VestedAmount(amount, start, cliff, end, now')
      BY DEF Signed
    <3>2. /\ amount \in Nat /\ start \in Int /\ cliff \in Int /\ end \in Int
          /\ start <= cliff /\ cliff <= end
      BY Components DEF Safe
    <3>3. now' \in Int
      BY TimesAssumption DEF TimelockTypeOK
    <3> HIDE DEF amount, start, cliff, end
    <3> QED
      BY <3>1, <3>2, <3>3, VestedBounds
  <2> QED
    BY <2>1, <2>2
<1>3. (history[k].paid <= Signed(k) + history[k].donated)'
  BY <1>1, <1>2, Components DEF Safe
<1>4. ASSUME k \in open
      PROVE  SafeOpen(k)'
  <2>1. SafeOpen(k)
    BY <1>4 DEF Safe
  <2>2. (WellFormed(k) /\ Covered(k) /\ history[k].paid = lock[k].withdrawn)'
    BY <2>1 DEF SafeOpen, WellFormed, Covered
  <2>3. CASE AsSigned(k)
    BY <2>2, <2>3 DEF SafeOpen, AsSigned
  <2>4. CASE CutShort(k)
    <3>1. now \in Int /\ now' \in Int
      BY TimesAssumption DEF TimelockTypeOK
    <3>2. CutShort(k)'
      BY <1>1, <1>2, <2>4, <3>1, Components DEF CutShort
    <3> QED
      BY <2>2, <3>2 DEF SafeOpen
  <2> QED
    BY <2>1, <2>3, <2>4 DEF SafeOpen
<1> QED
  BY <1>3, <1>4 DEF Safe, Balanced

LEMMA CreateSafe ==
    ASSUME Inv, TimelockTypeOK', NEW k \in Locks, NEW amount \in Amounts,
           NEW s \in Times, NEW c \in Times, NEW e \in Times, NEW b \in BOOLEAN,
           CreateTimelock(k, amount, s, c, e, b)
    PROVE  Safe(k)'
<1>1. /\ amount \in Nat /\ s \in Int /\ c \in Int /\ e \in Int /\ amount > 0
      /\ s <= c /\ c <= e
  BY AmountsAssumption, TimesAssumption DEF CreateTimelock
<1>2. /\ k \in open'
      /\ lock'[k] = [total |-> amount, withdrawn |-> 0, start |-> s,
                     cliff |-> c, end |-> e, cancellable |-> b]
      /\ vault'[k] = amount
      /\ history'[k] = [amount |-> amount, start |-> s, cliff |-> c,
                        end |-> e, cancellable |-> b,
                        donated |-> 0, paid |-> 0, refunded |-> 0]
  BY <1>1 DEF CreateTimelock, Vacant, Inv, Safe, TimelockTypeOK
<1>3. /\ history'[k].start <= history'[k].cliff
      /\ history'[k].cliff <= history'[k].end
  BY <1>1, <1>2
<1>4. Balanced(k)'
  BY <1>1, <1>2 DEF Balanced
<1>5. (history[k].paid <= Signed(k) + history[k].donated)'
  <2>1. Signed(k)' = VestedAmount(amount, s, c, e, now')
    BY <1>2 DEF Signed
  <2>2. now' \in Int
    BY TimesAssumption DEF TimelockTypeOK
  <2>3. Signed(k)' \in Nat
    BY <1>1, <2>1, <2>2, VestedBounds
  <2> QED
    BY <1>2, <2>3
<1>6. SafeOpen(k)'
  BY <1>1, <1>2 DEF SafeOpen, WellFormed, Covered, AsSigned
<1> QED
  BY <1>2, <1>3, <1>4, <1>5, <1>6 DEF Safe

(* An unfinished withdrawal counts what it pays; the last one empties the  *)
(* vault, which holds no more than the total and the donations.            *)
LEMMA WithdrawSafe ==
    ASSUME Inv, TimelockTypeOK', NEW k \in Locks, WithdrawTimelock(k)
    PROVE  Safe(k)'
<1>1. k \in open /\ Safe(k) /\ SafeOpen(k) /\ TimelockTypeOK
  BY DEF WithdrawTimelock, Inv, Safe
<1>2. lock[k].start <= lock[k].cliff /\ lock[k].cliff <= lock[k].end
  BY <1>1 DEF SafeOpen, WellFormed
<1>3. /\ Owed(k) \in Nat /\ Owed(k) > 0
      /\ Vested(k) \in Nat /\ Vested(k) <= lock[k].total
      /\ Owed(k) = Vested(k) - lock[k].withdrawn
  BY <1>1, <1>2, VestedFacts DEF WithdrawTimelock
<1>4. now' = now
  BY DEF WithdrawTimelock
<1>5. Vested(k) <= Signed(k) /\ Signed(k) \in Nat
  <2>1. Signed(k) \in Nat
    BY <1>1, SignedFacts DEF Safe
  <2>2. CASE AsSigned(k)
    BY <2>1, <2>2 DEF AsSigned, Vested, Signed
  <2>3. CASE CutShort(k)
    BY <1>1, <1>3, <2>1, <2>3, Components DEF CutShort
  <2> QED
    BY <1>1, <2>1, <2>2, <2>3 DEF SafeOpen
<1>6. CASE Vested(k) >= lock[k].total
  <2>1. /\ k \notin open' /\ vault'[k] = 0
        /\ history'[k] = [history[k] EXCEPT !.paid = @ + vault[k]]
    BY <1>1, <1>6, Components DEF WithdrawTimelock, CloseLock, Payout, Finished, Counted, TimelockTypeOK
  <2>2. /\ history'[k].amount = history[k].amount
        /\ history'[k].start = history[k].start
        /\ history'[k].cliff = history[k].cliff
        /\ history'[k].end = history[k].end
        /\ history'[k].cancellable = history[k].cancellable
        /\ history'[k].donated = history[k].donated
        /\ history'[k].refunded = history[k].refunded
        /\ history'[k].paid = history[k].paid + vault[k]
    BY <1>1, <2>1, Components DEF History
  <2>3. Signed(k)' = Signed(k)
    BY <1>4, <2>2 DEF Signed
  <2>4. Balanced(k)'
    BY <1>1, <2>1, <2>2, Components DEF Safe, Balanced
  <2>5. history[k].paid + vault[k] <= Vested(k) + history[k].donated
    BY <1>1, <1>3, <1>6, Components DEF SafeOpen, Covered
  <2>6. (history[k].paid <= Signed(k) + history[k].donated)'
    BY <1>1, <1>3, <1>5, <2>2, <2>3, <2>5, Components
  <2> QED
    BY <1>1, <2>1, <2>2, <2>4, <2>6 DEF Safe
<1>7. CASE ~(Vested(k) >= lock[k].total)
  <2>1. /\ k \in open' /\ vault'[k] = vault[k] - Owed(k)
        /\ lock'[k] = [lock[k] EXCEPT !.withdrawn = @ + Owed(k)]
        /\ history'[k] = [history[k] EXCEPT !.paid = @ + Owed(k)]
    BY <1>1, <1>7 DEF WithdrawTimelock, CloseLock, Payout, Finished, Counted, TimelockTypeOK
  <2>2. /\ history'[k].amount = history[k].amount
        /\ history'[k].start = history[k].start
        /\ history'[k].cliff = history[k].cliff
        /\ history'[k].end = history[k].end
        /\ history'[k].cancellable = history[k].cancellable
        /\ history'[k].donated = history[k].donated
        /\ history'[k].refunded = history[k].refunded
        /\ history'[k].paid = history[k].paid + Owed(k)
    BY <1>1, <2>1, Components DEF History
  <2>3. /\ lock'[k].total = lock[k].total
        /\ lock'[k].start = lock[k].start
        /\ lock'[k].cliff = lock[k].cliff
        /\ lock'[k].end = lock[k].end
        /\ lock'[k].cancellable = lock[k].cancellable
        /\ lock'[k].withdrawn = lock[k].withdrawn + Owed(k)
    BY <1>1, <2>1, Components DEF LockState
  <2>4. Signed(k)' = Signed(k)
    BY <1>4, <2>2 DEF Signed
  <2>5. Balanced(k)'
    BY <1>1, <1>3, <2>1, <2>2, Components DEF Safe, Balanced
  <2>6. (history[k].paid <= Signed(k) + history[k].donated)'
    <3>1. history'[k].paid = Vested(k)
      BY <1>1, <1>3, <2>2, Components DEF SafeOpen
    <3> QED
      BY <1>1, <1>3, <1>5, <2>2, <2>4, <3>1, Components
  <2>7. WellFormed(k)'
    BY <1>1, <1>2, <1>3, <1>7, <2>3, Components DEF WellFormed
  <2>8. Covered(k)'
    BY <1>1, <1>3, <2>1, <2>2, <2>3, Components DEF SafeOpen, Covered
  <2>9. (history[k].paid = lock[k].withdrawn)'
    BY <1>1, <2>2, <2>3 DEF SafeOpen
  <2>10. AsSigned(k)' \/ CutShort(k)'
    BY <1>1, <1>4, <2>2, <2>3, <2>4 DEF SafeOpen, AsSigned, CutShort
  <2> QED
    BY <1>1, <2>1, <2>2, <2>5, <2>6, <2>7, <2>8, <2>9, <2>10 DEF Safe, SafeOpen
<1> QED
  BY <1>6, <1>7

(* A cancellation leaves exactly what is owed, under a schedule that has   *)
(* ended.                                                                  *)
LEMMA CancelSafe ==
    ASSUME Inv, TimelockTypeOK', NEW k \in Locks, CancelTimelock(k)
    PROVE  Safe(k)'
<1>1. k \in open /\ Safe(k) /\ SafeOpen(k) /\ TimelockTypeOK /\ lock[k].cancellable
  BY DEF CancelTimelock, MayCancel, Inv, Safe
<1>2. lock[k].start <= lock[k].cliff /\ lock[k].cliff <= lock[k].end
  BY <1>1 DEF SafeOpen, WellFormed
<1>3. /\ Owed(k) \in Nat
      /\ Vested(k) \in Nat /\ Vested(k) <= lock[k].total
      /\ Owed(k) > 0 => Owed(k) = Vested(k) - lock[k].withdrawn
  BY <1>1, <1>2, VestedFacts
<1>4. now' = now /\ now \in Int
  BY <1>1, Components DEF CancelTimelock
<1>5. AsSigned(k) /\ history[k].cancellable
  BY <1>1 DEF SafeOpen, AsSigned, CutShort
<1>6. Vested(k) = Signed(k)
  BY <1>5 DEF AsSigned, Vested, Signed
<1>7. Owed(k) <= vault[k]
  BY <1>1, <1>3, Components DEF SafeOpen, Covered
<1>8. vault[k] - Owed(k) = Monus(vault[k], Owed(k))
  BY <1>1, <1>3, <1>7, Components DEF Monus
<1>9. /\ vault'[k] = Owed(k)
      /\ history'[k] = [history[k] EXCEPT !.refunded = @ + (vault[k] - Owed(k))]
  <2>1. vault'[k] = vault[k] - (vault[k] - Owed(k))
    BY <1>1, <1>8 DEF CancelTimelock, Refund, TimelockTypeOK
  <2>2. history'[k] = [history[k] EXCEPT !.refunded = @ + (vault[k] - Owed(k))]
    BY <1>1, <1>8 DEF CancelTimelock, Refund, TimelockTypeOK
  <2> QED
    BY <1>1, <1>3, <2>1, <2>2, Components
<1>10. /\ history'[k].amount = history[k].amount
       /\ history'[k].start = history[k].start
       /\ history'[k].cliff = history[k].cliff
       /\ history'[k].end = history[k].end
       /\ history'[k].cancellable = history[k].cancellable
       /\ history'[k].donated = history[k].donated
       /\ history'[k].paid = history[k].paid
       /\ history'[k].refunded = history[k].refunded + (vault[k] - Owed(k))
  BY <1>1, <1>9, Components DEF History
<1>11. Signed(k)' = Signed(k)
  BY <1>4, <1>10 DEF Signed
<1>12. Balanced(k)'
  BY <1>1, <1>3, <1>9, <1>10, Components DEF Safe, Balanced
<1>13. (history[k].paid <= Signed(k) + history[k].donated)'
  BY <1>1, <1>10, <1>11 DEF Safe
<1>14. CASE Owed(k) = 0
  <2>1. k \notin open'
    BY <1>14 DEF CancelTimelock, CloseLock, NothingOwed
  <2> QED
    BY <1>1, <1>5, <1>9, <1>10, <1>12, <1>13, <1>14, <2>1 DEF Safe
<1>15. CASE Owed(k) # 0
  <2>1. k \in open' /\ lock'[k] = Frozen(k)
    BY <1>1, <1>15 DEF CancelTimelock, CloseLock, NothingOwed, TimelockTypeOK
  <2>2. /\ lock'[k].total = Vested(k)
        /\ lock'[k].start = Earlier(lock[k].start, now)
        /\ lock'[k].cliff = Earlier(lock[k].cliff, now)
        /\ lock'[k].end = now
        /\ lock'[k].cancellable = FALSE
        /\ lock'[k].withdrawn = lock[k].withdrawn
    BY <1>1, <2>1, Components DEF Frozen, LockState
  <2>3. Owed(k) = Vested(k) - lock[k].withdrawn /\ Owed(k) > 0
    BY <1>3, <1>15
  <2>4. WellFormed(k)'
    <3>1. Earlier(lock[k].start, now) <= Earlier(lock[k].cliff, now)
      BY <1>1, <1>2, <1>4, Components, EarlierInt
    <3>2. Earlier(lock[k].cliff, now) <= now
      BY <1>1, <1>4, Components, EarlierInt
    <3>3. lock[k].withdrawn < Vested(k)
      BY <1>1, <1>3, <2>3, Components
    <3> QED
      BY <2>2, <3>1, <3>2, <3>3 DEF WellFormed
  <2>5. Covered(k)'
    BY <1>1, <1>3, <1>9, <1>10, <2>2, <2>3, Components DEF Covered
  <2>6. CutShort(k)'
    BY <1>3, <1>4, <1>5, <1>6, <1>10, <1>11, <2>2 DEF CutShort
  <2> QED
    BY <1>1, <1>5, <1>10, <1>12, <1>13, <2>1, <2>2, <2>4, <2>5, <2>6
       DEF Safe, SafeOpen
<1> QED
  BY <1>14, <1>15

LEMMA DonateSafe ==
    ASSUME Inv, TimelockTypeOK', NEW k \in Locks, NEW u \in Users, NEW amount \in Amounts,
           Donate(u, k, amount)
    PROVE  Safe(k)'
<1>1. /\ TimelockTypeOK /\ Safe(k) /\ SafeOpen(k) /\ k \in open /\ k \in open'
      /\ amount \in Nat
      /\ lock'[k] = lock[k] /\ now' = now
      /\ vault'[k] = vault[k] + amount
      /\ history'[k] = [history[k] EXCEPT !.donated = @ + amount]
  BY AmountsAssumption DEF Donate, Inv, Safe, TimelockTypeOK
<1>2. /\ history'[k].amount = history[k].amount
      /\ history'[k].start = history[k].start
      /\ history'[k].cliff = history[k].cliff
      /\ history'[k].end = history[k].end
      /\ history'[k].cancellable = history[k].cancellable
      /\ history'[k].donated = history[k].donated + amount
      /\ history'[k].paid = history[k].paid
      /\ history'[k].refunded = history[k].refunded
  BY <1>1, Components DEF History
<1>3. Signed(k)' = Signed(k)
  BY <1>1, <1>2 DEF Signed
<1>4. Signed(k) \in Nat
  BY <1>1, SignedFacts DEF Safe
<1>5. Balanced(k)'
  BY <1>1, <1>2, Components DEF Safe, Balanced
<1>6. (history[k].paid <= Signed(k) + history[k].donated)'
  BY <1>1, <1>2, <1>3, <1>4, Components DEF Safe
<1>7. WellFormed(k)' /\ Covered(k)' /\ (history[k].paid = lock[k].withdrawn)'
  BY <1>1, <1>2, Components DEF SafeOpen, WellFormed, Covered
<1>8. AsSigned(k)' \/ CutShort(k)'
  BY <1>1, <1>2, <1>3 DEF SafeOpen, AsSigned, CutShort
<1> QED
  BY <1>1, <1>2, <1>5, <1>6, <1>7, <1>8 DEF Safe, SafeOpen

-----------------------------------------------------------------------------
(* The inductive invariant.                                                *)

LEMMA InvInit == TimelockInit => Inv
<1> SUFFICES ASSUME TimelockInit PROVE Inv
  OBVIOUS
<1>1. TimelockTypeOK
  BY TypeInit
<1>2. ASSUME NEW k \in Locks
      PROVE  Safe(k)
  <2>1. /\ history[k] = NoHistory /\ vault[k] = 0 /\ k \notin open
    BY DEF TimelockInit
  <2>2. now \in Int
    BY <1>1, Components
  <2>3. Signed(k) \in Nat
    <3>1. /\ history[k].start <= history[k].cliff
          /\ history[k].cliff <= history[k].end
      BY <2>1 DEF NoHistory
    <3> QED
      BY <1>1, <3>1, SignedFacts
  <2> QED
    BY <2>1, <2>3 DEF Safe, Balanced, NoHistory
<1> QED
  BY <1>1, <1>2 DEF Inv

LEMMA InvNext == Inv /\ [TimelockNext]_timelockVars => Inv'
<1> SUFFICES ASSUME Inv, [TimelockNext]_timelockVars PROVE Inv'
  OBVIOUS
<1>1. TimelockTypeOK
  BY DEF Inv
<1>2. \A k \in open :
         lock[k].start <= lock[k].cliff /\ lock[k].cliff <= lock[k].end
  BY <1>1 DEF Inv, TimelockTypeOK, Safe, SafeOpen, WellFormed
<1>3. CASE UNCHANGED timelockVars
  BY <1>3 DEF timelockVars, Inv, TimelockTypeOK, Safe, SafeOpen, WellFormed, Covered,
              AsSigned, CutShort, Signed, Balanced
<1>4. CASE Tick
  <2>1. TimelockTypeOK'
    BY <1>1, <1>4 DEF Tick, TimelockTypeOK
  <2>2. now <= now'
    BY <1>1, <1>4, TimesAssumption DEF Tick, TimelockTypeOK
  <2>3. \A k \in Locks : Safe(k)'
    BY <1>1, <1>4, <2>1, <2>2, Untouched DEF Tick, Inv
  <2> QED
    BY <2>1, <2>3 DEF Inv
<1>5. ASSUME NEW k \in Locks, NEW amount \in Amounts,
             NEW s \in Times, NEW c \in Times, NEW e \in Times, NEW b \in BOOLEAN,
             CreateTimelock(k, amount, s, c, e, b)
      PROVE  Inv'
  <2>1. TimelockTypeOK'
    BY <1>1, <1>5, TypeCreate
  <2>2. Safe(k)'
    BY <1>5, <2>1, CreateSafe
  <2>3. ASSUME NEW j \in Locks \ {k} PROVE Safe(j)'
    <3>1. /\ lock'[j] = lock[j] /\ vault'[j] = vault[j] /\ history'[j] = history[j]
          /\ j \in open' <=> j \in open
          /\ now <= now'
      BY <1>1, <1>5, Components DEF CreateTimelock, TimelockTypeOK
    <3> QED
      BY <1>1, <2>1, <3>1, Untouched DEF Inv
  <2> QED
    BY <2>1, <2>2, <2>3 DEF Inv
<1>6. ASSUME NEW k \in Locks, WithdrawTimelock(k)
      PROVE  Inv'
  <2>1. TimelockTypeOK'
    BY <1>1, <1>2, <1>6, TypeWithdraw
  <2>2. Safe(k)'
    BY <1>6, <2>1, WithdrawSafe
  <2>3. ASSUME NEW j \in Locks \ {k} PROVE Safe(j)'
    <3>1. /\ lock'[j] = lock[j] /\ vault'[j] = vault[j] /\ history'[j] = history[j]
          /\ j \in open' <=> j \in open
          /\ now <= now'
      BY <1>1, <1>6, Components DEF WithdrawTimelock, CloseLock, Payout, Finished, Counted, TimelockTypeOK
    <3> QED
      BY <1>1, <2>1, <3>1, Untouched DEF Inv
  <2> QED
    BY <2>1, <2>2, <2>3 DEF Inv
<1>7. ASSUME NEW k \in Locks, CancelTimelock(k)
      PROVE  Inv'
  <2>1. TimelockTypeOK'
    BY <1>1, <1>2, <1>7, TypeCancel
  <2>2. Safe(k)'
    BY <1>7, <2>1, CancelSafe
  <2>3. ASSUME NEW j \in Locks \ {k} PROVE Safe(j)'
    <3>1. /\ lock'[j] = lock[j] /\ vault'[j] = vault[j] /\ history'[j] = history[j]
          /\ j \in open' <=> j \in open
          /\ now <= now'
      BY <1>1, <1>7, Components DEF CancelTimelock, CloseLock, NothingOwed, TimelockTypeOK
    <3> QED
      BY <1>1, <2>1, <3>1, Untouched DEF Inv
  <2> QED
    BY <2>1, <2>2, <2>3 DEF Inv
<1>8. ASSUME NEW k \in Locks, NEW u \in Users, NEW amount \in Amounts,
             Donate(u, k, amount)
      PROVE  Inv'
  <2>1. TimelockTypeOK'
    BY <1>1, <1>8, TypeDonate
  <2>2. Safe(k)'
    BY <1>8, <2>1, DonateSafe
  <2>3. ASSUME NEW j \in Locks \ {k} PROVE Safe(j)'
    <3>1. /\ lock'[j] = lock[j] /\ vault'[j] = vault[j] /\ history'[j] = history[j]
          /\ j \in open' <=> j \in open
          /\ now <= now'
      BY <1>1, <1>8, Components DEF Donate, TimelockTypeOK
    <3> QED
      BY <1>1, <2>1, <3>1, Untouched DEF Inv
  <2> QED
    BY <2>1, <2>2, <2>3 DEF Inv
<1> QED
  BY <1>3, <1>4, <1>5, <1>6, <1>7, <1>8 DEF TimelockNext

(* Every reachable state satisfies the inductive invariant. *)
THEOREM Invariance == TimelockSpec => []Inv
BY InvInit, InvNext, PTL DEF TimelockSpec

-----------------------------------------------------------------------------
(* The properties.                                                         *)

(* Balances and counters never leave their range, whatever the             *)
(* instructions and their order.                                           *)
THEOREM TypeCorrect == TimelockSpec => []TimelockTypeOK
<1>1. Inv => TimelockTypeOK
  BY DEF Inv
<1> QED
  BY <1>1, Invariance, PTL

(* The transfers of withdraw_timelock and cancel_timelock never fail for   *)
(* want of tokens: a vault covers what its lock promises.                  *)
THEOREM Solvency == TimelockSpec => []Solvent
<1>1. Inv => Solvent
  BY DEF Inv, TimelockTypeOK, Safe, SafeOpen, Covered, Solvent
<1> QED
  BY <1>1, Invariance, PTL

(* No instruction loses or creates tokens, and a closed vault is empty.    *)
THEOREM Accounting == TimelockSpec => []Accounted
<1>1. Inv => Accounted
  BY DEF Inv, TimelockTypeOK, Safe, SafeOpen, Balanced, Accounted
<1> QED
  BY <1>1, Invariance, PTL

(* An open lock whose end has come can always be emptied by one withdrawal,*)
(* which does not abort.                                                   *)
THEOREM NoStrandedLock == TimelockSpec => []NeverStranded
<1>1. Inv => NeverStranded
  <2> SUFFICES ASSUME Inv, NEW k \in open
               PROVE  /\ lock[k].withdrawn < lock[k].total
                      /\ now >= lock[k].end =>
                            /\ Owed(k) > 0 /\ ~VestingAborts(k)
                            /\ Payout(k) = vault[k]
    BY DEF NeverStranded
  <2>1. TimelockTypeOK /\ k \in Locks /\ WellFormed(k)
    BY DEF Inv, TimelockTypeOK, Safe, SafeOpen
  <2>2. now >= lock[k].end => Vested(k) = lock[k].total
    BY <2>1, VestedFacts DEF WellFormed
  <2>3. now >= lock[k].end => Owed(k) > 0
    BY <2>1, <2>2, Components DEF WellFormed, Owed, Monus
  <2>4. now >= lock[k].end => ~VestingAborts(k)
    BY <2>1, Components DEF VestingAborts, VestedAmountAborts
  <2>5. now >= lock[k].end => Payout(k) = vault[k]
    BY <2>1, <2>2, Components DEF Payout, Finished
  <2> QED
    BY <2>1, <2>3, <2>4, <2>5 DEF WellFormed
<1> QED
  BY <1>1, Invariance, PTL

(* The recipient never has more than the schedule the sender signed grants *)
(* by now, donations aside.                                                *)
THEOREM OnSchedule == TimelockSpec => []NeverAheadOfSchedule
<1>1. Inv => NeverAheadOfSchedule
  BY DEF Inv, Safe, Signed, NeverAheadOfSchedule
<1> QED
  BY <1>1, Invariance, PTL

(* A lock created as non-cancellable returns nothing to its sender.        *)
THEOREM NoWayBack == TimelockSpec => []Irrevocable
<1>1. Inv => Irrevocable
  BY DEF Inv, Safe, Irrevocable
<1> QED
  BY <1>1, Invariance, PTL

-----------------------------------------------------------------------------
(* The action properties.                                                  *)

(* A step by one action leaves the other locks alone. *)
LEMMA OthersKept ==
    ASSUME TimelockTypeOK, NEW k \in Locks, NEW j \in Locks, j # k,
           \/ \E amount \in Amounts, s, c, e \in Times, b \in BOOLEAN :
                 CreateTimelock(k, amount, s, c, e, b)
           \/ WithdrawTimelock(k)
           \/ CancelTimelock(k)
           \/ \E u \in Users, amount \in Amounts : Donate(u, k, amount)
    PROVE  /\ lock'[j] = lock[j] /\ history'[j] = history[j] /\ now' = now
           /\ j \in open' <=> j \in open
BY DEF CreateTimelock, WithdrawTimelock, CancelTimelock, CloseLock, Donate, TimelockTypeOK

(* Once a lock has been cancelled its schedule is over: no second          *)
(* cancellation, no partial withdrawal, nothing more for the sender.       *)
THEOREM FrozenForever == TimelockSpec => FrozenIsFinal
<1>1. ASSUME Inv, TimelockNext, NEW k \in open,
             history[k].cancellable /\ ~lock[k].cancellable
      PROVE  /\ history'[k].refunded = history[k].refunded
             /\ k \in open' => lock'[k] = lock[k]
  <2>1. TimelockTypeOK /\ k \in Locks /\ CutShort(k) /\ WellFormed(k)
    BY <1>1 DEF Inv, TimelockTypeOK, Safe, SafeOpen, AsSigned
  <2>2. Vested(k) = lock[k].total
    BY <2>1, VestedFacts, Components DEF WellFormed, CutShort
  <2>3. CASE Tick
    BY <2>3 DEF Tick
  <2>4. ASSUME NEW j \in Locks, j # k,
               \/ \E amount \in Amounts, s, c, e \in Times, b \in BOOLEAN :
                     CreateTimelock(j, amount, s, c, e, b)
               \/ WithdrawTimelock(j)
               \/ CancelTimelock(j)
               \/ \E u \in Users, amount \in Amounts : Donate(u, j, amount)
        PROVE  history'[k] = history[k] /\ lock'[k] = lock[k]
    BY <2>1, <2>4, OthersKept
  <2>5. ASSUME NEW amount \in Amounts, NEW s \in Times, NEW c \in Times,
               NEW e \in Times, NEW b \in BOOLEAN,
               CreateTimelock(k, amount, s, c, e, b)
        PROVE  FALSE
    BY <2>5 DEF CreateTimelock, Vacant
  <2>6. CASE WithdrawTimelock(k)
    <3>1. k \notin open'
      BY <2>1, <2>2, <2>6, Components DEF WithdrawTimelock, CloseLock, Payout, Finished, Counted
    <3>2. history'[k].refunded = history[k].refunded
      BY <2>1, <2>6, Components DEF WithdrawTimelock, TimelockTypeOK, History
    <3> QED
      BY <3>1, <3>2
  <2>7. CASE CancelTimelock(k)
    BY <1>1, <2>7 DEF CancelTimelock, MayCancel
  <2>8. ASSUME NEW u \in Users, NEW amount \in Amounts, Donate(u, k, amount)
        PROVE  history'[k].refunded = history[k].refunded /\ lock'[k] = lock[k]
    BY <2>1, <2>8, Components DEF Donate, TimelockTypeOK, History
  <2> QED
    BY <1>1, <2>1, <2>3, <2>4, <2>5, <2>6, <2>7, <2>8 DEF TimelockNext
<1>2. Inv /\ [TimelockNext]_timelockVars
        => [\A k \in open :
               (history[k].cancellable /\ ~lock[k].cancellable) =>
                   /\ history'[k].refunded = history[k].refunded
                   /\ k \in open' => lock'[k] = lock[k]]_timelockVars
  BY <1>1
<1> QED
  BY <1>2, Invariance, PTL DEF TimelockSpec, FrozenIsFinal

(* Time adds to what a lock has vested. *)
LEMMA TickEarns ==
    ASSUME Inv, Tick, NEW k \in open
    PROVE  Vested(k)' >= Vested(k)
<1> DEFINE total == lock[k].total
           start == lock[k].start
           cliff == lock[k].cliff
           end   == lock[k].end
<1>1. TimelockTypeOK /\ k \in Locks /\ WellFormed(k)
  BY DEF Inv, TimelockTypeOK, Safe, SafeOpen
<1>2. now \in Int /\ now' \in Int /\ now <= now'
  BY <1>1, TimesAssumption DEF Tick, TimelockTypeOK
<1>3. /\ Vested(k) = VestedAmount(total, start, cliff, end, now)
      /\ Vested(k)' = VestedAmount(total, start, cliff, end, now')
  BY DEF Vested, Tick
<1>4. /\ total \in Nat /\ start \in Int /\ cliff \in Int /\ end \in Int
      /\ start <= cliff /\ cliff <= end
  BY <1>1, Components DEF WellFormed
<1> HIDE DEF total, start, cliff, end
<1>5. /\ VestedAmount(total, start, cliff, end, now)
            <= VestedAmount(total, start, cliff, end, now')
      /\ VestedAmount(total, start, cliff, end, now) \in Nat
      /\ VestedAmount(total, start, cliff, end, now') \in Nat
  BY <1>2, <1>4, VestedMonotone, VestedBounds
<1> QED
  BY <1>3, <1>5

(* What a recipient has earned is never taken back, by time, withdrawal,   *)
(* donation or cancellation.                                               *)
THEOREM EarnedForever == TimelockSpec => EarnedNeverShrinks
<1>1. ASSUME Inv, TimelockNext, NEW k \in open
      PROVE  Earned(k)' >= Earned(k)
  <2>1. /\ TimelockTypeOK /\ k \in Locks /\ Safe(k) /\ SafeOpen(k)
        /\ WellFormed(k) /\ Covered(k)
        /\ Earned(k) = Vested(k)
    BY <1>1 DEF Inv, TimelockTypeOK, Safe, SafeOpen, Earned
  <2>2. /\ Vested(k) \in Nat /\ Vested(k) <= lock[k].total
        /\ Owed(k) \in Nat
        /\ Owed(k) = 0 => Vested(k) <= lock[k].withdrawn
    BY <2>1, VestedFacts DEF WellFormed
  <2>3. CASE Tick
    <3>1. Earned(k)' = Vested(k)'
      BY <1>1, <2>3 DEF Tick, Earned
    <3> QED
      BY <1>1, <2>1, <2>3, <3>1, TickEarns
  <2>4. ASSUME lock'[k] = lock[k], now' = now, k \in open'
        PROVE  Earned(k)' = Earned(k)
    BY <2>1, <2>4 DEF Earned, Vested
  <2>5. ASSUME NEW j \in Locks, j # k,
               \/ \E amount \in Amounts, s, c, e \in Times, b \in BOOLEAN :
                     CreateTimelock(j, amount, s, c, e, b)
               \/ WithdrawTimelock(j)
               \/ CancelTimelock(j)
               \/ \E u \in Users, amount \in Amounts : Donate(u, j, amount)
        PROVE  Earned(k)' >= Earned(k)
    <3>1. lock'[k] = lock[k] /\ now' = now /\ k \in open'
      BY <1>1, <2>1, <2>5, OthersKept
    <3> QED
      BY <2>1, <2>2, <2>4, <3>1
  <2>6. ASSUME NEW amount \in Amounts, NEW s \in Times, NEW c \in Times,
               NEW e \in Times, NEW b \in BOOLEAN,
               CreateTimelock(k, amount, s, c, e, b)
        PROVE  FALSE
    BY <2>6 DEF CreateTimelock, Vacant
  <2>7. CASE WithdrawTimelock(k)
    <3>1. CASE Vested(k) >= lock[k].total
      <4>1. k \notin open' /\ history'[k] = [history[k] EXCEPT !.paid = @ + vault[k]]
        BY <2>1, <2>7, <3>1 DEF WithdrawTimelock, CloseLock, Payout, Finished, Counted, TimelockTypeOK
      <4>2. history'[k].paid = history[k].paid + vault[k]
        BY <2>1, <4>1, Components DEF History
      <4>3. Earned(k)' = history[k].paid + vault[k]
        BY <4>1, <4>2 DEF Earned
      <4> QED
        BY <2>1, <2>2, <4>3, Components DEF SafeOpen, Covered
    <3>2. CASE ~(Vested(k) >= lock[k].total)
      <4>1. /\ k \in open' /\ now' = now
            /\ lock'[k] = [lock[k] EXCEPT !.withdrawn = @ + Owed(k)]
        BY <1>1, <2>1, <2>7, <3>2 DEF WithdrawTimelock, CloseLock, Payout, Finished, Counted, TimelockTypeOK
      <4>2. /\ lock'[k].total = lock[k].total /\ lock'[k].start = lock[k].start
            /\ lock'[k].cliff = lock[k].cliff /\ lock'[k].end = lock[k].end
        BY <2>1, <4>1, Components DEF LockState
      <4>3. Earned(k)' = Vested(k)
        BY <4>1, <4>2 DEF Earned, Vested
      <4> QED
        BY <2>1, <2>2, <4>3
    <3> QED
      BY <3>1, <3>2
  <2>8. CASE CancelTimelock(k)
    <3>1. CASE Owed(k) = 0
      <4>1. k \notin open' /\ history'[k].paid = history[k].paid
        BY <2>1, <2>8, <3>1, Components DEF CancelTimelock, CloseLock, NothingOwed, TimelockTypeOK, History
      <4>2. Earned(k)' = lock[k].withdrawn
        BY <2>1, <4>1 DEF Earned, SafeOpen
      <4> QED
        BY <2>1, <2>2, <3>1, <4>2, Components
    <3>2. CASE Owed(k) # 0
      <4>1. k \in open' /\ now' = now /\ lock'[k] = Frozen(k)
        BY <1>1, <2>1, <2>8, <3>2 DEF CancelTimelock, CloseLock, NothingOwed, TimelockTypeOK
      <4>2. /\ lock'[k].total = Vested(k) /\ lock'[k].end = now
            /\ lock'[k].cliff = Earlier(lock[k].cliff, now)
        BY <2>1, <4>1, Components DEF Frozen, LockState
      <4>3. lock'[k].cliff <= now /\ lock'[k].cliff \in Int /\ now \in Int
        <5>1. lock[k].cliff \in Int /\ now \in Int
          BY <2>1, Components
        <5> QED
          BY <4>2, <5>1 DEF Earlier
      <4>4. Earned(k)' = Vested(k)
        BY <4>1, <4>2, <4>3 DEF Earned, Vested, VestedAmount
      <4> QED
        BY <2>1, <2>2, <4>4
    <3> QED
      BY <3>1, <3>2
  <2>9. ASSUME NEW u \in Users, NEW amount \in Amounts, Donate(u, k, amount)
        PROVE  Earned(k)' >= Earned(k)
    <3>1. lock'[k] = lock[k] /\ now' = now /\ k \in open'
      BY <1>1, <2>9 DEF Donate
    <3> QED
      BY <2>1, <2>2, <2>4, <3>1
  <2> QED
    BY <2>3, <2>5, <2>6, <2>7, <2>8, <2>9, <1>1 DEF TimelockNext
<1>2. Inv /\ [TimelockNext]_timelockVars => [\A k \in open : Earned(k)' >= Earned(k)]_timelockVars
  BY <1>1
<1> QED
  BY <1>2, Invariance, PTL DEF TimelockSpec, EarnedNeverShrinks

-----------------------------------------------------------------------------
(* Timelock implements Grant.                                              *)
(*                                                                         *)
(* The mapping reads an account also when its lock is closed, and takes    *)
(* what has vested for what is earned; so it needs that a closed account   *)
(* is blank, and that what was withdrawn has vested.                       *)

Readable(k) ==
    IF k \in open THEN lock[k].withdrawn <= Vested(k) ELSE lock[k] = Blank

GrantInv == Inv /\ \A k \in Locks : Readable(k)

LEMMA BlankEarnsNothing ==
    ASSUME TimelockTypeOK, NEW k \in Locks, lock[k] = Blank
    PROVE  Vested(k) = 0
BY Components DEF Vested, VestedAmount, Blank

LEMMA BlankEarnsNothingLater ==
    ASSUME TimelockTypeOK', NEW k \in Locks, lock'[k] = Blank
    PROVE  Vested(k)' = 0
<1>1. now' \in Int
  BY TimesAssumption DEF TimelockTypeOK
<1>2. Vested(k)' = VestedAmount(0, 0, 0, 0, now')
  BY DEF Vested, Blank
<1> QED
  BY <1>1, <1>2 DEF VestedAmount

(* What is true of an open lock whenever an instruction uses it. *)
LEMMA OpenFacts ==
    ASSUME GrantInv, NEW k \in open
    PROVE  /\ TimelockTypeOK /\ k \in Locks /\ SafeOpen(k) /\ WellFormed(k)
           /\ Vested(k) \in Nat /\ Vested(k) <= lock[k].total
           /\ lock[k].withdrawn <= Vested(k)
           /\ Owed(k) = Vested(k) - lock[k].withdrawn
           /\ lock[k].total \in Nat /\ lock[k].withdrawn \in Nat /\ vault[k] \in Nat
           /\ Owed(k) <= vault[k]
<1>1. TimelockTypeOK /\ k \in Locks /\ SafeOpen(k) /\ WellFormed(k) /\ lock[k].withdrawn <= Vested(k)
  BY DEF GrantInv, Inv, TimelockTypeOK, Safe, SafeOpen, Readable
<1>2. /\ Vested(k) \in Nat /\ Vested(k) <= lock[k].total /\ Owed(k) \in Nat
      /\ Owed(k) > 0 => Owed(k) = Vested(k) - lock[k].withdrawn
      /\ Owed(k) = 0 => Vested(k) <= lock[k].withdrawn
  BY <1>1, VestedFacts DEF WellFormed
<1>3. lock[k].total \in Nat /\ lock[k].withdrawn \in Nat /\ vault[k] \in Nat
  BY <1>1, Components
<1>4. Owed(k) = Vested(k) - lock[k].withdrawn
  BY <1>1, <1>2, <1>3
<1>5. vault[k] >= lock[k].total - lock[k].withdrawn
  BY <1>1 DEF SafeOpen, Covered
<1> QED
  BY <1>1, <1>2, <1>3, <1>4, <1>5

(* What each instruction makes of its lock. *)
LEMMA Withdrawn ==
    ASSUME GrantInv, NEW k \in Locks, WithdrawTimelock(k)
    PROVE  /\ k \in open /\ Owed(k) > 0 /\ now' = now
           /\ \/ /\ Vested(k) = lock[k].total
                 /\ open' = open \ {k} /\ lock'[k] = Blank /\ vault'[k] = 0
                 /\ history'[k].paid = history[k].paid + vault[k]
                 /\ history'[k].refunded = history[k].refunded
              \/ /\ Vested(k) < lock[k].total
                 /\ open' = open
                 /\ lock'[k] = [lock[k] EXCEPT !.withdrawn = Vested(k)]
                 /\ vault'[k] = vault[k] - Owed(k)
                 /\ history'[k].paid = history[k].paid + Owed(k)
                 /\ history'[k].refunded = history[k].refunded
<1>1. k \in open /\ Owed(k) > 0 /\ now' = now
  BY DEF WithdrawTimelock
<1>2. /\ TimelockTypeOK /\ Vested(k) \in Nat /\ Vested(k) <= lock[k].total
      /\ Owed(k) = Vested(k) - lock[k].withdrawn
      /\ lock[k].total \in Nat /\ lock[k].withdrawn \in Nat /\ vault[k] \in Nat
  BY <1>1, OpenFacts
<1>3. history[k] \in History
  BY <1>2, Components
<1>4. CASE Finished(k)
  <2>1. /\ open' = open \ {k} /\ lock'[k] = Blank /\ vault'[k] = vault[k] - vault[k]
        /\ history'[k] = [history[k] EXCEPT !.paid = @ + vault[k]]
    BY <1>2, <1>4 DEF WithdrawTimelock, CloseLock, Payout, TimelockTypeOK
  <2>2. Vested(k) = lock[k].total
    BY <1>2, <1>4 DEF Finished
  <2>3. vault'[k] = 0
    BY <1>2, <2>1
  <2>4. /\ history'[k].paid = history[k].paid + vault[k]
        /\ history'[k].refunded = history[k].refunded
    BY <1>3, <2>1 DEF History
  <2> QED
    BY <1>1, <2>1, <2>2, <2>3, <2>4
<1>5. CASE ~Finished(k)
  <2>1. /\ open' = open /\ lock'[k] = [lock[k] EXCEPT !.withdrawn = @ + Owed(k)]
        /\ vault'[k] = vault[k] - Owed(k)
        /\ history'[k] = [history[k] EXCEPT !.paid = @ + Owed(k)]
    BY <1>2, <1>5 DEF WithdrawTimelock, CloseLock, Payout, Counted, TimelockTypeOK
  <2>2. Vested(k) < lock[k].total
    BY <1>2, <1>5 DEF Finished
  <2>3. lock[k].withdrawn + Owed(k) = Vested(k)
    BY <1>2
  <2>4. lock'[k] = [lock[k] EXCEPT !.withdrawn = Vested(k)]
    BY <2>1, <2>3
  <2>5. /\ history'[k].paid = history[k].paid + Owed(k)
        /\ history'[k].refunded = history[k].refunded
    BY <1>3, <2>1 DEF History
  <2> QED
    BY <1>1, <2>1, <2>2, <2>4, <2>5
<1> QED
  BY <1>4, <1>5

LEMMA Cancelled ==
    ASSUME GrantInv, NEW k \in Locks, CancelTimelock(k)
    PROVE  /\ k \in open /\ lock[k].cancellable /\ now' = now /\ vault'[k] = Owed(k)
           /\ history'[k].paid = history[k].paid
           /\ history'[k].refunded = history[k].refunded + (vault[k] - Owed(k))
           /\ \/ Owed(k) = 0 /\ open' = open \ {k} /\ lock'[k] = Blank
              \/ Owed(k) > 0 /\ open' = open /\ lock'[k] = Frozen(k)
<1>1. k \in open /\ lock[k].cancellable /\ now' = now
  BY DEF CancelTimelock, MayCancel
<1>2. /\ TimelockTypeOK /\ Vested(k) \in Nat /\ lock[k].withdrawn <= Vested(k)
      /\ Owed(k) = Vested(k) - lock[k].withdrawn
      /\ lock[k].withdrawn \in Nat /\ vault[k] \in Nat /\ Owed(k) <= vault[k]
  BY <1>1, OpenFacts
<1>3. Owed(k) \in Nat
  BY <1>2
<1>4. Refund(k) = vault[k] - Owed(k)
  BY <1>2, <1>3 DEF Refund, Monus
<1>5. history[k] \in History
  BY <1>2, Components
<1>6. vault'[k] = vault[k] - Refund(k) /\ history'[k] = [history[k] EXCEPT !.refunded = @ + Refund(k)]
  BY <1>2 DEF CancelTimelock, TimelockTypeOK
<1>7. vault'[k] = Owed(k)
  BY <1>2, <1>3, <1>4, <1>6
<1>8. /\ history'[k].paid = history[k].paid
      /\ history'[k].refunded = history[k].refunded + (vault[k] - Owed(k))
  BY <1>4, <1>5, <1>6 DEF History
<1>9. \/ Owed(k) = 0 /\ open' = open \ {k} /\ lock'[k] = Blank
      \/ Owed(k) > 0 /\ open' = open /\ lock'[k] = Frozen(k)
  BY <1>2, <1>3 DEF CancelTimelock, CloseLock, NothingOwed, TimelockTypeOK
<1> QED
  BY <1>1, <1>7, <1>8, <1>9

(* The schedule of a lock that has just been frozen has ended. *)
LEMMA FrozenEarns ==
    ASSUME TimelockTypeOK, NEW k \in Locks, lock'[k] = Frozen(k), now' = now
    PROVE  /\ Vested(k)' = Vested(k) /\ lock'[k].total = Vested(k)
           /\ lock'[k].withdrawn = lock[k].withdrawn /\ lock'[k].cancellable = FALSE
<1>1. /\ lock'[k].total = Vested(k) /\ lock'[k].end = now
      /\ lock'[k].cliff = Earlier(lock[k].cliff, now)
      /\ lock'[k].withdrawn = lock[k].withdrawn /\ lock'[k].cancellable = FALSE
  BY Components DEF Frozen, LockState
<1>2. lock[k].cliff \in Int /\ now \in Int
  BY Components
<1>3. ~(now < lock'[k].cliff)
  BY <1>1, <1>2 DEF Earlier
<1> QED
  BY <1>1, <1>2, <1>3 DEF Vested, VestedAmount

LEMMA WithdrawingEarns ==
    ASSUME TimelockTypeOK, NEW k \in Locks, lock'[k] = [lock[k] EXCEPT !.withdrawn = Vested(k)], now' = now
    PROVE  /\ Vested(k)' = Vested(k) /\ lock'[k].total = lock[k].total
           /\ lock'[k].withdrawn = Vested(k) /\ lock'[k].cancellable = lock[k].cancellable
<1>1. /\ lock'[k].total = lock[k].total /\ lock'[k].start = lock[k].start
      /\ lock'[k].cliff = lock[k].cliff /\ lock'[k].end = lock[k].end
      /\ lock'[k].withdrawn = Vested(k) /\ lock'[k].cancellable = lock[k].cancellable
  BY Components DEF LockState
<1> QED
  BY <1>1 DEF Vested

(* An instruction for one lock leaves the others alone, vaults included. *)
LEMMA OthersWhole ==
    ASSUME TimelockTypeOK, NEW k \in Locks, NEW j \in Locks, j # k,
           \/ \E amount \in Amounts, s, c, e \in Times, b \in BOOLEAN :
                 CreateTimelock(k, amount, s, c, e, b)
           \/ WithdrawTimelock(k)
           \/ CancelTimelock(k)
           \/ \E u \in Users, amount \in Amounts : Donate(u, k, amount)
    PROVE  /\ lock'[j] = lock[j] /\ history'[j] = history[j] /\ now' = now
           /\ j \in open' <=> j \in open
           /\ vault'[j] = vault[j] /\ Vested(j)' = Vested(j)
<1>1. /\ lock'[j] = lock[j] /\ history'[j] = history[j] /\ now' = now
      /\ j \in open' <=> j \in open
  BY OthersKept
<1>2. vault'[j] = vault[j]
  BY DEF CreateTimelock, WithdrawTimelock, CancelTimelock, Donate, TimelockTypeOK
<1> QED
  BY <1>1, <1>2 DEF Vested

(* Time passing over a lock, and the lock that has just been created. *)
LEMMA VestedLater ==
    ASSUME Inv, NEW k \in open, Tick
    PROVE  Vested(k)' \in Nat /\ Vested(k)' <= lock[k].total
<1> DEFINE total == lock[k].total
           start == lock[k].start
           cliff == lock[k].cliff
           end   == lock[k].end
<1>1. TimelockTypeOK /\ k \in Locks /\ WellFormed(k)
  BY DEF Inv, TimelockTypeOK, Safe, SafeOpen
<1>2. now' \in Int
  BY TimesAssumption DEF Tick
<1>3. Vested(k)' = VestedAmount(total, start, cliff, end, now')
  BY DEF Vested, Tick
<1>4. /\ total \in Nat /\ start \in Int /\ cliff \in Int /\ end \in Int
      /\ start <= cliff /\ cliff <= end
  BY <1>1, Components DEF WellFormed
<1> HIDE DEF total, start, cliff, end
<1>5. Vested(k)' \in Nat /\ Vested(k)' <= total
  BY <1>2, <1>3, <1>4, VestedBounds
<1> QED
  BY <1>5 DEF total

LEMMA CreatedEarns ==
    ASSUME TimelockTypeOK, NEW k \in Locks, NEW amount \in Amounts,
           NEW s \in Times, NEW c \in Times, NEW e \in Times, NEW b \in BOOLEAN,
           CreateTimelock(k, amount, s, c, e, b)
    PROVE  Vested(k)' \in Nat /\ Vested(k)' < amount
<1>1. /\ amount \in Nat /\ s \in Int /\ c \in Int /\ e \in Int /\ now \in Int
      /\ amount > 0 /\ s <= c /\ c <= e /\ now < e /\ now' = now
  BY AmountsAssumption, TimesAssumption DEF CreateTimelock, TimelockTypeOK
<1>2. /\ lock'[k].total = amount /\ lock'[k].start = s
      /\ lock'[k].cliff = c /\ lock'[k].end = e
  BY DEF CreateTimelock, TimelockTypeOK
<1>3. Vested(k)' = VestedAmount(amount, s, c, e, now)
  BY <1>1, <1>2 DEF Vested
<1> QED
  BY <1>1, <1>3, VestedBounds

LEMMA GrantInvNext == GrantInv /\ [TimelockNext]_timelockVars => GrantInv'
<1> SUFFICES ASSUME GrantInv, [TimelockNext]_timelockVars PROVE GrantInv'
  OBVIOUS
<1>1. Inv /\ TimelockTypeOK /\ Inv' /\ TimelockTypeOK'
  BY InvNext DEF GrantInv, Inv
<1> SUFFICES ASSUME NEW k \in Locks PROVE Readable(k)'
  BY <1>1 DEF GrantInv
<1>2. Readable(k) /\ (k \in open => lock[k].withdrawn <= Vested(k) /\ Vested(k) \in Nat
                                   /\ lock[k].withdrawn \in Nat)
  BY OpenFacts DEF GrantInv
<1>3. CASE UNCHANGED timelockVars
  BY <1>2, <1>3 DEF timelockVars, Readable, Vested
<1>4. CASE Tick
  <2>1. open' = open /\ lock' = lock
    BY <1>4 DEF Tick
  <2>2. ASSUME k \in open PROVE lock[k].withdrawn <= Vested(k)'
    <3>1. Vested(k)' >= Vested(k)
      BY <1>1, <1>4, <2>2, TickEarns
    <3>2. PICK v : v = Vested(k)'
      OBVIOUS
    <3>3. v \in Nat
      BY <1>1, <1>4, <2>1, <2>2, <3>2, VestedLater
    <3> QED
      BY <1>2, <2>2, <3>1, <3>2, <3>3
  <2> QED
    BY <1>2, <2>1, <2>2 DEF Readable
<1>5. ASSUME NEW j \in Locks,
             \/ \E amount \in Amounts, s, c, e \in Times, b \in BOOLEAN :
                   CreateTimelock(j, amount, s, c, e, b)
             \/ WithdrawTimelock(j)
             \/ CancelTimelock(j)
             \/ \E u \in Users, amount \in Amounts : Donate(u, j, amount)
      PROVE  Readable(k)'
  <2>1. CASE j # k
    BY <1>1, <1>2, <1>5, <2>1, OthersWhole DEF Readable
  <2>2. ASSUME NEW amount \in Amounts, NEW s \in Times, NEW c \in Times, NEW e \in Times,
               NEW b \in BOOLEAN, CreateTimelock(k, amount, s, c, e, b)
        PROVE  Readable(k)'
    <3>1. k \in open' /\ lock'[k].withdrawn = 0
      BY <1>1, <2>2 DEF CreateTimelock, TimelockTypeOK
    <3>2. Vested(k)' >= 0
      BY <1>1, <2>2, CreatedEarns
    <3> QED
      BY <3>1, <3>2 DEF Readable
  <2>3. CASE WithdrawTimelock(k)
    <3>1. CASE k \notin open'
      BY <2>3, <3>1, Withdrawn DEF Readable
    <3>2. CASE k \in open'
      <4>1. lock'[k] = [lock[k] EXCEPT !.withdrawn = Vested(k)] /\ now' = now
        BY <2>3, <3>2, Withdrawn
      <4> QED
        BY <1>1, <1>2, <2>3, <3>2, <4>1, Withdrawn, WithdrawingEarns DEF Readable
    <3> QED
      BY <3>1, <3>2
  <2>4. CASE CancelTimelock(k)
    <3>1. CASE k \notin open'
      BY <2>4, <3>1, Cancelled DEF Readable
    <3>2. CASE k \in open'
      <4>1. lock'[k] = Frozen(k) /\ now' = now
        BY <2>4, <3>2, Cancelled
      <4> QED
        BY <1>1, <1>2, <2>4, <3>2, <4>1, Cancelled, FrozenEarns DEF Readable
    <3> QED
      BY <3>1, <3>2
  <2>5. ASSUME NEW u \in Users, NEW amount \in Amounts, Donate(u, k, amount)
        PROVE  Readable(k)'
    BY <1>2, <2>5 DEF Donate, Readable, Vested
  <2> QED
    BY <1>5, <2>1, <2>2, <2>3, <2>4, <2>5
<1> QED
  BY <1>3, <1>4, <1>5 DEF TimelockNext

LEMMA GrantInvInit == TimelockInit => GrantInv
BY InvInit DEF TimelockInit, GrantInv, Readable

(* Closed accounts are blank, and nothing is counted as withdrawn before   *)
(* it has vested.                                                          *)
THEOREM GrantInvariance == TimelockSpec => []GrantInv
<1>1. GrantInv /\ [TimelockNext]_timelockVars => GrantInv'
  BY GrantInvNext
<1> QED
  BY GrantInvInit, <1>1, PTL DEF TimelockSpec

LEMMA GrantStart == TimelockInit => G!Init
<1> SUFFICES ASSUME TimelockInit PROVE G!Init
  OBVIOUS
<1>1. TimelockTypeOK /\ \A k \in Locks : Vested(k) = 0
  BY TypeInit, BlankEarnsNothing DEF TimelockInit
<1> QED
  BY <1>1 DEF TimelockInit, G!Init, Blank, NoHistory

(* What an instruction for k leaves alone, in the words of a grant. *)
LEMMA OtherGrants ==
    ASSUME TimelockTypeOK, NEW k \in Locks,
           \/ \E amount \in Amounts, s, c, e \in Times, b \in BOOLEAN :
                 CreateTimelock(k, amount, s, c, e, b)
           \/ WithdrawTimelock(k)
           \/ CancelTimelock(k)
           \/ \E u \in Users, amount \in Amounts : Donate(u, k, amount)
    PROVE  G!OthersUnchanged(k)
<1>1. ASSUME NEW j \in Locks \ {k}
      PROVE  /\ lock'[j] = lock[j] /\ history'[j] = history[j]
             /\ j \in open' <=> j \in open
             /\ vault'[j] = vault[j] /\ Vested(j)' = Vested(j)
  BY OthersWhole
<1> QED
  BY <1>1 DEF G!OthersUnchanged

LEMMA CreateAwards ==
    ASSUME GrantInv, NEW k \in Locks, NEW amount \in Amounts,
           NEW s \in Times, NEW c \in Times, NEW e \in Times, NEW b \in BOOLEAN,
           CreateTimelock(k, amount, s, c, e, b)
    PROVE  G!Award(k)
<1>1. TimelockTypeOK /\ Safe(k)
  BY DEF GrantInv, Inv
<1>2. k \notin open /\ open' = open \cup {k} /\ amount \in Nat /\ amount > 0
  BY AmountsAssumption DEF CreateTimelock, Vacant
<1>3. vault[k] = 0
  BY <1>1, <1>2 DEF Safe
<1>4. /\ lock'[k].cancellable = b /\ lock'[k].total = amount /\ lock'[k].withdrawn = 0
      /\ history'[k].paid = 0 /\ history'[k].refunded = 0
  BY <1>1 DEF CreateTimelock, TimelockTypeOK
<1>5. vault'[k] = amount
  BY <1>1, <1>2, <1>3 DEF CreateTimelock, TimelockTypeOK
<1>6. Vested(k)' \in Nat /\ Vested(k)' < amount
  BY <1>1, CreatedEarns
<1>7. G!OthersUnchanged(k)
  BY <1>1, OtherGrants
<1>8. 0 <= Vested(k)'
  BY <1>6
<1> QED
  BY <1>2, <1>4, <1>5, <1>6, <1>7, <1>8 DEF G!Award

LEMMA TickAccrues ==
    ASSUME GrantInv, Tick
    PROVE  G!Accrue
<1>1. Inv /\ TimelockTypeOK /\ open \subseteq Locks
  BY DEF GrantInv, Inv, TimelockTypeOK
<1>2. UNCHANGED <<open, lock, vault, history>>
  BY DEF Tick
<1>3. ASSUME NEW k \in open PROVE Vested(k) <= Vested(k)' /\ Vested(k)' <= lock[k].total
  <2>1. Vested(k)' >= Vested(k) /\ Vested(k)' \in Nat /\ Vested(k)' <= lock[k].total
    BY <1>1, <1>3, TickEarns, VestedLater
  <2>2. Vested(k) \in Nat
    BY <1>3, OpenFacts
  <2> QED
    BY <2>1, <2>2
<1>4. ASSUME NEW k \in Locks, k \notin open PROVE Vested(k)' = Vested(k)
  <2>1. lock[k] = Blank /\ lock'[k] = Blank
    BY <1>2, <1>4 DEF GrantInv, Readable
  <2>2. Vested(k) = 0
    BY <1>1, <2>1, BlankEarnsNothing
  <2>3. TimelockTypeOK'
    BY <1>1, InvNext DEF Inv, TimelockNext
  <2>4. Vested(k)' = 0
    BY <2>1, <2>3, BlankEarnsNothingLater
  <2> QED
    BY <2>2, <2>4
<1>5. ASSUME NEW k \in Locks
      PROVE  IF k \in open
             THEN Vested(k) <= Vested(k)' /\ Vested(k)' <= lock[k].total
             ELSE Vested(k)' = Vested(k)
  BY <1>3, <1>4
<1> QED
  BY <1>2, <1>5 DEF G!Accrue

LEMMA DonateTopsUp ==
    ASSUME GrantInv, NEW k \in Locks, NEW u \in Users, NEW amount \in Amounts,
           Donate(u, k, amount)
    PROVE  G!TopUp(k)
<1>1. TimelockTypeOK /\ history[k] \in History /\ vault[k] \in Nat
  BY Components DEF GrantInv, Inv
<1>2. k \in open /\ open' = open /\ lock' = lock /\ now' = now /\ amount \in Nat /\ amount > 0
  BY AmountsAssumption DEF Donate
<1>3. vault'[k] > vault[k]
  BY <1>1, <1>2 DEF Donate, TimelockTypeOK
<1>4. history'[k].paid = history[k].paid /\ history'[k].refunded = history[k].refunded
  BY <1>1 DEF Donate, TimelockTypeOK, History
<1>5. G!OthersUnchanged(k)
  BY <1>1, OtherGrants
<1>6. Vested(k)' = Vested(k)
  BY <1>2 DEF Vested
<1> QED
  BY <1>2, <1>3, <1>4, <1>5, <1>6 DEF G!TopUp

LEMMA WithdrawTakesOrCollects ==
    ASSUME GrantInv, NEW k \in Locks, WithdrawTimelock(k)
    PROVE  G!Take(k) \/ G!Collect(k)
<1>1. k \in open /\ Owed(k) > 0 /\ now' = now
  BY Withdrawn
<1>2. /\ TimelockTypeOK /\ TimelockTypeOK' /\ Vested(k) \in Nat /\ lock[k].withdrawn \in Nat
      /\ Owed(k) = Vested(k) - lock[k].withdrawn
  BY <1>1, OpenFacts, InvNext DEF GrantInv, Inv, TimelockNext
<1>3. lock[k].withdrawn < Vested(k)
  BY <1>1, <1>2
<1>4. G!OthersUnchanged(k)
  BY <1>2, OtherGrants
<1>5. CASE Vested(k) = lock[k].total
  <2>1. /\ open' = open \ {k} /\ lock'[k] = Blank /\ vault'[k] = 0
        /\ history'[k].paid = history[k].paid + vault[k]
        /\ history'[k].refunded = history[k].refunded
    <3>1. ~(Vested(k) < lock[k].total)
      BY <1>2, <1>5
    <3> QED
      BY <3>1, Withdrawn
  <2>2. Vested(k)' = 0
    BY <1>2, <2>1, BlankEarnsNothingLater
  <2>3. lock'[k].total = 0 /\ lock'[k].withdrawn = 0 /\ lock'[k].cancellable = FALSE
    BY <2>1 DEF Blank
  <2>4. G!Over(k)
    BY <2>1, <2>2, <2>3 DEF G!Over
  <2> QED
    BY <1>1, <1>3, <1>4, <1>5, <2>1, <2>4 DEF G!Collect
<1>6. CASE Vested(k) # lock[k].total
  <2>1. /\ Vested(k) < lock[k].total
        /\ open' = open
        /\ lock'[k] = [lock[k] EXCEPT !.withdrawn = Vested(k)]
        /\ vault'[k] = vault[k] - Owed(k)
        /\ history'[k].paid = history[k].paid + Owed(k)
        /\ history'[k].refunded = history[k].refunded
    BY <1>6, Withdrawn
  <2>2. /\ Vested(k)' = Vested(k) /\ lock'[k].total = lock[k].total
        /\ lock'[k].withdrawn = Vested(k) /\ lock'[k].cancellable = lock[k].cancellable
    BY <1>1, <1>2, <2>1, WithdrawingEarns
  <2>3. /\ vault'[k] = vault[k] - (Vested(k) - lock[k].withdrawn)
        /\ history'[k].paid = history[k].paid + (Vested(k) - lock[k].withdrawn)
    BY <1>2, <2>1
  <2> QED
    BY <1>1, <1>3, <1>4, <2>1, <2>2, <2>3 DEF G!Take
<1> QED
  BY <1>5, <1>6

LEMMA CancelReclaims ==
    ASSUME GrantInv, NEW k \in Locks, CancelTimelock(k)
    PROVE  G!Reclaim(k)
<1> DEFINE keep == Vested(k) - lock[k].withdrawn
<1>1. /\ k \in open /\ lock[k].cancellable /\ now' = now /\ vault'[k] = Owed(k)
      /\ history'[k].paid = history[k].paid
      /\ history'[k].refunded = history[k].refunded + (vault[k] - Owed(k))
      /\ \/ Owed(k) = 0 /\ open' = open \ {k} /\ lock'[k] = Blank
         \/ Owed(k) > 0 /\ open' = open /\ lock'[k] = Frozen(k)
  BY Cancelled
<1>2. /\ TimelockTypeOK /\ TimelockTypeOK' /\ Vested(k) \in Nat /\ lock[k].withdrawn \in Nat
      /\ Owed(k) = keep /\ Owed(k) <= vault[k] /\ vault[k] \in Nat
  BY <1>1, OpenFacts, InvNext DEF GrantInv, Inv, TimelockNext
<1>3. keep \in Int /\ vault[k] >= keep
  BY <1>2
<1>4. G!OthersUnchanged(k)
  BY <1>2, OtherGrants
<1>5. /\ history'[k].refunded = history[k].refunded + (vault[k] - keep)
      /\ vault'[k] = keep
  BY <1>1, <1>2
<1>6. CASE keep = 0
  <2>1. open' = open \ {k} /\ lock'[k] = Blank /\ vault'[k] = 0
    BY <1>1, <1>2, <1>5, <1>6
  <2>2. Vested(k)' = 0
    BY <1>2, <2>1, BlankEarnsNothingLater
  <2>3. lock'[k].total = 0 /\ lock'[k].withdrawn = 0 /\ lock'[k].cancellable = FALSE
    BY <2>1 DEF Blank
  <2>4. G!Over(k)
    BY <2>1, <2>2, <2>3 DEF G!Over
  <2> QED
    BY <1>1, <1>3, <1>4, <1>5, <1>6, <2>4 DEF G!Reclaim
<1>7. CASE keep # 0
  <2>1. keep > 0 /\ open' = open /\ lock'[k] = Frozen(k)
    BY <1>1, <1>2, <1>7
  <2>2. /\ Vested(k)' = Vested(k) /\ lock'[k].total = Vested(k)
        /\ lock'[k].withdrawn = lock[k].withdrawn /\ lock'[k].cancellable = FALSE
    BY <1>1, <1>2, <2>1, FrozenEarns
  <2> QED
    BY <1>1, <1>3, <1>4, <1>5, <2>1, <2>2 DEF G!Reclaim
<1> QED
  BY <1>6, <1>7

LEMMA GrantStep == GrantInv /\ [TimelockNext]_timelockVars => [G!Next]_(G!vars)
<1> SUFFICES ASSUME GrantInv, [TimelockNext]_timelockVars PROVE [G!Next]_(G!vars)
  OBVIOUS
<1>1. CASE UNCHANGED timelockVars
  <2>1. \A k \in Locks : Vested(k)' = Vested(k)
    BY <1>1 DEF timelockVars, Vested
  <2> QED
    BY <1>1, <2>1 DEF timelockVars, G!vars
<1>2. CASE Tick
  BY <1>2, TickAccrues DEF G!Next
<1>3. ASSUME NEW k \in Locks,
             \/ \E amount \in Amounts, s, c, e \in Times, b \in BOOLEAN :
                   CreateTimelock(k, amount, s, c, e, b)
             \/ WithdrawTimelock(k)
             \/ CancelTimelock(k)
             \/ \E u \in Users, amount \in Amounts : Donate(u, k, amount)
      PROVE  G!Next
  <2>1. G!Award(k) \/ G!TopUp(k) \/ G!Take(k) \/ G!Collect(k) \/ G!Reclaim(k)
    BY <1>3, CreateAwards, DonateTopsUp, WithdrawTakesOrCollects, CancelReclaims
  <2> QED
    BY <2>1 DEF G!Next
<1> QED
  BY <1>1, <1>2, <1>3 DEF TimelockNext

(* The three instructions, donations and the clock implement a grant: what *)
(* a recipient has earned never shrinks and is taken at most once, the     *)
(* last withdrawal takes everything set aside, and a cancellation returns  *)
(* exactly what is not owed and leaves the rest to the recipient for good. *)
THEOREM Implements == TimelockSpec => ImplementsGrant
<1>1. TimelockInit => G!Init
  BY GrantStart
<1>2. GrantInv /\ [TimelockNext]_timelockVars => [G!Next]_(G!vars)
  BY GrantStep
<1> QED
  BY <1>1, <1>2, GrantInvariance, PTL DEF TimelockSpec, ImplementsGrant, G!Spec
=============================================================================

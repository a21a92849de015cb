------------------------------ MODULE LocksPage ------------------------------
(***************************************************************************)
(* The page Locks: a form that locks an asset for someone on a schedule,   *)
(* the locks for and by this wallet, and their buttons.                    *)
(***************************************************************************)
EXTENDS PageKit

CONSTANTS
    MIN_LEAD_SECONDS,   \* how far ahead the end of a lock must be
    Minute              \* what a date and time field is rounded down to

LOCK_RESERVE == 6000000

LockEmpty ==
    [asset |-> Sol, to |-> <<>>, amount |-> Empty, mode |-> "vest", unlock |-> Empty,
     duration |-> MIN_LEAD_SECONDS, cliff |-> 0, cancellable |-> FALSE]

LockMax(form, assets) ==
    IF form.asset = Sol THEN Monus(assets[Sol], LOCK_RESERVE) ELSE assets[form.asset]

(* quickUnlock writes a moment into the field, which is read back without  *)
(* its seconds.                                                            *)
fromDateTimeLocal(unlock) == IF unlock = Empty THEN Empty ELSE (unlock \div Minute) * Minute

(* The cliff is in quarters of the duration, rounded to the nearest second.*)
buildSchedule(form, clock) ==
    IF form.mode = "date"
    THEN LET at == fromDateTimeLocal(form.unlock) IN [start |-> at, cliff |-> at, end |-> at]
    ELSE [start |-> clock, cliff |-> clock + (2 * form.duration * form.cliff + 4) \div 8,
          end |-> clock + form.duration]

validateScheduleLoosely(s, clock) == s.start <= s.cliff /\ s.cliff <= s.end
validateSchedule(s, clock) ==
    s.start <= s.cliff /\ s.cliff <= s.end /\ s.end >= clock + MIN_LEAD_SECONDS

LockPressed(form, assets, clock, seed) ==
    LET schedule == buildSchedule(form, clock)
        short == IF form.asset = Sol THEN form.amount + LOCK_RESERVE > assets[Sol]
                 ELSE assets[Sol] < LOCK_RESERVE
        error == FirstOf(<<
            <<~validAddress(form.to), "address">>,
            <<form.amount <= 0, "amount">>,
            <<form.amount > assets[form.asset], "not enough">>,
            <<short, "keep SOL">>,
            <<form.mode = "date" /\ form.unlock = Empty, "pick a date">>,
            <<~validateSchedule(schedule, clock), "schedule">> >>)
    IN  IF error # "" THEN Sorry(error)
        ELSE GoOn([kind |-> "lock", asset |-> form.asset, to |-> form.to, amount |-> form.amount,
                   schedule |-> schedule, cancellable |-> form.cancellable, seed |-> seed])

buildCreateLockInstructions(t, me) ==
    LET mint == MintOf(t.asset)
        token == findAssociatedTokenAddress(me, mint)
        lock == createTimelockInstruction(me, t.to, mint, deriveTimelockAddresses(me, t.to, t.seed, mint),
                    token, [seed |-> t.seed, amount |-> t.amount, start |-> t.schedule.start,
                            cliff |-> t.schedule.cliff, end |-> t.schedule.end,
                            cancellable |-> t.cancellable])
    IN  IF t.asset # Sol THEN <<lock>>
        ELSE <<createAssociatedTokenAccountIdempotent(me, me, mint)>> \o Wrapping(me, token, t.amount)
             \o <<lock, closeTokenAccount(token, me, me)>>

(* "Locked": the lock is there as the form said, and nothing else is gone. *)
LockKept(before, after, t, me) ==
    LET at == findTimelockAddress(me, t.to, t.seed)
        Gone(asset) == (IF asset = t.asset THEN t.amount ELSE 0)
                       + (IF asset = Sol THEN LockRent + TokenRent + NetworkFee({me}) ELSE 0)
    IN  /\ at \in DOMAIN after.locks
        /\ LET lock == after.locks[at]
           IN  lock.total = t.amount /\ lock.recipient = t.to /\ lock.end = t.schedule.end
        /\ \A asset \in Assets : Worth(after, me, asset) = Worth(before, me, asset) - Gone(asset)

-----------------------------------------------------------------------------
(* The lists and their buttons.                                            *)

fetchTimelocks(L, role, who) ==
    {l \in {L.locks[a] : a \in DOMAIN L.locks} : (IF role = "sender" THEN l.sender ELSE l.recipient) = who}

withdrawableAmount(lock, clock) ==
    Monus(VestedAmount(lock.total, lock.start, lock.cliff, lock.end, clock), lock.withdrawn)

(* By the clock of the browser; what is due is by the clock of the chain.  *)
WithdrawOffers(locks, clock, now) ==
    {[kind |-> "withdraw", lock |-> l, due |-> withdrawableAmount(l, now)] :
        l \in {k \in locks : withdrawableAmount(k, clock) > 0}}

CancelLockOffers(locks, clock) ==
    {[kind |-> "cancel lock", lock |-> l] :
        l \in {k \in locks :
                  k.cancellable /\ VestedAmount(k.total, k.start, k.cliff, k.end, clock) < k.total}}

LockAsset(lock) == IF lock.mint = Wsol THEN Sol ELSE lock.mint

buildWithdrawLeavingWrapped(lock) ==
    <<createAssociatedTokenAccountIdempotent(lock.recipient, lock.recipient, lock.mint),
      withdrawTimelockInstruction(lock.recipient,
          deriveTimelockAddresses(lock.sender, lock.recipient, lock.seed, lock.mint),
          lock.sender, lock.mint, findAssociatedTokenAddress(lock.recipient, lock.mint))>>

buildWithdrawInstructions(lock) ==
    LET token == findAssociatedTokenAddress(lock.recipient, lock.mint)
    IN  <<createAssociatedTokenAccountIdempotent(lock.recipient, lock.recipient, lock.mint),
          withdrawTimelockInstruction(lock.recipient,
              deriveTimelockAddresses(lock.sender, lock.recipient, lock.seed, lock.mint),
              lock.sender, lock.mint, token)>>
        \o When(lock.mint = Wsol, <<closeTokenAccount(token, lock.recipient, lock.recipient)>>)

buildCancelLockInstructions(lock) ==
    LET token == findAssociatedTokenAddress(lock.sender, lock.mint)
    IN  <<createAssociatedTokenAccountIdempotent(lock.sender, lock.sender, lock.mint),
          cancelTimelockInstruction(lock.sender,
              deriveTimelockAddresses(lock.sender, lock.recipient, lock.seed, lock.mint),
              lock.mint, token)>>
        \o When(lock.mint = Wsol, <<closeTokenAccount(token, lock.sender, lock.sender)>>)

(* What a row costs beside what it brings: a token account, once.          *)
RowCost(before, me, asset, of) ==
    IF asset # Sol THEN 0
    ELSE NetworkFee({me})
         + (IF of = Sol \/ hasTokenAccount(before, me, of) THEN 0 ELSE TokenRent)

(* "Withdraw" brings at least what was due when it was pressed, if the     *)
(* sender has not cancelled the lock since.                                *)
WithdrawKept(before, after, t, me) ==
    LET of == LockAsset(t.lock)
        at == findTimelockAddress(t.lock.sender, t.lock.recipient, t.lock.seed)
        due == IF before.locks[at] = t.lock THEN t.due ELSE 1
    IN  Worth(after, me, of) >= Worth(before, me, of) + due - RowCost(before, me, of, of)

(* "You get back what hasn't unlocked yet": all of that at least, beside   *)
(* the deposits of a lock that ends with it.                               *)
CancelLockKept(before, after, t, me) ==
    LET of == LockAsset(t.lock)
        back == t.lock.total - LockVested(t.lock, before.now)
    IN  Worth(after, me, of) >= Worth(before, me, of) + back - RowCost(before, me, of, of)
=============================================================================

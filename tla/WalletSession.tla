--------------------------- MODULE WalletSession ---------------------------
(***************************************************************************)
(* The wallet's session in the browser: WalletProvider, the encrypted      *)
(* vault in IndexedDB, and the account count in localStorage.              *)
(*                                                                         *)
(* Each operation is a task that suspends where the code awaits (reading   *)
(* or writing the vault, PBKDF2, deriving addresses); the user, the        *)
(* auto-lock and other tasks act in between, and the page may be reloaded. *)
(* A service is identified by the seed phrase it was opened with.          *)
(***************************************************************************)
EXTENDS Naturals, Sequences

CONSTANTS
    Seeds, Tasks,
    NoSeed,
    MaxOps,      \* bound on the operations users start
    MaxReloads   \* bound on reloads of the page

ASSUME SessionAssumption ==
    NoSeed \notin Seeds /\ MaxOps \in Nat /\ MaxReloads \in Nat

VARIABLES
    vault,      \* the seed encrypted in IndexedDB, or NoSeed
    count,      \* COUNT_KEY in localStorage, 0 when absent
    status,
    service,    \* the seed of serviceRef.current and of the service state
    addresses,  \* the seed and index each address was derived from
    accountIndex,
    task,       \* the operations that are suspended
    ops, reloads,
    crossed,    \* a reset was under way together with another operation, or
                \* an unlock with a creation, in this page (history)
    staleAdd,   \* an addAccount was under way when another one, or an
                \* unlock, began (history)
    misread,    \* the vault could not be read when the page loaded (history)
    unopened,   \* a creation stored its wallet and failed to open it, and
                \* none has opened since (history)
    unstored    \* the count of the last account added could not be stored
                \* (history)

disk == <<vault, count>>
view == <<status, service, addresses, accountIndex>>
past == <<crossed, staleAdd, misread, unopened, unstored>>
vars == <<disk, view, task, ops, reloads, past>>

Seed == Seeds \cup {NoSeed}

(* seed: what the operation holds in local variables; n: the number of     *)
(* accounts to derive (open), the next index (addAccount).                 *)
Idle == [op |-> "none", at |-> "none", seed |-> NoSeed, n |-> 0]
Run(op, at, seed, n) == [op |-> op, at |-> at, seed |-> seed, n |-> n]

Running(op) == \E t \in Tasks : task[t].op = op

(* A page that has just been opened: the load effect is its only task. *)
Loading ==
    /\ status' = "loading" /\ service' = NoSeed
    /\ addresses' = <<>> /\ accountIndex' = 0
    /\ \E t \in Tasks :
          task' = [u \in Tasks |-> IF u = t THEN Run("load", "read", NoSeed, 0) ELSE Idle]
    /\ crossed' = FALSE /\ staleAdd' = FALSE /\ misread' = FALSE
    /\ unopened' = FALSE /\ unstored' = FALSE

Init ==
    /\ \E s \in Seed : vault = s
    /\ count = IF vault = NoSeed THEN 0 ELSE 1
    /\ status = "loading" /\ service = NoSeed
    /\ addresses = <<>> /\ accountIndex = 0
    /\ \E t \in Tasks :
          task = [u \in Tasks |-> IF u = t THEN Run("load", "read", NoSeed, 0) ELSE Idle]
    /\ ops = 0 /\ reloads = 0
    /\ crossed = FALSE /\ staleAdd = FALSE /\ misread = FALSE
    /\ unopened = FALSE /\ unstored = FALSE

-----------------------------------------------------------------------------
(* Pieces of the operations.  Faulty variants stand before the definition  *)
(* they replace in the checks of PROJECT.json.                             *)

LoadedUnchecked(v) == "empty"

(* v ? 'locked' : 'empty', unless a wallet is open already. *)
Loaded(v) == IF status = "unlocked" THEN status
             ELSE IF v = NoSeed THEN "empty" ELSE "locked"

(* The accounts that localStorage promises: at least one. *)
ReadCount == IF count > 1 THEN count ELSE 1

(* readCount(): what is stored, or 1 where localStorage cannot be read. *)
ReadCounts == {ReadCount, 1}

(* svc.getAddress(i) for the first n accounts. *)
Derived(seed, n) == [i \in 1 .. n |-> <<seed, i - 1>>]

Opened(t, startedAs) ==
    /\ service' = task[t].seed
    /\ addresses' = Derived(task[t].seed, task[t].n)
    /\ accountIndex' = 0
    /\ status' = startedAs

(* setStatus('unlocked') *)
OpenStatus == "unlocked"

LockedKeepingKeys == service

(* serviceRef.current?.dispose(); serviceRef.current = null *)
LockedService == NoSeed

(* lock(): synchronous.  The selected account stays selected. *)
Locked ==
    /\ service' = LockedService
    /\ addresses' = <<>>
    /\ status' = IF status = "unlocked" THEN "locked" ELSE status
    /\ UNCHANGED accountIndex

NextAccountSkipping == Len(addresses) + 1

(* const next = addresses.length *)
NextAccount == Len(addresses)

StoredLater(seed) == vault

(* saveVault(await encryptSeed(seed, password)) *)
Stored(seed) == seed

Goto(t, at) == task' = [task EXCEPT ![t].at = at]
Ended(t)    == task' = [task EXCEPT ![t] = Idle]

(* open(): build the service, then await the addresses. *)
Deriving(t, n) == task' = [task EXCEPT ![t].at = "derive", ![t].n = n]

Start(t, op, at, seed, n) ==
    /\ task[t] = Idle
    /\ ops < MaxOps /\ ops' = ops + 1
    /\ task' = [task EXCEPT ![t] = Run(op, at, seed, n)]

-----------------------------------------------------------------------------
(* Starting an operation, from the page that offers it.  The buttons of    *)
(* Unlock and Onboarding are disabled while theirs is under way.           *)

StartUnlock(t) ==
    /\ status = "locked" /\ ~Running("unlock")
    /\ Start(t, "unlock", "read", NoSeed, 0)
    /\ crossed' = (crossed \/ Running("reset") \/ Running("create"))
    /\ staleAdd' = (staleAdd \/ Running("add"))
    /\ UNCHANGED <<disk, view, reloads, misread, unopened, unstored>>

StartCreate(t, seed) ==
    /\ status = "empty" /\ ~Running("create")
    /\ Start(t, "create", "encrypt", seed, 0)
    /\ crossed' = (crossed \/ Running("reset") \/ Running("unlock"))
    /\ UNCHANGED <<disk, view, reloads, staleAdd, misread, unopened, unstored>>

(* The buttons on the pages Unlock and Settings stay enabled. *)
StartReset(t) ==
    /\ status \in {"locked", "unlocked"}
    /\ Start(t, "reset", "delete", NoSeed, 0)
    /\ Locked
    /\ crossed' = (crossed \/ \E u \in Tasks : task[u] # Idle)
    /\ UNCHANGED <<disk, reloads, staleAdd, misread, unopened, unstored>>

StartAdd(t) ==
    /\ status = "unlocked" /\ service # NoSeed
    /\ Start(t, "add", "derive", service, NextAccount)
    /\ staleAdd' = (staleAdd \/ Running("add"))
    /\ crossed' = (crossed \/ Running("reset"))
    /\ UNCHANGED <<disk, view, reloads, misread, unopened, unstored>>

(* The button, or the timer of inactivity; both exist while unlocked. *)
Lock ==
    /\ status = "unlocked"
    /\ Locked
    /\ UNCHANGED <<disk, task, ops, reloads, past>>

SelectAccount(i) ==
    /\ status = "unlocked" /\ i < Len(addresses)
    /\ accountIndex' = i
    /\ UNCHANGED <<disk, status, service, addresses, task, ops, reloads, past>>

-----------------------------------------------------------------------------
(* Resuming after an await.                                                *)

(* The load effect; a failed read counts as an empty device. *)
Load(t) ==
    /\ task[t].op = "load"
    /\ \/ status' = Loaded(vault) /\ UNCHANGED misread
       \/ status' = Loaded(NoSeed) /\ misread' = (misread \/ vault # NoSeed)
    /\ Ended(t)
    /\ UNCHANGED <<disk, service, addresses, accountIndex, ops, reloads,
                   crossed, staleAdd, unopened, unstored>>

(* loadVault: no vault, or a failed read, is an error shown to the user. *)
UnlockRead(t) ==
    /\ task[t].op = "unlock" /\ task[t].at = "read"
    /\ \/ vault # NoSeed /\ task' = [task EXCEPT ![t].at = "decrypt", ![t].seed = vault]
       \/ Ended(t)
    /\ UNCHANGED <<disk, view, ops, reloads, past>>

(* decryptSeed: the password is right or wrong. *)
UnlockDecrypt(t) ==
    /\ task[t].op = "unlock" /\ task[t].at = "decrypt"
    /\ \/ \E n \in ReadCounts : Deriving(t, n)
       \/ Ended(t)
    /\ UNCHANGED <<disk, view, ops, reloads, past>>

(* saveVault commits, or fails. *)
CreateSave(t) ==
    /\ task[t].op = "create" /\ task[t].at = "encrypt"
    /\ \/ vault' = Stored(task[t].seed) /\ Goto(t, "saved")
       \/ UNCHANGED vault /\ Ended(t)
    /\ UNCHANGED <<count, view, ops, reloads, past>>

(* The count may fail to be stored; open() goes on with what it reads. *)
CreateCount(t) ==
    /\ task[t].op = "create" /\ task[t].at = "saved"
    /\ count' \in {1, count}
    /\ \E n \in ReadCounts' : Deriving(t, n)
    /\ UNCHANGED <<vault, view, ops, reloads, past>>

(* The end of open(), for an unlock or a creation.  If an address cannot be *)
(* derived, the page shows an error and can be used again.                 *)
OpenEnd(t) ==
    /\ task[t].op \in {"unlock", "create"} /\ task[t].at = "derive"
    /\ \/ Opened(t, OpenStatus) /\ unopened' = FALSE /\ unstored' = FALSE
       \/ /\ unopened' = (unopened \/ task[t].op = "create")
          /\ UNCHANGED <<view, unstored>>
    /\ Ended(t)
    /\ UNCHANGED <<disk, ops, reloads, crossed, staleAdd, misread>>

ResetDelete(t) ==
    /\ task[t].op = "reset" /\ task[t].at = "delete"
    /\ \/ vault' = NoSeed /\ Goto(t, "deleted")
       \/ UNCHANGED vault /\ Ended(t)
    /\ UNCHANGED <<count, view, ops, reloads, past>>

(* The count may fail to be removed. *)
ResetEnd(t) ==
    /\ task[t].op = "reset" /\ task[t].at = "deleted"
    /\ count' \in {0, count} /\ status' = "empty"
    /\ Ended(t)
    /\ UNCHANGED <<vault, service, addresses, accountIndex, ops, reloads, past>>

(* The new address arrives, whatever happened to the session meanwhile, and *)
(* is shown whether its count can be stored or not; a disposed manager may *)
(* fail instead.                                                           *)
AddEnd(t) ==
    /\ task[t].op = "add"
    /\ \/ /\ addresses' = Append(addresses, <<task[t].seed, task[t].n>>)
          /\ accountIndex' = task[t].n
          /\ \/ count' = task[t].n + 1 /\ unstored' = FALSE
             \/ UNCHANGED count /\ unstored' = TRUE
       \/ UNCHANGED <<addresses, accountIndex, count, unstored>>
    /\ Ended(t)
    /\ UNCHANGED <<vault, status, service, ops, reloads,
                   crossed, staleAdd, misread, unopened>>

(* The page is closed or reloaded: only the disk survives. *)
Reload ==
    /\ reloads < MaxReloads /\ reloads' = reloads + 1
    /\ Loading
    /\ UNCHANGED <<disk, ops>>

Resume(t) ==
    \/ Load(t) \/ UnlockRead(t) \/ UnlockDecrypt(t) \/ CreateSave(t) \/ CreateCount(t)
    \/ OpenEnd(t) \/ ResetDelete(t) \/ ResetEnd(t) \/ AddEnd(t)

Next ==
    \/ \E t \in Tasks :
          \/ Resume(t)
          \/ StartUnlock(t) \/ StartReset(t) \/ StartAdd(t)
          \/ \E s \in Seeds : StartCreate(t, s)
    \/ Lock
    \/ \E i \in 0 .. MaxOps : SelectAccount(i)
    \/ Reload

Spec == Init /\ [][Next]_vars

(* Awaited calls settle; the user leaves in the end and the timer fires.   *)
FairSpec == Spec /\ WF_vars(Lock) /\ \A t \in Tasks : WF_vars(Resume(t))

-----------------------------------------------------------------------------
(* Properties.                                                             *)

(* Unless operations crossed, keys are in memory exactly in an unlocked    *)
(* session, and nothing resumed after a lock brings them back.             *)
KeysFollowStatus == ~crossed => (service # NoSeed <=> status = "unlocked")

(* A wallet that is open is the one stored on the device: closing the page *)
(* never loses it.                                                         *)
SessionIsStored == status = "unlocked" /\ ~crossed => vault = service

(* The address shown for an account is that account's, of the open wallet, *)
(* and the selected account exists.  The count stored covers every account *)
(* shown, so that whoever can read it after a reload finds them all again, *)
(* unless localStorage refused the count of the last one added             *)
(* (addAccount's and readCount's catch).                                   *)
AddressesAreAccounts ==
    status = "unlocked" /\ ~crossed /\ ~staleAdd =>
        /\ addresses = Derived(service, Len(addresses))
        /\ accountIndex < Len(addresses)
        /\ Len(addresses) <= ReadCount \/ unstored

(* A stored wallet is never replaced, only removed by a reset, unless it   *)
(* could not be read when the page loaded, or was just created and has     *)
(* failed to open.                                                         *)
NeverOverwritten ==
    [][vault # NoSeed /\ vault' # vault /\ ~crossed /\ ~misread /\ ~unopened
          => vault' = NoSeed]_vars

(* A session left alone is locked: keys do not stay in memory.             *)
EventuallyLocked == service # NoSeed /\ ~crossed ~> service = NoSeed \/ crossed

-----------------------------------------------------------------------------
(* walletService.ts:16: "The seed phrase lives only in WDK's memory while  *)
(* the wallet is unlocked".  A reset that overtakes an unlock ends with an *)
(* empty status over an open service, where no timer will lock it.         *)
KeysOnlyWhileUnlocked == service # NoSeed => status = "unlocked"
=============================================================================

------------------------ MODULE WalletSessionProofs ------------------------
(***************************************************************************)
(* The safety of the wallet's session for any number of operations, seeds  *)
(* and reloads: keys are in memory exactly while it is unlocked, an open   *)
(* wallet is the stored one, its addresses are those of its accounts, and  *)
(* no wallet is replaced by another.                                       *)
(*                                                                         *)
(* Operations interleave at every await.  What makes this safe, unless     *)
(* some crossed, is that only additions of accounts and an unlock overlap: *)
(* Sound says for each operation under way what else may be, and what of   *)
(* the state it will use is still as it found it.                          *)
(***************************************************************************)
EXTENDS WalletSession, SequenceTheorems, TLAPS

Ops == {"none", "load", "unlock", "create", "reset", "add"}

Ats == {"none", "read", "decrypt", "derive", "encrypt", "saved", "delete", "deleted"}

Operation == [op : Ops, at : Ats, seed : Seed, n : Nat]

Types ==
    /\ vault \in Seed /\ count \in Nat
    /\ status \in {"loading", "empty", "locked", "unlocked"}
    /\ service \in Seed
    /\ addresses \in Seq(Seed \X Nat)
    /\ accountIndex \in Nat
    /\ task \in [Tasks -> Operation]
    /\ \A t \in Tasks : task[t].op = "none" => task[t] = Idle
    /\ crossed \in BOOLEAN /\ staleAdd \in BOOLEAN /\ misread \in BOOLEAN
    /\ unopened \in BOOLEAN /\ unstored \in BOOLEAN

Only(t) == \A u \in Tasks : u # t => task[u] = Idle

LoadSound(t) == task[t].op = "load" => Only(t) /\ status = "loading"

ResetSound(t) ==
    task[t].op = "reset" =>
        /\ Only(t) /\ status = "locked"
        /\ task[t].at = "deleted" => vault = NoSeed

CreateSound(t) ==
    task[t].op = "create" =>
        /\ Only(t) /\ status = "empty"
        /\ task[t].seed \in Seeds
        /\ task[t].at \in {"encrypt", "saved", "derive"}
        /\ task[t].at = "encrypt" => vault = NoSeed \/ misread \/ unopened
        /\ task[t].at \in {"saved", "derive"} => vault = task[t].seed
        /\ task[t].at = "derive" => task[t].n \in 1 .. ReadCount

UnlockSound(t) ==
    task[t].op = "unlock" =>
        /\ \A u \in Tasks : u # t => task[u].op \in {"none", "add"}
        /\ status = "locked"
        /\ task[t].at \in {"decrypt", "derive"} => vault # NoSeed /\ task[t].seed = vault
        /\ task[t].at = "derive" /\ ~staleAdd => task[t].n \in 1 .. ReadCount

AddSound(t) ==
    task[t].op = "add" =>
        /\ status \in {"locked", "unlocked"}
        /\ ~staleAdd => /\ Only(t)
                        /\ status = "unlocked" => /\ task[t].seed = service
                                                  /\ task[t].n = Len(addresses)

Sound ==
    \A t \in Tasks :
        LoadSound(t) /\ ResetSound(t) /\ CreateSound(t) /\ UnlockSound(t) /\ AddSound(t)

(* An empty wallet is that of an empty device, of one about to be used, or *)
(* of one whose new wallet failed to open.                                 *)
EmptySound ==
    status = "empty" =>
        \/ vault = NoSeed \/ misread \/ unopened
        \/ \E t \in Tasks : task[t].op = "create" /\ task[t].at # "encrypt"

Inv ==
    /\ Types
    /\ ~crossed => Sound /\ EmptySound
    /\ KeysFollowStatus /\ SessionIsStored /\ AddressesAreAccounts

LEMMA IdleOperation == Idle \in Operation /\ Idle.op = "none"
  BY DEF Idle, Operation, Ops, Ats, Seed

LEMMA FieldTypes ==
    ASSUME Types, NEW t \in Tasks
    PROVE  /\ task[t] \in Operation /\ task[t].op \in Ops /\ task[t].at \in Ats
           /\ task[t].seed \in Seed /\ task[t].n \in Nat
           /\ task[t].op = "none" <=> task[t] = Idle
  BY IdleOperation DEF Types, Operation

(* One operation takes a step; the others stay where they are. *)
LEMMA TaskStep ==
    ASSUME Types, NEW t \in Tasks, NEW x \in Operation,
           x.op = "none" => x = Idle, task' = [task EXCEPT ![t] = x]
    PROVE  /\ task' \in [Tasks -> Operation]
           /\ \A u \in Tasks : task'[u].op = "none" => task'[u] = Idle
           /\ task'[t] = x /\ \A u \in Tasks : u # t => task'[u] = task[u]
  <1>1. task \in [Tasks -> Operation] /\ \A u \in Tasks : task[u].op = "none" => task[u] = Idle
    BY DEF Types
  <1>2. task'[t] = x /\ \A u \in Tasks : u # t => task'[u] = task[u] BY <1>1
  <1> QED BY <1>1, <1>2

LEMMA EndStep ==
    ASSUME Types, NEW t \in Tasks, Ended(t)
    PROVE  /\ task' \in [Tasks -> Operation]
           /\ \A u \in Tasks : task'[u].op = "none" => task'[u] = Idle
           /\ task'[t] = Idle /\ \A u \in Tasks : u # t => task'[u] = task[u]
  BY IdleOperation, TaskStep DEF Ended

(* An operation goes on to another await. *)
Moved(t, at, seed, n) ==
    /\ task' \in [Tasks -> Operation]
    /\ \A u \in Tasks : task'[u].op = "none" => task'[u] = Idle
    /\ \A u \in Tasks : u # t => task'[u] = task[u]
    /\ task'[t].op = task[t].op /\ task'[t].at = at
    /\ task'[t].seed = seed /\ task'[t].n = n

LEMMA SeedStep ==
    ASSUME Types, NEW t \in Tasks, task[t].op # "none", NEW at \in Ats, NEW seed \in Seed,
           task' = [task EXCEPT ![t].at = at, ![t].seed = seed]
    PROVE  Moved(t, at, seed, task[t].n)
  <1> DEFINE x == [task[t] EXCEPT !.at = at, !.seed = seed]
  <1>1. task[t] \in Operation BY DEF Types
  <1>2. /\ x \in Operation /\ x.op = task[t].op /\ x.at = at /\ x.seed = seed
        /\ x.n = task[t].n
    BY <1>1 DEF Operation
  <1>3. task' = [task EXCEPT ![t] = x] OBVIOUS
  <1> HIDE DEF x
  <1> QED BY <1>2, <1>3, TaskStep DEF Moved

LEMMA DerivingStep ==
    ASSUME Types, NEW t \in Tasks, task[t].op # "none", NEW n \in Nat, Deriving(t, n)
    PROVE  Moved(t, "derive", task[t].seed, n)
  <1> DEFINE x == [task[t] EXCEPT !.at = "derive", !.n = n]
  <1>1. task[t] \in Operation BY DEF Types
  <1>2. /\ x \in Operation /\ x.op = task[t].op /\ x.at = "derive" /\ x.n = n
        /\ x.seed = task[t].seed
    BY <1>1 DEF Operation, Ats
  <1>3. task' = [task EXCEPT ![t] = x] BY DEF Deriving
  <1> HIDE DEF x
  <1> QED BY <1>2, <1>3, TaskStep DEF Moved

LEMMA GotoStep ==
    ASSUME Types, NEW t \in Tasks, task[t].op # "none", NEW at \in Ats, Goto(t, at)
    PROVE  Moved(t, at, task[t].seed, task[t].n)
  <1> DEFINE x == [task[t] EXCEPT !.at = at]
  <1>1. task[t] \in Operation BY DEF Types
  <1>2. /\ x \in Operation /\ x.op = task[t].op /\ x.at = at
        /\ x.seed = task[t].seed /\ x.n = task[t].n
    BY <1>1 DEF Operation
  <1>3. task' = [task EXCEPT ![t] = x] BY DEF Goto
  <1> HIDE DEF x
  <1> QED BY <1>2, <1>3, TaskStep DEF Moved

(* An operation starts. *)
LEMMA StartStep ==
    ASSUME Types, NEW t \in Tasks, NEW op \in Ops \ {"none"}, NEW at \in Ats,
           NEW seed \in Seed, NEW n \in Nat, Start(t, op, at, seed, n)
    PROVE  /\ task' \in [Tasks -> Operation]
           /\ \A u \in Tasks : task'[u].op = "none" => task'[u] = Idle
           /\ task[t] = Idle /\ task[t].op = "none"
           /\ \A u \in Tasks : u # t => task'[u] = task[u]
           /\ task'[t].op = op /\ task'[t].at = at
           /\ task'[t].seed = seed /\ task'[t].n = n
  <1>1. Run(op, at, seed, n) \in Operation /\ Run(op, at, seed, n).op # "none"
    BY DEF Run, Operation
  <1>2. task[t] = Idle /\ task' = [task EXCEPT ![t] = Run(op, at, seed, n)] BY DEF Start
  <1>3. /\ task' \in [Tasks -> Operation]
        /\ \A u \in Tasks : task'[u].op = "none" => task'[u] = Idle
        /\ task'[t] = Run(op, at, seed, n) /\ \A u \in Tasks : u # t => task'[u] = task[u]
    BY <1>1, <1>2, TaskStep
  <1> QED BY <1>2, <1>3, IdleOperation DEF Run

(* A page that has just been opened, the first time or after a reload. *)
Fresh ==
    /\ vault \in Seed /\ count \in Nat
    /\ status = "loading" /\ service = NoSeed
    /\ addresses = <<>> /\ accountIndex = 0
    /\ \E t \in Tasks :
          task = [u \in Tasks |-> IF u = t THEN Run("load", "read", NoSeed, 0) ELSE Idle]
    /\ crossed = FALSE /\ staleAdd = FALSE /\ misread = FALSE
    /\ unopened = FALSE /\ unstored = FALSE

LEMMA FreshSound == Fresh => Inv
  <1> SUFFICES ASSUME Fresh PROVE Inv
    OBVIOUS
  <1>1. PICK t \in Tasks :
            task = [u \in Tasks |-> IF u = t THEN Run("load", "read", NoSeed, 0) ELSE Idle]
    BY DEF Fresh
  <1>2. /\ Run("load", "read", NoSeed, 0) \in Operation
        /\ Run("load", "read", NoSeed, 0).op = "load"
    BY DEF Run, Operation, Ops, Ats, Seed
  <1>3. /\ task \in [Tasks -> Operation] /\ task[t].op = "load"
        /\ \A u \in Tasks : u # t => task[u] = Idle
    BY <1>1, <1>2, IdleOperation
  <1>4. \A u \in Tasks : task[u].op # "none" => u = t BY <1>3, IdleOperation
  <1>5. /\ status = "loading" /\ service = NoSeed /\ addresses = <<>> /\ accountIndex = 0
        /\ crossed = FALSE /\ staleAdd = FALSE /\ misread = FALSE
        /\ unopened = FALSE /\ unstored = FALSE
    BY DEF Fresh
  <1>6. Types
    <2>1. \A u \in Tasks : task[u].op = "none" => task[u] = Idle BY <1>3
    <2>2. NoSeed \in Seed /\ <<>> \in Seq(Seed \X Nat) BY DEF Seed
    <2>3. vault \in Seed /\ count \in Nat BY DEF Fresh
    <2> QED BY <1>3, <1>5, <2>1, <2>2, <2>3 DEF Types
  <1>7. Sound
    <2> SUFFICES ASSUME NEW u \in Tasks
                 PROVE  /\ LoadSound(u) /\ ResetSound(u) /\ CreateSound(u)
                        /\ UnlockSound(u) /\ AddSound(u)
      BY DEF Sound
    <2>1. CASE u = t
      BY <1>3, <1>5, <2>1 DEF LoadSound, ResetSound, CreateSound, UnlockSound, AddSound, Only
    <2>2. CASE u # t
      <3>1. task[u].op = "none" BY <1>3, <2>2, IdleOperation
      <3> QED BY <3>1 DEF LoadSound, ResetSound, CreateSound, UnlockSound, AddSound
    <2> QED BY <2>1, <2>2
  <1>8. EmptySound /\ KeysFollowStatus /\ SessionIsStored /\ AddressesAreAccounts
    BY <1>5 DEF EmptySound, KeysFollowStatus, SessionIsStored, AddressesAreAccounts
  <1> QED BY <1>6, <1>7, <1>8 DEF Inv

LEMMA FreshSoundNext == Fresh' => Inv'
  BY FreshSound, PTL

(* An operation ends, or goes on without touching anything: what others    *)
(* rely on stays.                                                          *)
LEMMA FailureKeeps ==
    ASSUME Inv, NEW t \in Tasks, Ended(t),
           UNCHANGED <<disk, view, crossed, staleAdd, misread, unstored>>,
           unopened' \in BOOLEAN, unopened => unopened',
           unopened' \/ task[t].op # "create" \/ task[t].at = "encrypt"
    PROVE  Inv'
  <1> USE DEF disk, view
  <1>1. /\ task' \in [Tasks -> Operation]
        /\ \A u \in Tasks : task'[u].op = "none" => task'[u] = Idle
        /\ task'[t] = Idle /\ task'[t].op = "none"
        /\ \A u \in Tasks : u # t => task'[u] = task[u]
    BY EndStep, IdleOperation DEF Inv
  <1>2. Types' BY <1>1 DEF Inv, Types
  <1>3. ASSUME ~crossed PROVE Sound'
    <2> SUFFICES ASSUME NEW u \in Tasks, u # t
                 PROVE  /\ LoadSound(u)' /\ ResetSound(u)' /\ CreateSound(u)'
                        /\ UnlockSound(u)' /\ AddSound(u)'
      BY <1>1 DEF Sound, LoadSound, ResetSound, CreateSound, UnlockSound, AddSound
    <2>1. LoadSound(u) /\ ResetSound(u) /\ CreateSound(u) /\ UnlockSound(u) /\ AddSound(u)
      BY <1>3 DEF Inv, Sound
    <2>2. Only(u) => Only(u)' BY <1>1 DEF Only
    <2> QED BY <1>1, <2>1, <2>2
        DEF LoadSound, ResetSound, CreateSound, UnlockSound, AddSound, ReadCount
  <1>4. ASSUME ~crossed PROVE EmptySound'
    BY <1>1, <1>4 DEF Inv, EmptySound, Sound, CreateSound
  <1>5. KeysFollowStatus' /\ SessionIsStored' BY DEF Inv, KeysFollowStatus, SessionIsStored
  <1>6. AddressesAreAccounts' BY DEF Inv, AddressesAreAccounts, ReadCount, Derived
  <1> QED BY <1>2, <1>3, <1>4, <1>5, <1>6 DEF Inv

LEMMA EndsKeeps ==
    ASSUME Inv, NEW t \in Tasks, Ended(t), UNCHANGED <<disk, view, past>>,
           task[t].op # "create" \/ task[t].at = "encrypt"
    PROVE  Inv'
  <1>1. unopened' = unopened /\ unopened \in BOOLEAN BY DEF past, Inv, Types
  <1>2. UNCHANGED <<disk, view, crossed, staleAdd, misread, unstored>> BY DEF past
  <1> QED BY <1>1, <1>2, FailureKeeps

LEMMA EnoughUncrossed ==
    ASSUME Types',
           ~crossed' => /\ Sound' /\ EmptySound'
                        /\ (service # NoSeed <=> status = "unlocked")'
                        /\ (status = "unlocked" => vault = service)'
                        /\ AddressesAreAccounts'
    PROVE  Inv'
  <1>1. crossed' => AddressesAreAccounts' BY DEF AddressesAreAccounts
  <1> QED BY <1>1 DEF Inv, KeysFollowStatus, SessionIsStored, Types

(* While nothing else is under way, only the one operation matters. *)
LEMMA AloneSound ==
    ASSUME NEW t \in Tasks, \A u \in Tasks : u # t => task'[u] = Idle,
           LoadSound(t)', ResetSound(t)', CreateSound(t)', UnlockSound(t)', AddSound(t)'
    PROVE  Sound'
  <1> SUFFICES ASSUME NEW u \in Tasks, u # t
               PROVE  /\ LoadSound(u)' /\ ResetSound(u)' /\ CreateSound(u)'
                      /\ UnlockSound(u)' /\ AddSound(u)'
    BY DEF Sound
  <1>1. task'[u].op = "none" BY IdleOperation
  <1> QED BY <1>1 DEF LoadSound, ResetSound, CreateSound, UnlockSound, AddSound

LEMMA OnlyOne ==
    ASSUME Inv, ~crossed, NEW t \in Tasks, task[t].op \in {"load", "reset", "create"}
    PROVE  Only(t)
  BY DEF Inv, Sound, LoadSound, ResetSound, CreateSound

LEMMA LoadKeeps ==
    ASSUME Inv, NEW t \in Tasks, Load(t)
    PROVE  Inv'
  <1>1. /\ task[t].op = "load" /\ Ended(t)
        /\ UNCHANGED <<vault, count, service, addresses, accountIndex, crossed, staleAdd,
                       unopened, unstored>>
        /\ \/ status' = Loaded(vault) /\ misread' = misread
           \/ status' = Loaded(NoSeed) /\ misread' = (misread \/ vault # NoSeed)
    BY DEF Load, disk
  <1>2. /\ task' \in [Tasks -> Operation]
        /\ \A u \in Tasks : task'[u].op = "none" => task'[u] = Idle
        /\ task'[t] = Idle /\ task'[t].op = "none"
        /\ \A u \in Tasks : u # t => task'[u] = task[u]
    BY <1>1, EndStep, IdleOperation DEF Inv
  <1>3. Types' BY <1>1, <1>2 DEF Inv, Types, Loaded
  <1>4. ASSUME ~crossed'
        PROVE  /\ Sound' /\ EmptySound'
               /\ (service # NoSeed <=> status = "unlocked")'
               /\ (status = "unlocked" => vault = service)'
               /\ AddressesAreAccounts'
    <2>1. ~crossed BY <1>1, <1>4
    <2>2. Only(t) /\ status = "loading" /\ service = NoSeed
      BY <1>1, <2>1 DEF Inv, Sound, LoadSound, KeysFollowStatus
    <2>3. Sound'
      <3>1. \A u \in Tasks : u # t => task'[u] = Idle BY <1>2, <2>2 DEF Only
      <3> QED BY <1>2, <3>1, AloneSound
          DEF LoadSound, ResetSound, CreateSound, UnlockSound, AddSound
    <2>4. status' # "unlocked" /\ service' = NoSeed BY <1>1, <2>2 DEF Loaded
    <2>5. EmptySound' BY <1>1, <2>2 DEF EmptySound, Loaded, Inv, Types
    <2> QED BY <2>3, <2>4, <2>5 DEF AddressesAreAccounts
  <1> QED BY <1>3, <1>4, EnoughUncrossed

LEMMA UnlockKeeps ==
    ASSUME Inv, NEW t \in Tasks, task[t].op = "unlock", UNCHANGED <<disk, view, past>>,
           NEW at \in {"decrypt", "derive"}, NEW seed \in Seed, NEW n \in Nat,
           Moved(t, at, seed, n),
           ~crossed => vault # NoSeed /\ seed = vault,
           at = "derive" => n \in 1 .. ReadCount
    PROVE  Inv'
  <1> USE DEF disk, view, past
  <1>1. /\ task' \in [Tasks -> Operation]
        /\ \A u \in Tasks : task'[u].op = "none" => task'[u] = Idle
        /\ \A u \in Tasks : u # t => task'[u] = task[u]
        /\ task'[t].op = "unlock" /\ task'[t].at = at
        /\ task'[t].seed = seed /\ task'[t].n = n
    BY DEF Moved
  <1>2. Types' BY <1>1 DEF Inv, Types
  <1>3. ASSUME ~crossed PROVE Sound'
    <2>1. UnlockSound(t) /\ status = "locked" BY <1>3 DEF Inv, Sound, UnlockSound
    <2>2. UnlockSound(t)' BY <1>1, <1>3, <2>1 DEF UnlockSound, ReadCount
    <2>3. ASSUME NEW u \in Tasks, u # t
          PROVE  /\ LoadSound(u)' /\ ResetSound(u)' /\ CreateSound(u)'
                 /\ UnlockSound(u)' /\ AddSound(u)'
      <3>1. task'[u] = task[u] /\ task[u].op \in {"none", "add"} BY <1>1, <2>1, <2>3 DEF UnlockSound
      <3>2. AddSound(u) BY <1>3 DEF Inv, Sound
      <3>3. task[t] # Idle BY IdleOperation
      <3>4. AddSound(u)' BY <1>1, <2>3, <3>1, <3>2, <3>3 DEF AddSound, Only
      <3> QED BY <3>1, <3>4 DEF LoadSound, ResetSound, CreateSound, UnlockSound
    <2>4. LoadSound(t)' /\ ResetSound(t)' /\ CreateSound(t)' /\ AddSound(t)'
      BY <1>1 DEF LoadSound, ResetSound, CreateSound, AddSound
    <2> QED BY <2>2, <2>3, <2>4 DEF Sound
  <1>4. ASSUME ~crossed PROVE EmptySound'
    BY <1>4 DEF Inv, EmptySound, Sound, UnlockSound
  <1>5. KeysFollowStatus' /\ SessionIsStored' BY DEF Inv, KeysFollowStatus, SessionIsStored
  <1>6. AddressesAreAccounts' BY DEF Inv, AddressesAreAccounts, ReadCount, Derived
  <1> QED BY <1>2, <1>3, <1>4, <1>5, <1>6 DEF Inv

(* What readCount() returns never exceeds what is stored. *)
LEMMA ReadCountsFit ==
    ASSUME Types
    PROVE  /\ ReadCount \in Nat /\ 1 <= ReadCount
           /\ \A n \in ReadCounts : n \in 1 .. ReadCount /\ n \in Nat
  BY DEF Types, ReadCount, ReadCounts

LEMMA ReadCountsFitNext ==
    ASSUME Types'
    PROVE  \A n \in ReadCounts' : n \in 1 .. ReadCount'
  BY DEF Types, ReadCount, ReadCounts

LEMMA UnlockReadKeeps ==
    ASSUME Inv, NEW t \in Tasks, UnlockRead(t)
    PROVE  Inv'
  <1>1. /\ task[t].op = "unlock" /\ task[t].at = "read"
        /\ UNCHANGED <<disk, view, past>>
    BY DEF UnlockRead
  <1>2. Types BY DEF Inv
  <1>3. CASE vault # NoSeed /\ task' = [task EXCEPT ![t].at = "decrypt", ![t].seed = vault]
    <2>1. vault \in Seed /\ task[t].n \in Nat /\ "decrypt" \in Ats /\ task[t].op # "none"
      BY <1>1, <1>2, FieldTypes DEF Types, Ats
    <2>2. Moved(t, "decrypt", vault, task[t].n) BY ONLY <1>2, <1>3, <2>1, SeedStep
    <2> QED BY <1>1, <1>3, <2>1, <2>2, UnlockKeeps
  <1>4. CASE Ended(t) BY <1>1, <1>4, EndsKeeps
  <1> QED BY <1>3, <1>4 DEF UnlockRead

LEMMA UnlockDecryptKeeps ==
    ASSUME Inv, NEW t \in Tasks, UnlockDecrypt(t)
    PROVE  Inv'
  <1>1. /\ task[t].op = "unlock" /\ task[t].at = "decrypt"
        /\ UNCHANGED <<disk, view, past>>
    BY DEF UnlockDecrypt
  <1>2. Types BY DEF Inv
  <1>3. ASSUME NEW n \in ReadCounts, Deriving(t, n) PROVE Inv'
    <2>1. n \in 1 .. ReadCount /\ n \in Nat BY <1>2, ReadCountsFit
    <2>2. task[t].seed \in Seed /\ task[t].op # "none" BY <1>1, <1>2, FieldTypes
    <2>3. Moved(t, "derive", task[t].seed, n) BY <1>2, <1>3, <2>1, <2>2, DerivingStep
    <2>4. ~crossed => vault # NoSeed /\ task[t].seed = vault
      BY <1>1 DEF Inv, Sound, UnlockSound
    <2> QED BY <1>1, <2>1, <2>2, <2>4, <2>3, UnlockKeeps
  <1>4. CASE Ended(t) BY <1>1, <1>4, EndsKeeps
  <1> QED BY <1>3, <1>4 DEF UnlockDecrypt

(* The new wallet is saved: from here on the session is not empty for      *)
(* want of a vault, but because the creation has still to open it.         *)
LEMMA CreateSaveKeeps ==
    ASSUME Inv, NEW t \in Tasks, CreateSave(t)
    PROVE  Inv'
  <1>1. /\ task[t].op = "create" /\ task[t].at = "encrypt"
        /\ UNCHANGED <<count, status, service, addresses, accountIndex,
                       crossed, staleAdd, misread, unopened, unstored>>
    BY DEF CreateSave, view, past
  <1>2. Types BY DEF Inv
  <1>3. CASE vault' = Stored(task[t].seed) /\ Goto(t, "saved")
    <2>1. task[t].seed \in Seed /\ "saved" \in Ats /\ task[t].op # "none"
      BY <1>1, <1>2, FieldTypes DEF Ats
    <2>2. Moved(t, "saved", task[t].seed, task[t].n) BY <1>2, <1>3, <2>1, GotoStep
    <2>3. vault' = task[t].seed BY <1>3 DEF Stored
    <2>4. Types' BY <1>1, <1>2, <2>1, <2>2, <2>3 DEF Types, Moved
    <2>5. ASSUME ~crossed'
          PROVE  /\ Sound' /\ EmptySound'
                 /\ (service # NoSeed <=> status = "unlocked")'
                 /\ (status = "unlocked" => vault = service)'
                 /\ AddressesAreAccounts'
      <3>1. ~crossed BY <1>1, <2>5
      <3>2. Only(t) /\ status = "empty" /\ task[t].seed \in Seeds
        BY <1>1, <3>1 DEF Inv, Sound, CreateSound
      <3>3. \A u \in Tasks : u # t => task'[u] = Idle BY <2>2, <3>2 DEF Only, Moved
      <3>4. /\ task'[t].op = "create" /\ task'[t].at = "saved"
            /\ task'[t].seed = task[t].seed
        BY <1>1, <2>2 DEF Moved
      <3>5. Sound'
        BY <1>1, <2>3, <3>2, <3>3, <3>4, AloneSound
        DEF LoadSound, ResetSound, CreateSound, UnlockSound, AddSound, Only
      <3>6. EmptySound' BY <3>4 DEF EmptySound
      <3>7. service = NoSeed BY <3>1, <3>2 DEF Inv, KeysFollowStatus
      <3> QED BY <1>1, <3>2, <3>5, <3>6, <3>7 DEF AddressesAreAccounts
    <2> QED BY <2>4, <2>5, EnoughUncrossed
  <1>4. CASE UNCHANGED vault /\ Ended(t)
    <2>1. UNCHANGED <<disk, view, past>> BY <1>1, <1>4 DEF disk, view, past
    <2> QED BY <1>1, <1>4, <2>1, EndsKeeps
  <1> QED BY <1>3, <1>4 DEF CreateSave

LEMMA CreateCountKeeps ==
    ASSUME Inv, NEW t \in Tasks, CreateCount(t)
    PROVE  Inv'
  <1>1. PICK n \in ReadCounts' : Deriving(t, n) BY DEF CreateCount
  <1>2. /\ task[t].op = "create" /\ task[t].at = "saved" /\ count' \in {1, count}
        /\ UNCHANGED <<vault, status, service, addresses, accountIndex,
                       crossed, staleAdd, misread, unopened, unstored>>
    BY DEF CreateCount, view, past
  <1>3. Types BY DEF Inv
  <1>4. task[t].seed \in Seed /\ task[t].op # "none" /\ count' \in Nat /\ n \in Nat
    <2>1. count' \in Nat BY <1>2, <1>3 DEF Types
    <2>2. n \in Nat BY <1>1, <2>1 DEF ReadCounts, ReadCount
    <2> QED BY <1>2, <1>3, <2>1, <2>2, FieldTypes
  <1>5. Moved(t, "derive", task[t].seed, n) BY <1>1, <1>3, <1>4, DerivingStep
  <1>6. Types' BY <1>2, <1>3, <1>4, <1>5 DEF Types, Moved
  <1>7. n \in 1 .. ReadCount' BY <1>1, <1>6, ReadCountsFitNext
  <1>8. ASSUME ~crossed'
        PROVE  /\ Sound' /\ EmptySound'
               /\ (service # NoSeed <=> status = "unlocked")'
               /\ (status = "unlocked" => vault = service)'
               /\ AddressesAreAccounts'
    <2>1. ~crossed BY <1>2, <1>8
    <2>2. /\ Only(t) /\ status = "empty" /\ task[t].seed \in Seeds
          /\ vault = task[t].seed
      BY <1>2, <2>1 DEF Inv, Sound, CreateSound
    <2>3. \A u \in Tasks : u # t => task'[u] = Idle BY <1>5, <2>2 DEF Only, Moved
    <2>4. /\ task'[t].op = "create" /\ task'[t].at = "derive"
          /\ task'[t].seed = task[t].seed /\ task'[t].n = n
      BY <1>2, <1>5 DEF Moved
    <2>5. Sound'
      BY <1>2, <1>7, <2>2, <2>3, <2>4, AloneSound
      DEF LoadSound, ResetSound, CreateSound, UnlockSound, AddSound, Only
    <2>6. EmptySound' BY <2>4 DEF EmptySound
    <2>7. service = NoSeed BY <2>1, <2>2 DEF Inv, KeysFollowStatus
    <2> QED BY <1>2, <2>2, <2>5, <2>6, <2>7 DEF AddressesAreAccounts
  <1> QED BY <1>6, <1>8, EnoughUncrossed

LEMMA DerivedProperties ==
    ASSUME NEW seed \in Seed, NEW n \in Nat
    PROVE  /\ Derived(seed, n) \in Seq(Seed \X Nat) /\ Len(Derived(seed, n)) = n
           /\ Append(Derived(seed, n), <<seed, n>>) = Derived(seed, n + 1)
  <1> DEFINE d == Derived(seed, n)
  <1>1. d \in Seq(Seed \X Nat) /\ Len(d) = n /\ \A i \in 1 .. n : d[i] = <<seed, i - 1>>
    BY DEF Derived
  <1>2. <<seed, n>> \in Seed \X Nat OBVIOUS
  <1> DEFINE a == Append(d, <<seed, n>>)
  <1> HIDE DEF d
  <1>3. /\ a \in Seq(Seed \X Nat) /\ Len(a) = n + 1 /\ a[n + 1] = <<seed, n>>
        /\ \A i \in 1 .. n : a[i] = d[i]
    BY <1>1, <1>2, AppendProperties
  <1> HIDE DEF a
  <1>4. \A i \in 1 .. n + 1 : a[i] = <<seed, i - 1>>
    <2> SUFFICES ASSUME NEW i \in 1 .. n + 1 PROVE a[i] = <<seed, i - 1>>
      OBVIOUS
    <2>1. CASE i = n + 1
      <3>1. i - 1 = n BY <2>1
      <3> QED BY <1>3, <2>1, <3>1
    <2>2. CASE i # n + 1
      <3>1. i \in 1 .. n BY <2>2
      <3> QED BY <1>1, <1>3, <3>1
    <2> QED BY <2>1, <2>2
  <1>5. a = [i \in 1 .. n + 1 |-> <<seed, i - 1>>]
    <2>1. DOMAIN a = 1 .. n + 1 /\ a = [i \in DOMAIN a |-> a[i]] BY <1>3
    <2> QED BY <1>4, <2>1
  <1> QED BY <1>1, <1>5 DEF a, d, Derived

(* A wallet opens: it is the stored one, with no more accounts than stored. *)
LEMMA OpenedKeeps ==
    ASSUME Inv, NEW t \in Tasks, OpenEnd(t), Opened(t, OpenStatus),
           unopened' = FALSE, unstored' = FALSE
    PROVE  Inv'
  <1>1. /\ task[t].op \in {"unlock", "create"} /\ task[t].at = "derive"
        /\ service' = task[t].seed /\ addresses' = Derived(task[t].seed, task[t].n)
        /\ accountIndex' = 0 /\ status' = "unlocked" /\ Ended(t)
        /\ UNCHANGED <<vault, count, crossed, staleAdd, misread>>
        /\ unopened' = FALSE /\ unstored' = FALSE
    BY DEF OpenEnd, Opened, OpenStatus, disk
  <1>2. Types BY DEF Inv
  <1>3. /\ task' \in [Tasks -> Operation]
        /\ \A u \in Tasks : task'[u].op = "none" => task'[u] = Idle
        /\ task'[t] = Idle /\ task'[t].op = "none"
        /\ \A u \in Tasks : u # t => task'[u] = task[u]
    BY <1>1, <1>2, EndStep, IdleOperation
  <1>4. /\ task[t].seed \in Seed /\ task[t].n \in Nat /\ task[t] # Idle
        /\ addresses' \in Seq(Seed \X Nat) /\ Len(addresses') = task[t].n
    BY <1>1, <1>2, FieldTypes, DerivedProperties
  <1>5. Types' BY <1>1, <1>2, <1>3, <1>4 DEF Types
  <1>6. ASSUME ~crossed'
        PROVE  /\ Sound' /\ EmptySound'
               /\ (service # NoSeed <=> status = "unlocked")'
               /\ (status = "unlocked" => vault = service)'
               /\ AddressesAreAccounts'
    <2>1. ~crossed BY <1>1, <1>6
    <2>2. /\ task[t].seed = vault /\ vault # NoSeed
          /\ \A u \in Tasks : u # t => task[u].op \in {"none", "add"}
          /\ ~staleAdd => task[t].n \in 1 .. ReadCount
      <3>1. CreateSound(t) /\ UnlockSound(t) BY <2>1 DEF Inv, Sound
      <3>2. CASE task[t].op = "unlock" BY <1>1, <3>1, <3>2 DEF UnlockSound
      <3>3. CASE task[t].op = "create"
        BY <1>1, <3>1, <3>3, IdleOperation, SessionAssumption DEF CreateSound, Only, ReadCount
      <3> QED BY <1>1, <3>2, <3>3
    <2>3. ASSUME NEW u \in Tasks
          PROVE  /\ LoadSound(u)' /\ ResetSound(u)' /\ CreateSound(u)'
                 /\ UnlockSound(u)' /\ AddSound(u)'
      <3>1. task'[u].op \in {"none", "add"} /\ (task'[u].op = "add" => u # t)
        BY <1>3, <2>2
      <3>2. ASSUME task'[u].op = "add" PROVE staleAdd
        <4>1. u # t /\ task[u].op = "add" BY <1>3, <3>1, <3>2
        <4>2. AddSound(u) BY <2>1 DEF Inv, Sound
        <4> QED BY <1>4, <4>1, <4>2 DEF AddSound, Only
      <3>3. AddSound(u)' BY <1>1, <3>2 DEF AddSound
      <3> QED BY <3>1, <3>3 DEF LoadSound, ResetSound, CreateSound, UnlockSound
    <2>4. Sound' BY <2>3 DEF Sound
    <2>5. AddressesAreAccounts'
      <3>1. addresses' = Derived(service', Len(addresses')) BY <1>1, <1>4
      <3>2. ASSUME ~staleAdd
            PROVE  accountIndex' < Len(addresses') /\ Len(addresses') <= ReadCount'
        <4>1. Len(addresses') \in 1 .. ReadCount BY <1>4, <2>2, <3>2
        <4>2. ReadCount' = ReadCount BY <1>1 DEF ReadCount
        <4>3. ReadCount \in Nat /\ ReadCount > 0 BY <1>2 DEF Types, ReadCount
        <4> QED BY <1>1, <4>1, <4>2, <4>3
      <3> QED BY <1>1, <3>1, <3>2 DEF AddressesAreAccounts
    <2>6. EmptySound' BY <1>1 DEF EmptySound
    <2> QED BY <1>1, <2>2, <2>4, <2>5, <2>6
  <1> QED BY <1>5, <1>6, EnoughUncrossed

(* It may fail to open: then the session is as before, and a new wallet    *)
(* that was stored is remembered.                                          *)
LEMMA OpenEndKeeps ==
    ASSUME Inv, NEW t \in Tasks, OpenEnd(t)
    PROVE  Inv'
  <1>1. CASE Opened(t, OpenStatus) /\ unopened' = FALSE /\ unstored' = FALSE
    BY <1>1, OpenedKeeps
  <1>2. CASE /\ unopened' = (unopened \/ task[t].op = "create")
             /\ UNCHANGED <<view, unstored>>
    <2>1. /\ Ended(t) /\ UNCHANGED <<disk, view, crossed, staleAdd, misread, unstored>>
          /\ unopened' = (unopened \/ task[t].op = "create")
      BY <1>2 DEF OpenEnd
    <2>2. unopened' \in BOOLEAN BY <2>1 DEF Inv, Types
    <2>3. unopened => unopened' BY <2>1
    <2> QED BY <2>1, <2>2, <2>3, FailureKeeps
  <1> QED BY <1>1, <1>2 DEF OpenEnd

LEMMA ResetDeleteKeeps ==
    ASSUME Inv, NEW t \in Tasks, ResetDelete(t)
    PROVE  Inv'
  <1>1. /\ task[t].op = "reset" /\ task[t].at = "delete"
        /\ UNCHANGED <<count, status, service, addresses, accountIndex,
                       crossed, staleAdd, misread, unopened, unstored>>
    BY DEF ResetDelete, view, past
  <1>2. Types BY DEF Inv
  <1>3. CASE vault' = NoSeed /\ Goto(t, "deleted")
    <2>1. task[t].seed \in Seed /\ "deleted" \in Ats /\ task[t].op # "none"
      BY <1>1, <1>2, FieldTypes DEF Ats
    <2>2. Moved(t, "deleted", task[t].seed, task[t].n) BY <1>2, <1>3, <2>1, GotoStep
    <2>3. Types' BY <1>1, <1>2, <1>3, <2>1, <2>2 DEF Types, Moved, Seed
    <2>4. ASSUME ~crossed'
          PROVE  /\ Sound' /\ EmptySound'
                 /\ (service # NoSeed <=> status = "unlocked")'
                 /\ (status = "unlocked" => vault = service)'
                 /\ AddressesAreAccounts'
      <3>1. ~crossed BY <1>1, <2>4
      <3>2. Only(t) /\ status = "locked" BY <1>1, <3>1 DEF Inv, Sound, ResetSound
      <3>3. \A u \in Tasks : u # t => task'[u] = Idle BY <2>2, <3>2 DEF Only, Moved
      <3>4. task'[t].op = "reset" BY <1>1, <2>2 DEF Moved
      <3>5. Sound'
        BY <1>1, <1>3, <3>2, <3>3, <3>4, AloneSound
        DEF LoadSound, ResetSound, CreateSound, UnlockSound, AddSound, Only
      <3>6. service = NoSeed BY <3>1, <3>2 DEF Inv, KeysFollowStatus
      <3> QED BY <1>1, <3>2, <3>5, <3>6 DEF AddressesAreAccounts, EmptySound
    <2> QED BY <2>3, <2>4, EnoughUncrossed
  <1>4. CASE UNCHANGED vault /\ Ended(t)
    <2>1. UNCHANGED <<disk, view, past>> BY <1>1, <1>4 DEF disk, view, past
    <2> QED BY <1>1, <1>4, <2>1, EndsKeeps
  <1> QED BY <1>3, <1>4 DEF ResetDelete

LEMMA ResetEndKeeps ==
    ASSUME Inv, NEW t \in Tasks, ResetEnd(t)
    PROVE  Inv'
  <1>1. /\ task[t].op = "reset" /\ task[t].at = "deleted" /\ Ended(t)
        /\ count' \in {0, count} /\ status' = "empty"
        /\ UNCHANGED <<vault, service, addresses, accountIndex,
                       crossed, staleAdd, misread, unopened, unstored>>
    BY DEF ResetEnd, past
  <1>2. Types BY DEF Inv
  <1>3. /\ task' \in [Tasks -> Operation]
        /\ \A u \in Tasks : task'[u].op = "none" => task'[u] = Idle
        /\ task'[t] = Idle /\ task'[t].op = "none"
        /\ \A u \in Tasks : u # t => task'[u] = task[u]
    BY <1>1, <1>2, EndStep, IdleOperation
  <1>4. Types' BY <1>1, <1>2, <1>3 DEF Types
  <1>5. ASSUME ~crossed'
        PROVE  /\ Sound' /\ EmptySound'
               /\ (service # NoSeed <=> status = "unlocked")'
               /\ (status = "unlocked" => vault = service)'
               /\ AddressesAreAccounts'
    <2>1. ~crossed BY <1>1, <1>5
    <2>2. Only(t) /\ status = "locked" /\ vault = NoSeed
      BY <1>1, <2>1 DEF Inv, Sound, ResetSound
    <2>3. \A u \in Tasks : u # t => task'[u] = Idle BY <1>3, <2>2 DEF Only
    <2>4. Sound'
      BY <1>3, <2>3, AloneSound DEF LoadSound, ResetSound, CreateSound, UnlockSound, AddSound
    <2>5. service = NoSeed BY <2>1, <2>2 DEF Inv, KeysFollowStatus
    <2> QED BY <1>1, <2>2, <2>4, <2>5 DEF AddressesAreAccounts, EmptySound
  <1> QED BY <1>4, <1>5, EnoughUncrossed

(* An address arrives.  It is the next of the open wallet unless another   *)
(* operation began meanwhile, which staleAdd remembers.                    *)
LEMMA AddEndKeeps ==
    ASSUME Inv, NEW t \in Tasks, AddEnd(t)
    PROVE  Inv'
  <1>1. /\ task[t].op = "add" /\ Ended(t)
        /\ UNCHANGED <<vault, status, service, crossed, staleAdd, misread, unopened>>
    BY DEF AddEnd
  <1>2. CASE UNCHANGED <<addresses, accountIndex, count, unstored>>
    <2>1. UNCHANGED <<disk, view, past>> BY <1>1, <1>2 DEF disk, view, past
    <2> QED BY <1>1, <2>1, EndsKeeps
  <1>3. CASE /\ addresses' = Append(addresses, <<task[t].seed, task[t].n>>)
             /\ accountIndex' = task[t].n
             /\ \/ count' = task[t].n + 1 /\ unstored' = FALSE
                \/ UNCHANGED count /\ unstored' = TRUE
    <2>1. Types BY DEF Inv
    <2>2. /\ task' \in [Tasks -> Operation]
          /\ \A u \in Tasks : task'[u].op = "none" => task'[u] = Idle
          /\ task'[t] = Idle /\ task'[t].op = "none"
          /\ \A u \in Tasks : u # t => task'[u] = task[u]
      BY <1>1, <2>1, EndStep, IdleOperation
    <2>3. task[t].seed \in Seed /\ task[t].n \in Nat /\ task[t] # Idle
      BY <1>1, <2>1, FieldTypes
    <2>4. addresses' \in Seq(Seed \X Nat) /\ count' \in Nat /\ accountIndex' \in Nat
      <3>1. <<task[t].seed, task[t].n>> \in Seed \X Nat BY <2>3
      <3>2. addresses \in Seq(Seed \X Nat) BY <2>1 DEF Types
      <3>3. count' \in Nat BY <1>3, <2>1, <2>3 DEF Types
      <3> QED BY <1>3, <2>3, <3>1, <3>2, <3>3, AppendProperties
    <2>5. unstored' \in BOOLEAN BY <1>3
    <2>6. Types' BY <1>1, <2>1, <2>2, <2>4, <2>5 DEF Types
    <2>7. ASSUME ~crossed'
          PROVE  /\ Sound' /\ EmptySound'
                 /\ (service # NoSeed <=> status = "unlocked")'
                 /\ (status = "unlocked" => vault = service)'
                 /\ AddressesAreAccounts'
      <3>1. ~crossed BY <1>1, <2>7
      <3>2. AddSound(t) BY <3>1 DEF Inv, Sound
      <3>3. Sound'
        <4>1. CASE ~staleAdd
          <5>1. \A u \in Tasks : u # t => task'[u] = Idle
            BY <1>1, <2>2, <3>2, <4>1 DEF AddSound, Only
          <5> QED BY <2>2, <5>1, AloneSound
              DEF LoadSound, ResetSound, CreateSound, UnlockSound, AddSound
        <4>2. CASE staleAdd
          <5> SUFFICES ASSUME NEW u \in Tasks, u # t
                       PROVE  /\ LoadSound(u)' /\ ResetSound(u)' /\ CreateSound(u)'
                              /\ UnlockSound(u)' /\ AddSound(u)'
            BY <2>2 DEF Sound, LoadSound, ResetSound, CreateSound, UnlockSound, AddSound
          <5>1. /\ LoadSound(u) /\ ResetSound(u) /\ CreateSound(u)
                /\ UnlockSound(u) /\ AddSound(u)
            BY <3>1 DEF Inv, Sound
          <5>2. task[u].op \notin {"load", "reset", "create"}
            BY <2>3, <5>1 DEF LoadSound, ResetSound, CreateSound, Only
          <5>3. \A v \in Tasks : task'[v].op = task[v].op \/ task'[v].op = "none" BY <2>2
          <5> QED BY <1>1, <2>2, <4>2, <5>1, <5>2, <5>3
              DEF LoadSound, ResetSound, CreateSound, UnlockSound, AddSound
        <4> QED BY <4>1, <4>2
      <3>4. EmptySound' BY <1>1, <3>2 DEF EmptySound, AddSound
      <3>5. AddressesAreAccounts'
        <4> SUFFICES ASSUME status = "unlocked", ~staleAdd
                     PROVE  /\ addresses' = Derived(service, Len(addresses'))
                            /\ accountIndex' < Len(addresses')
                            /\ Len(addresses') <= ReadCount' \/ unstored'
          BY <1>1 DEF AddressesAreAccounts
        <4>1. task[t].seed = service /\ task[t].n = Len(addresses)
          BY <1>1, <3>2 DEF AddSound
        <4>2. addresses = Derived(service, task[t].n)
          BY <3>1, <4>1 DEF Inv, AddressesAreAccounts
        <4>3. /\ addresses' = Derived(service, task[t].n + 1)
              /\ Len(addresses') = task[t].n + 1
          <5>1. task[t].n + 1 \in Nat /\ service \in Seed BY <2>1, <2>3 DEF Types
          <5> QED BY <1>3, <2>3, <4>1, <4>2, <5>1, DerivedProperties
        <4>4. task[t].n + 1 <= ReadCount' \/ unstored' BY <1>3, <2>3 DEF ReadCount
        <4> QED BY <1>3, <2>3, <4>3, <4>4
      <3>6. /\ service # NoSeed <=> status = "unlocked"
            /\ status = "unlocked" => vault = service
        BY <3>1 DEF Inv, KeysFollowStatus, SessionIsStored
      <3> QED BY <1>1, <3>3, <3>4, <3>5, <3>6
    <2> QED BY <2>6, <2>7, EnoughUncrossed
  <1> QED BY <1>2, <1>3 DEF AddEnd

-----------------------------------------------------------------------------
(* Starting an operation.  What is under way already either cannot be,     *)
(* given the page that offers the operation, or is remembered.             *)

LEMMA StartUnlockKeeps ==
    ASSUME Inv, NEW t \in Tasks, StartUnlock(t)
    PROVE  Inv'
  <1>1. /\ status = "locked" /\ ~Running("unlock") /\ Start(t, "unlock", "read", NoSeed, 0)
        /\ crossed' = (crossed \/ Running("reset") \/ Running("create"))
        /\ staleAdd' = (staleAdd \/ Running("add"))
        /\ UNCHANGED <<vault, count, status, service, addresses, accountIndex, misread, unopened, unstored>>
    BY DEF StartUnlock, disk, view
  <1>2. Types BY DEF Inv
  <1>3. NoSeed \in Seed /\ 0 \in Nat BY DEF Seed
  <1>4. /\ task' \in [Tasks -> Operation]
        /\ \A u \in Tasks : task'[u].op = "none" => task'[u] = Idle
        /\ \A u \in Tasks : u # t => task'[u] = task[u]
        /\ task'[t].op = "unlock" /\ task'[t].at = "read"
    BY <1>1, <1>2, <1>3, StartStep DEF Ops, Ats
  <1>5. Types' BY <1>1, <1>2, <1>4 DEF Types
  <1>6. ASSUME ~crossed'
        PROVE  /\ Sound' /\ EmptySound'
               /\ (service # NoSeed <=> status = "unlocked")'
               /\ (status = "unlocked" => vault = service)'
               /\ AddressesAreAccounts'
    <2>1. ~crossed /\ ~Running("reset") /\ ~Running("create") BY <1>1, <1>6
    <2>2. ASSUME NEW u \in Tasks, u # t
          PROVE  task'[u] = task[u] /\ task[u].op \in {"none", "add"}
      <3>1. task[u].op \in Ops BY <1>2, FieldTypes
      <3>2. LoadSound(u) BY <2>1 DEF Inv, Sound
      <3> QED BY <1>1, <1>4, <2>1, <2>2, <3>1, <3>2 DEF Running, LoadSound, Ops
    <2>3. UnlockSound(t)' BY <1>1, <1>4, <2>2 DEF UnlockSound
    <2>4. ASSUME NEW u \in Tasks, u # t, task[u].op = "add" PROVE staleAdd'
      BY <1>1, <2>4 DEF Running
    <2>5. Sound'
      BY <1>1, <1>4, <2>2, <2>3, <2>4
      DEF Sound, LoadSound, ResetSound, CreateSound, UnlockSound, AddSound
    <2>6. service = NoSeed BY <1>1, <2>1 DEF Inv, KeysFollowStatus
    <2> QED BY <1>1, <2>5, <2>6 DEF AddressesAreAccounts, EmptySound
  <1> QED BY <1>5, <1>6, EnoughUncrossed

LEMMA StartCreateKeeps ==
    ASSUME Inv, NEW t \in Tasks, NEW s \in Seeds, StartCreate(t, s)
    PROVE  Inv'
  <1>1. /\ status = "empty" /\ ~Running("create") /\ Start(t, "create", "encrypt", s, 0)
        /\ crossed' = (crossed \/ Running("reset") \/ Running("unlock"))
        /\ UNCHANGED <<vault, count, status, service, addresses, accountIndex,
                       staleAdd, misread, unopened, unstored>>
    BY DEF StartCreate, disk, view
  <1>2. Types BY DEF Inv
  <1>3. s \in Seed /\ 0 \in Nat BY DEF Seed
  <1>4. /\ task' \in [Tasks -> Operation]
        /\ \A u \in Tasks : task'[u].op = "none" => task'[u] = Idle
        /\ \A u \in Tasks : u # t => task'[u] = task[u]
        /\ task'[t].op = "create" /\ task'[t].at = "encrypt" /\ task'[t].seed = s
    BY <1>1, <1>2, <1>3, StartStep DEF Ops, Ats
  <1>5. Types' BY <1>1, <1>2, <1>4 DEF Types
  <1>6. ASSUME ~crossed'
        PROVE  /\ Sound' /\ EmptySound'
               /\ (service # NoSeed <=> status = "unlocked")'
               /\ (status = "unlocked" => vault = service)'
               /\ AddressesAreAccounts'
    <2>1. ~crossed /\ ~Running("reset") /\ ~Running("unlock") BY <1>1, <1>6
    <2>2. \A u \in Tasks : u # t => task'[u] = Idle
      <3> SUFFICES ASSUME NEW u \in Tasks, u # t PROVE task[u] = Idle
        BY <1>4
      <3>1. task[u].op \in Ops /\ (task[u].op = "none" => task[u] = Idle) BY <1>2, FieldTypes
      <3>2. LoadSound(u) /\ AddSound(u) BY <2>1 DEF Inv, Sound
      <3> QED BY <1>1, <2>1, <3>1, <3>2 DEF Running, LoadSound, AddSound, Ops
    <2>3. vault = NoSeed \/ misread \/ unopened BY <1>1, <2>1 DEF Inv, EmptySound, Running
    <2>4. Sound'
      BY <1>1, <1>4, <2>2, <2>3, AloneSound
      DEF LoadSound, ResetSound, CreateSound, UnlockSound, AddSound, Only
    <2>5. service = NoSeed BY <1>1, <2>1 DEF Inv, KeysFollowStatus
    <2> QED BY <1>1, <2>3, <2>4, <2>5 DEF AddressesAreAccounts, EmptySound
  <1> QED BY <1>5, <1>6, EnoughUncrossed

LEMMA StartResetKeeps ==
    ASSUME Inv, NEW t \in Tasks, StartReset(t)
    PROVE  Inv'
  <1>1. /\ Start(t, "reset", "delete", NoSeed, 0)
        /\ status' = "locked" /\ service' = NoSeed /\ addresses' = <<>>
        /\ crossed' = (crossed \/ \E u \in Tasks : task[u] # Idle)
        /\ UNCHANGED <<vault, count, accountIndex, staleAdd, misread, unopened, unstored>>
    BY DEF StartReset, Locked, LockedService, disk
  <1>2. Types BY DEF Inv
  <1>3. NoSeed \in Seed /\ 0 \in Nat /\ <<>> \in Seq(Seed \X Nat) BY DEF Seed
  <1>4. /\ task' \in [Tasks -> Operation]
        /\ \A u \in Tasks : task'[u].op = "none" => task'[u] = Idle
        /\ \A u \in Tasks : u # t => task'[u] = task[u]
        /\ task'[t].op = "reset" /\ task'[t].at = "delete"
    BY <1>1, <1>2, <1>3, StartStep DEF Ops, Ats
  <1>5. Types' BY <1>1, <1>2, <1>3, <1>4 DEF Types
  <1>6. ASSUME ~crossed' PROVE Sound'
    <2>1. \A u \in Tasks : u # t => task'[u] = Idle BY <1>1, <1>4, <1>6
    <2> QED BY <1>1, <1>4, <2>1, AloneSound
        DEF LoadSound, ResetSound, CreateSound, UnlockSound, AddSound, Only
  <1>7. AddressesAreAccounts' /\ EmptySound' BY <1>1 DEF AddressesAreAccounts, EmptySound
  <1> QED BY <1>1, <1>5, <1>6, <1>7, EnoughUncrossed

LEMMA StartAddKeeps ==
    ASSUME Inv, NEW t \in Tasks, StartAdd(t)
    PROVE  Inv'
  <1>1. /\ status = "unlocked" /\ service # NoSeed
        /\ Start(t, "add", "derive", service, Len(addresses))
        /\ staleAdd' = (staleAdd \/ Running("add"))
        /\ crossed' = (crossed \/ Running("reset"))
        /\ UNCHANGED <<vault, count, status, service, addresses, accountIndex, misread, unopened, unstored>>
    BY DEF StartAdd, NextAccount, disk, view
  <1>2. Types BY DEF Inv
  <1>3. service \in Seed /\ Len(addresses) \in Nat BY <1>2 DEF Types
  <1>4. /\ task' \in [Tasks -> Operation]
        /\ \A u \in Tasks : task'[u].op = "none" => task'[u] = Idle
        /\ \A u \in Tasks : u # t => task'[u] = task[u]
        /\ task'[t].op = "add" /\ task'[t].seed = service /\ task'[t].n = Len(addresses)
    BY <1>1, <1>2, <1>3, StartStep DEF Ops, Ats
  <1>5. Types' BY <1>1, <1>2, <1>4 DEF Types
  <1>6. ASSUME ~crossed'
        PROVE  /\ Sound' /\ EmptySound'
               /\ (service # NoSeed <=> status = "unlocked")'
               /\ (status = "unlocked" => vault = service)'
               /\ AddressesAreAccounts'
    <2>1. ~crossed /\ ~Running("reset") BY <1>1, <1>6
    <2>2. ASSUME NEW u \in Tasks, u # t
          PROVE  /\ task'[u] = task[u] /\ task[u].op \in {"none", "add"}
                 /\ task[u].op = "none" => task[u] = Idle
      <3>1. task[u].op \in Ops /\ (task[u].op = "none" => task[u] = Idle) BY <1>2, FieldTypes
      <3>2. LoadSound(u) /\ CreateSound(u) /\ UnlockSound(u) BY <2>1 DEF Inv, Sound
      <3> QED BY <1>1, <1>4, <2>1, <2>2, <3>1, <3>2
          DEF Running, LoadSound, CreateSound, UnlockSound, Ops
    <2>3. ASSUME ~staleAdd', NEW u \in Tasks, u # t PROVE task'[u] = Idle
      BY <1>1, <2>2, <2>3 DEF Running
    <2>4. AddSound(t)' BY <1>1, <1>4, <2>3 DEF AddSound, Only
    <2>5. ASSUME NEW u \in Tasks, u # t, task[u].op = "add" PROVE AddSound(u)'
      BY <1>1, <2>5 DEF AddSound, Running
    <2>6. Sound'
      BY <1>4, <2>2, <2>4, <2>5
      DEF Sound, LoadSound, ResetSound, CreateSound, UnlockSound, AddSound
    <2>7. /\ service # NoSeed <=> status = "unlocked"
          /\ status = "unlocked" => vault = service
      BY <2>1 DEF Inv, KeysFollowStatus, SessionIsStored
    <2>8. AddressesAreAccounts'
      BY <1>1, <2>1 DEF Inv, AddressesAreAccounts, ReadCount, Derived
    <2> QED BY <1>1, <2>6, <2>7, <2>8 DEF EmptySound
  <1> QED BY <1>5, <1>6, EnoughUncrossed

(* Locking leaves the additions under way to end over a closed session. *)
LEMMA LockKeeps ==
    ASSUME Inv, Lock
    PROVE  Inv'
  <1>1. /\ status = "unlocked" /\ status' = "locked" /\ service' = NoSeed
        /\ addresses' = <<>>
        /\ UNCHANGED <<vault, count, accountIndex, task, crossed, staleAdd, misread, unopened, unstored>>
    BY DEF Lock, Locked, LockedService, disk, past
  <1>2. Types'
    <2>1. NoSeed \in Seed /\ <<>> \in Seq(Seed \X Nat) BY DEF Seed
    <2> QED BY <1>1, <2>1 DEF Inv, Types
  <1>3. ASSUME ~crossed' PROVE Sound'
    <2> SUFFICES ASSUME NEW u \in Tasks
                 PROVE  /\ LoadSound(u)' /\ ResetSound(u)' /\ CreateSound(u)'
                        /\ UnlockSound(u)' /\ AddSound(u)'
      BY DEF Sound
    <2>1. /\ LoadSound(u) /\ ResetSound(u) /\ CreateSound(u)
          /\ UnlockSound(u) /\ AddSound(u)
      BY <1>1, <1>3 DEF Inv, Sound
    <2> QED BY <1>1, <2>1
        DEF LoadSound, ResetSound, CreateSound, UnlockSound, AddSound, Only
  <1>4. AddressesAreAccounts' /\ EmptySound' BY <1>1 DEF AddressesAreAccounts, EmptySound
  <1> QED BY <1>1, <1>2, <1>3, <1>4, EnoughUncrossed

LEMMA SelectAccountKeeps ==
    ASSUME Inv, NEW i \in 0 .. MaxOps, SelectAccount(i)
    PROVE  Inv'
  <1>1. /\ i < Len(addresses) /\ accountIndex' = i
        /\ UNCHANGED <<vault, count, status, service, addresses, task,
                       crossed, staleAdd, misread, unopened, unstored>>
    BY DEF SelectAccount, disk, past
  <1>2. Types' BY <1>1 DEF Inv, Types
  <1>3. ASSUME ~crossed PROVE Sound' /\ EmptySound'
    BY <1>1, <1>3
    DEF Inv, Sound, EmptySound, LoadSound, ResetSound, CreateSound, UnlockSound, AddSound,
        Only, ReadCount
  <1>4. AddressesAreAccounts' BY <1>1 DEF Inv, AddressesAreAccounts, ReadCount, Derived
  <1>5. KeysFollowStatus' /\ SessionIsStored'
    BY <1>1 DEF Inv, KeysFollowStatus, SessionIsStored
  <1> QED BY <1>1, <1>2, <1>3, <1>4, <1>5 DEF Inv

LEMMA ReloadKeeps ==
    ASSUME Inv, Reload
    PROVE  Inv'
  <1>1. vault' \in Seed /\ count' \in Nat BY DEF Inv, Types, Reload, disk
  <1>2. Fresh' BY <1>1 DEF Reload, Loading, Fresh
  <1> QED BY <1>2, FreshSoundNext

LEMMA StutterKeeps ==
    ASSUME Inv, UNCHANGED vars
    PROVE  Inv'
  <1> USE DEF vars, disk, view, past
  <1>1. Types' BY DEF Inv, Types
  <1>2. Sound => Sound'
    BY DEF Sound, LoadSound, ResetSound, CreateSound, UnlockSound, AddSound, Only, ReadCount
  <1>3. EmptySound => EmptySound' BY DEF EmptySound
  <1>4. KeysFollowStatus' /\ SessionIsStored' BY DEF Inv, KeysFollowStatus, SessionIsStored
  <1>5. AddressesAreAccounts' BY DEF Inv, AddressesAreAccounts, ReadCount, Derived
  <1> QED BY <1>1, <1>2, <1>3, <1>4, <1>5 DEF Inv

-----------------------------------------------------------------------------

(* A device with or without a wallet, whose page has just been opened, is  *)
(* in order.                                                               *)
THEOREM Initially == Init => Inv
  <1> SUFFICES ASSUME Init PROVE Fresh
    BY FreshSound
  <1>1. vault \in Seed /\ count \in Nat BY DEF Init
  <1> QED BY <1>1 DEF Init, Fresh

(* No step of any operation, started or resumed at any moment, disturbs    *)
(* the order.                                                              *)
THEOREM Step == Inv /\ [Next]_vars => Inv'
  <1> SUFFICES ASSUME Inv, [Next]_vars PROVE Inv'
    OBVIOUS
  <1>1. ASSUME NEW t \in Tasks, Resume(t) PROVE Inv'
    BY <1>1, LoadKeeps, UnlockReadKeeps, UnlockDecryptKeeps, CreateSaveKeeps, CreateCountKeeps,
       OpenEndKeeps, ResetDeleteKeeps, ResetEndKeeps, AddEndKeeps DEF Resume
  <1>2. ASSUME NEW t \in Tasks, StartUnlock(t) PROVE Inv' BY <1>2, StartUnlockKeeps
  <1>3. ASSUME NEW t \in Tasks, StartReset(t) PROVE Inv' BY <1>3, StartResetKeeps
  <1>4. ASSUME NEW t \in Tasks, StartAdd(t) PROVE Inv' BY <1>4, StartAddKeeps
  <1>5. ASSUME NEW t \in Tasks, NEW s \in Seeds, StartCreate(t, s) PROVE Inv'
    BY <1>5, StartCreateKeeps
  <1>6. CASE Lock BY <1>6, LockKeeps
  <1>7. ASSUME NEW i \in 0 .. MaxOps, SelectAccount(i) PROVE Inv' BY <1>7, SelectAccountKeeps
  <1>8. CASE Reload BY <1>8, ReloadKeeps
  <1>9. CASE UNCHANGED vars BY <1>9, StutterKeeps
  <1> QED BY <1>1, <1>2, <1>3, <1>4, <1>5, <1>6, <1>7, <1>8, <1>9 DEF Next

(* The session is always in order: the invariant the others follow from.   *)
THEOREM Invariance == Spec => []Inv
  BY Initially, Step, PTL DEF Spec

(* While nothing crossed, keys are in memory exactly in an unlocked        *)
(* session, however operations and locks interleave (WalletProvider).      *)
THEOREM KeysOnlyInASession == Spec => []KeysFollowStatus
  <1>1. Inv => KeysFollowStatus BY DEF Inv
  <1> QED BY <1>1, Invariance, PTL

(* An open wallet is the one the vault holds: closing the page never loses *)
(* it.                                                                     *)
THEOREM OpenWalletIsStored == Spec => []SessionIsStored
  <1>1. Inv => SessionIsStored BY DEF Inv
  <1> QED BY <1>1, Invariance, PTL

(* The addresses shown are those of the open wallet's accounts, in order,  *)
(* the selected one exists, and the count stored covers them all, unless   *)
(* localStorage refused the last one (addAccount, createWallet, open).     *)
THEOREM AddressesShownAreAccounts == Spec => []AddressesAreAccounts
  <1>1. Inv => AddressesAreAccounts BY DEF Inv
  <1> QED BY <1>1, Invariance, PTL

(* createWallet never writes over a stored vault, unless that vault could  *)
(* not be read when the page loaded, or holds a new wallet that failed to  *)
(* open: a vault changes only to none.                                     *)
THEOREM StoredWalletStays == Spec => NeverOverwritten
  <1> DEFINE Kept == 
           vault # NoSeed /\ vault' # vault /\ ~crossed /\ ~misread /\ ~unopened => vault' = NoSeed
  <1>1. Inv /\ [Next]_vars => [Kept]_vars
    <2> SUFFICES ASSUME Inv, Next, vault # NoSeed, vault' # vault, ~crossed, ~misread,
                        ~unopened
                 PROVE  vault' = NoSeed
      BY DEF Kept, vars, disk
    <2>1. ASSUME NEW t \in Tasks, CreateSave(t) PROVE FALSE
      BY <2>1 DEF CreateSave, Inv, Sound, CreateSound
    <2>2. ASSUME NEW t \in Tasks, ResetDelete(t) PROVE vault' = NoSeed
      BY <2>2 DEF ResetDelete
    <2>3. ASSUME NEW t \in Tasks, Resume(t) PROVE CreateSave(t) \/ ResetDelete(t)
      BY <2>3 DEF Resume, Load, UnlockRead, UnlockDecrypt, CreateCount, OpenEnd, ResetEnd,
                  AddEnd, disk
    <2>4. ASSUME NEW t \in Tasks, StartUnlock(t) \/ StartReset(t) \/ StartAdd(t) PROVE FALSE
      BY <2>4 DEF StartUnlock, StartReset, StartAdd, disk
    <2>5. ASSUME NEW t \in Tasks, NEW s \in Seeds, StartCreate(t, s) PROVE FALSE
      BY <2>5 DEF StartCreate, disk
    <2>6. ~Lock /\ ~Reload BY DEF Lock, Reload, disk
    <2>7. ASSUME NEW i \in 0 .. MaxOps, SelectAccount(i) PROVE FALSE
      BY <2>7 DEF SelectAccount, disk
    <2> QED BY <2>1, <2>2, <2>3, <2>4, <2>5, <2>6, <2>7 DEF Next
  <1> QED BY <1>1, Invariance, PTL DEF Spec, NeverOverwritten, Kept
=============================================================================

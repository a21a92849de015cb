---------------------------- MODULE IndexerProofs ----------------------------
(***************************************************************************)
(* The safety of the indexer for any number of transactions, announcements,*)
(* runs, failures and crashes: the feed is in the order of the chain, the  *)
(* cursor never moves back and, as long as the look-back limit is not met, *)
(* leaves no gap behind it.                                                *)
(*                                                                         *)
(* A crash between insert and setCursor leaves rows ahead of the cursor,   *)
(* which the next run meets again and completes with newer ones.  The feed *)
(* stays in order because of Solid: whatever a run can still come to list, *)
(* and which lies before some row of the feed, is in the feed already.     *)
(***************************************************************************)
EXTENDS Indexer, FiniteSetTheorems, SequenceTheorems, TLAPS

LookBack == PAGE * MAX_PAGES

Row == [tx : Nat, position : Nat, id : Nat]

RunState ==
    [phase : {"idle", "listing", "fetching", "stored"},
     until : Nat, before : Nat, page : Nat, fresh : Seq(Nat)]

Types ==
    /\ chain \in Seq(0 .. MaxEvents) /\ Len(chain) <= MaxTx
    /\ rows \subseteq Row /\ lastId \in Nat
    /\ cursor \in Nat /\ base \in Nat
    /\ run \in [Runs -> RunState]

Active(r) == run[r].phase # "idle"

(* refresh shares one promise: at most one run is under way. *)
OneRun == \A r \in Runs : Active(r) <=> inflight = {r}

CursorSound ==
    /\ cursor <= Len(chain) /\ base <= cursor
    /\ cursor # 0 => cursor > Old

(* What a run lists: from the top of the chain at its first page down,     *)
(* without a gap.                                                          *)
Listing(r) ==
    LET s == run[r] IN
    /\ s.until = cursor
    /\ s.page = 0 => s.before = 0 /\ s.fresh = <<>>
    /\ s.page # 0 =>
          /\ s.page < MAX_PAGES
          /\ s.before > Old /\ s.before > s.until
          /\ Len(s.fresh) = PAGE * s.page
          /\ s.before + Len(s.fresh) <= Len(chain) + 1
          /\ \A i \in 1 .. Len(s.fresh) : s.fresh[i] = s.before + Len(s.fresh) - i

(* No later run starts before a, if this one started at a. *)
InReach(a) ==
    a <= cursor + 1 \/ a <= Old + 1 \/ a + LookBack <= Len(chain) + 1

(* What it processes: upwards from beyond the cursor, without a gap. *)
Processing(r) ==
    LET f == run[r].fresh IN
    /\ Len(f) > 0
    /\ \A i \in 1 .. Len(f) : f[i] = f[1] + i - 1
    /\ f[1] > Old /\ f[1] > cursor /\ f[1] + Len(f) <= Len(chain) + 1
    /\ InReach(f[1])
    /\ run[r].phase = "stored" => \A i \in 1 .. Len(Group(r)) : Indexed(f[i])

RunsSound ==
    \A r \in Runs :
        /\ run[r].phase = "listing" => Listing(r)
        /\ run[r].phase \in {"fetching", "stored"} => Processing(r)

(* The transactions a run that starts now could come to list, and those    *)
(* that one under way still can, or does.                                  *)
Listable(t, until, top) == t > until /\ t > Old /\ t + LookBack > top

Top(r) ==
    IF run[r].before = 0 THEN Len(chain) ELSE run[r].before - 1 + Len(run[r].fresh)

Sees(r, t) ==
    \/ run[r].phase = "listing" /\ Listable(t, run[r].until, Top(r))
    \/ run[r].phase \in {"fetching", "stored"} /\ t >= run[r].fresh[1]

MayStore(t) ==
    Listable(t, cursor, Len(chain)) \/ \E r \in Runs : Sees(r, t)

Solid ==
    \A t \in DOMAIN chain : MayStore(t) =>
        \A x \in rows : t <= x.tx => Indexed(t)

IdsSpent == \A x \in rows : x.id <= lastId

Inv == Types /\ OneRun /\ CursorSound /\ RunsSound /\ Solid /\ IdsSpent /\ FeedInOrder

LEMMA LookBackType == LookBack \in Nat \ {0}
  BY IndexerAssumption DEF LookBack

LEMMA ChainTypes ==
    ASSUME Types
    PROVE  /\ Len(chain) \in Nat /\ DOMAIN chain = 1 .. Len(chain)
           /\ \A t \in DOMAIN chain :
                 t \in Nat /\ chain[t] \in Nat /\ chain[t] <= MaxEvents
  <1>1. chain \in Seq(0 .. MaxEvents) /\ MaxEvents \in Nat
    BY IndexerAssumption DEF Types
  <1>2. Len(chain) \in Nat /\ DOMAIN chain = 1 .. Len(chain) BY <1>1
  <1>3. \A t \in 1 .. Len(chain) : chain[t] \in 0 .. MaxEvents
    BY <1>1, ElementOfSeq
  <1>4. \A k \in 0 .. MaxEvents : k \in Nat /\ k <= MaxEvents BY <1>1
  <1>5. \A t \in 1 .. Len(chain) : t \in Nat BY <1>2
  <1> QED BY <1>2, <1>3, <1>4, <1>5

LEMMA RunFieldTypes ==
    ASSUME Types, NEW r \in Runs
    PROVE  /\ run[r] \in RunState
           /\ run[r].phase \in {"idle", "listing", "fetching", "stored"}
           /\ run[r].until \in Nat /\ run[r].before \in Nat /\ run[r].page \in Nat
           /\ run[r].fresh \in Seq(Nat) /\ Len(run[r].fresh) \in Nat
  BY DEF Types, RunState

(* At the start there is nothing to be wrong about. *)
THEOREM Initially == IndexerInit => Inv
  <1> SUFFICES ASSUME IndexerInit PROVE Inv OBVIOUS
  <1> USE DEF IndexerInit
  <1>1. Idle \in RunState BY DEF Idle, RunState
  <1>2. Types BY <1>1, IndexerAssumption DEF Types
  <1>3. \A r \in Runs : run[r].phase = "idle" BY DEF Idle
  <1>4. OneRun BY <1>3 DEF OneRun, Active, NoRun
  <1>5. CursorSound BY DEF CursorSound
  <1>6. RunsSound BY <1>3 DEF RunsSound
  <1>7. Solid /\ IdsSpent /\ FeedInOrder BY DEF Solid, IdsSpent, FeedInOrder
  <1> QED BY <1>2, <1>4, <1>5, <1>6, <1>7 DEF Inv

(* Ending runs, by a failure, a crash or otherwise, disturbs nothing. *)
LEMMA EndedKeeps ==
    ASSUME Inv, UNCHANGED <<chain, rows, lastId, cursor, base>>,
           run' \in [Runs -> RunState], OneRun',
           \A r \in Runs : run'[r] = run[r] \/ run'[r].phase = "idle"
    PROVE  Inv'
  <1> USE DEF Inv
  <1>1. Types' BY DEF Types
  <1>2. CursorSound' BY DEF CursorSound
  <1>3. RunsSound'
    <2> SUFFICES ASSUME NEW r \in Runs, run'[r] = run[r]
                 PROVE  /\ run'[r].phase = "listing" => Listing(r)'
                        /\ run'[r].phase \in {"fetching", "stored"} => Processing(r)'
      BY DEF RunsSound
    <2>1. Listing(r)' <=> Listing(r) BY DEF Listing
    <2>2. \A t : Indexed(t)' <=> Indexed(t) BY DEF Indexed, Held
    <2>3. Processing(r)' <=> Processing(r) BY <2>2 DEF Processing, InReach, Group
    <2> QED BY <2>1, <2>3 DEF RunsSound
  <1>4. Solid'
    BY DEF Solid, MayStore, Sees, Top, Listable, Indexed, Held
  <1>5. IdsSpent' BY DEF IdsSpent
  <1>6. FeedInOrder' BY DEF FeedInOrder
  <1> QED BY <1>1, <1>2, <1>3, <1>4, <1>5, <1>6

LEMMA FinishKeeps ==
    ASSUME Inv, NEW r \in Runs, Active(r), Finish(r),
           UNCHANGED <<chain, rows, lastId, cursor, base>>
    PROVE  Inv'
  <1>1. Idle \in RunState /\ Idle.phase = "idle" BY DEF Idle, RunState
  <1>2. run' = [run EXCEPT ![r] = Idle] /\ inflight' = {} BY DEF Finish, FreedRun, NoRun
  <1>3. run' \in [Runs -> RunState] BY <1>1, <1>2 DEF Inv, Types
  <1>4. run'[r].phase = "idle" BY <1>1, <1>2 DEF Inv, Types
  <1>5. \A q \in Runs : q # r => run'[q] = run[q] /\ run[q].phase = "idle"
    BY <1>2 DEF Inv, Types, OneRun, Active
  <1>6. OneRun' BY <1>2, <1>4, <1>5 DEF OneRun, Active
  <1> QED BY <1>3, <1>4, <1>5, <1>6, EndedKeeps

(* A transaction lands: what could be listed before still could, or lies   *)
(* now beyond the look-back limit.                                         *)
LEMMA LandKeeps ==
    ASSUME Inv, NEW n \in 0 .. MaxEvents, Land(n)
    PROVE  Inv'
  <1> USE DEF Inv
  <1>1. UNCHANGED <<rows, lastId, cursor, run, inflight, base>> BY DEF Land
  <1>2. /\ chain \in Seq(0 .. MaxEvents) /\ Len(chain) \in Nat
        /\ chain' \in Seq(0 .. MaxEvents)
        /\ Len(chain') = Len(chain) + 1
        /\ DOMAIN chain' = 1 .. Len(chain) + 1 /\ DOMAIN chain = 1 .. Len(chain)
        /\ \A t \in DOMAIN chain : chain'[t] = chain[t]
    BY DEF Land, Types
  <1>3. Types' BY <1>1, <1>2, IndexerAssumption DEF Types, Land
  <1>4. OneRun' BY <1>1 DEF OneRun, Active
  <1>5. CursorSound' BY <1>1, <1>2, <1>3 DEF CursorSound, Types
  <1>6. \A t \in DOMAIN chain : Indexed(t)' <=> Indexed(t)
    BY <1>1, <1>2 DEF Indexed, Held
  <1>7. RunsSound'
    <2> SUFFICES ASSUME NEW r \in Runs
                 PROVE  /\ run'[r].phase = "listing" => Listing(r)'
                        /\ run'[r].phase \in {"fetching", "stored"} => Processing(r)'
      BY DEF RunsSound
    <2>1. ASSUME run[r].phase = "listing" PROVE Listing(r)'
      BY <1>1, <1>2, <2>1, RunFieldTypes DEF RunsSound, Listing
    <2>2. ASSUME run[r].phase \in {"fetching", "stored"} PROVE Processing(r)'
      <3>1. Processing(r) BY <2>2 DEF RunsSound
      <3>2. /\ run[r].fresh \in Seq(Nat) /\ Len(run[r].fresh) \in Nat
            /\ \A i \in 1 .. Len(run[r].fresh) : run[r].fresh[i] \in Nat
        BY RunFieldTypes
      <3>3. InReach(run[r].fresh[1])'
        <4>1. run[r].fresh[1] \in Nat BY <3>1, <3>2 DEF Processing
        <4>2. InReach(run[r].fresh[1]) BY <3>1 DEF Processing
        <4>3. cursor \in Nat /\ Old \in Nat BY IndexerAssumption DEF Types
        <4>4. UNCHANGED <<run, cursor>> BY <1>1
        <4> QED BY <1>2, <4>1, <4>2, <4>3, <4>4, LookBackType DEF InReach
      <3>4. /\ Group(r)' = Group(r)
            /\ \A i \in 1 .. Len(Group(r)) : i \in 1 .. Len(run[r].fresh)
        BY <1>1, <3>2, IndexerAssumption DEF Group
      <3>5. \A i \in 1 .. Len(run[r].fresh) : run[r].fresh[i] \in DOMAIN chain
        <4> SUFFICES ASSUME NEW i \in 1 .. Len(run[r].fresh)
                     PROVE  run[r].fresh[i] \in 1 .. Len(chain)
          BY <1>2
        <4>1. run[r].fresh[i] = run[r].fresh[1] + i - 1 BY <3>1 DEF Processing
        <4>2. run[r].fresh[1] \in Nat /\ run[r].fresh[i] \in Nat BY <3>1, <3>2 DEF Processing
        <4>3. run[r].fresh[1] > 0 /\ run[r].fresh[1] + Len(run[r].fresh) <= Len(chain) + 1
          BY <3>1, <4>2, IndexerAssumption DEF Processing
        <4>4. Len(chain) \in Nat /\ Len(run[r].fresh) \in Nat BY <1>2, <3>2
        <4>5. i \in Nat /\ 1 <= i /\ i <= Len(run[r].fresh) BY <4>4
        <4>6. 1 <= run[r].fresh[i] BY <4>1, <4>2, <4>3, <4>5
        <4>7. run[r].fresh[i] <= Len(chain) BY <4>1, <4>2, <4>3, <4>4, <4>5
        <4> QED BY <4>2, <4>4, <4>6, <4>7
      <3>6. run[r].phase = "stored" => \A i \in 1 .. Len(Group(r)) : Indexed(run[r].fresh[i])'
        <4> SUFFICES ASSUME run[r].phase = "stored", NEW i \in 1 .. Len(Group(r))
                     PROVE  Indexed(run[r].fresh[i])'
          OBVIOUS
        <4>1. Indexed(run[r].fresh[i]) BY <3>1 DEF Processing
        <4>2. run[r].fresh[i] \in DOMAIN chain BY <3>4, <3>5
        <4>3. Indexed(run[r].fresh[i])' <=> Indexed(run[r].fresh[i])
          BY <1>1, <1>2, <4>2 DEF Indexed, Held
        <4> QED BY <4>1, <4>3
      <3>7. (run[r].fresh[1] + Len(run[r].fresh) <= Len(chain) + 1)'
        BY <1>1, <1>2, <3>1, <3>2 DEF Processing
      <3> QED BY <1>1, <3>1, <3>3, <3>4, <3>6, <3>7 DEF Processing
    <2> QED BY <1>1, <2>1, <2>2
  <1>8. Solid'
    <2> SUFFICES ASSUME NEW t \in DOMAIN chain', MayStore(t)',
                        NEW x \in rows, t <= x.tx
                 PROVE  Indexed(t)'
      BY <1>1 DEF Solid
    <2>1. x.tx \in DOMAIN chain BY DEF FeedInOrder
    <2>2. t \in DOMAIN chain BY <1>2, <2>1
    <2>3. MayStore(t)
      <3>1. CASE Listable(t, cursor, Len(chain))'
        BY <1>1, <1>2, <2>2, <3>1, IndexerAssumption DEF MayStore, Listable, LookBack
      <3>2. ASSUME NEW r \in Runs, Sees(r, t)' PROVE Sees(r, t)
        BY <1>1, <1>2, <2>2, <3>2, RunFieldTypes, IndexerAssumption
           DEF Sees, Top, Listable, LookBack
      <3> QED BY <3>1, <3>2 DEF MayStore
    <2> QED BY <1>6, <2>2, <2>3 DEF Solid
  <1>9. IdsSpent' BY <1>1 DEF IdsSpent
  <1>10. FeedInOrder' BY <1>1, <1>2 DEF FeedInOrder
  <1> QED BY <1>3, <1>4, <1>5, <1>7, <1>8, <1>9, <1>10

(* A run that starts sees what any run that starts now would see. *)
LEMMA RefreshKeeps ==
    ASSUME Inv, NEW r \in Runs, Refresh(r)
    PROVE  Inv'
  <1> USE DEF Inv
  <1>1. /\ UNCHANGED <<chain, rows, lastId, cursor, base>>
        /\ inflight = {} /\ inflight' = {r}
        /\ run' = [run EXCEPT ![r] = [Idle EXCEPT !.phase = "listing", !.until = cursor]]
    BY DEF Refresh, NobodyRuns, NoRun
  <1>2. \A q \in Runs : run[q].phase = "idle" BY <1>1 DEF OneRun, Active
  <1>3. /\ run'[r] = [phase |-> "listing", until |-> cursor, before |-> 0, page |-> 0, fresh |-> <<>>]
        /\ \A q \in Runs \ {r} : run'[q] = run[q]
    BY <1>1 DEF Idle, Types
  <1>4. Types'
    <2>1. [phase |-> "listing", until |-> cursor, before |-> 0, page |-> 0, fresh |-> <<>>]
            \in RunState
      BY DEF RunState, Types
    <2>2. run' \in [Runs -> RunState]
      BY <1>1, <2>1 DEF Types, Idle
    <2> QED BY <1>1, <2>2 DEF Types
  <1>5. OneRun' BY <1>1, <1>2, <1>3 DEF OneRun, Active
  <1>6. CursorSound' BY <1>1 DEF CursorSound
  <1>7. RunsSound'
    <2>1. Listing(r)'
      <3>1. /\ run'[r].until = cursor' /\ run'[r].page = 0 /\ run'[r].before = 0
            /\ run'[r].fresh = <<>>
        BY <1>1 DEF Idle, Types
      <3> QED BY <3>1 DEF Listing
    <2>2. \A q \in Runs \ {r} : run'[q].phase = "idle" BY <1>2, <1>3
    <2>3. run'[r].phase = "listing" BY <1>3
    <2> QED BY <2>1, <2>2, <2>3 DEF RunsSound
  <1>8. \A t \in DOMAIN chain : MayStore(t)' => MayStore(t)
    <2> SUFFICES ASSUME NEW t \in DOMAIN chain, NEW q \in Runs, Sees(q, t)'
                 PROVE  Listable(t, cursor, Len(chain))
      BY <1>1 DEF MayStore, Listable
    <2>1. q = r BY <1>2, <1>3 DEF Sees
    <2>2. /\ run'[r].phase = "listing" /\ run'[r].until = cursor /\ run'[r].before = 0
      BY <1>3
    <2> QED BY <1>1, <2>1, <2>2 DEF Sees, Top, Listable
  <1>9. Solid' BY <1>1, <1>8 DEF Solid, Indexed, Held
  <1>10. IdsSpent' /\ FeedInOrder' BY <1>1 DEF IdsSpent, FeedInOrder
  <1> QED BY <1>4, <1>5, <1>6, <1>7, <1>9, <1>10

-----------------------------------------------------------------------------
(* Listing.                                                                *)

PageTop(r) == Top(r) - Len(run[r].fresh)

(* What a run has listed so far, however many pages it has seen. *)
LEMMA ListedSoFar ==
    ASSUME Inv, NEW r \in Runs, run[r].phase = "listing"
    PROVE  /\ Top(r) \in Nat /\ Top(r) <= Len(chain)
           /\ PageTop(r) \in Nat
           /\ PageTop(r) = IF run[r].before = 0 THEN Len(chain) ELSE run[r].before - 1
           /\ run[r].page \in Nat /\ run[r].page < MAX_PAGES
           /\ run[r].fresh \in Seq(Nat) /\ Len(run[r].fresh) = PAGE * run[r].page
           /\ \A i \in 1 .. Len(run[r].fresh) : run[r].fresh[i] = Top(r) + 1 - i
           /\ run[r].until = cursor
           /\ Len(run[r].fresh) # 0 => PageTop(r) >= Old /\ PageTop(r) >= cursor
  <1>1. Listing(r) BY DEF Inv, RunsSound
  <1>2. /\ run[r].until \in Nat /\ run[r].before \in Nat /\ run[r].page \in Nat
        /\ run[r].fresh \in Seq(Nat) /\ Len(run[r].fresh) \in Nat
        /\ Len(chain) \in Nat /\ cursor \in Nat /\ Old \in Nat
    BY RunFieldTypes, IndexerAssumption DEF Inv, Types
  <1>3. CASE run[r].page = 0
    <2>1. run[r].before = 0 /\ run[r].fresh = <<>> /\ Len(run[r].fresh) = 0
      BY <1>1, <1>3 DEF Listing
    <2>2. Top(r) = Len(chain) /\ PageTop(r) = Len(chain)
      BY <1>2, <2>1 DEF Top, PageTop
    <2>3. PAGE * run[r].page = 0 /\ 0 < MAX_PAGES BY <1>3, IndexerAssumption
    <2>4. run[r].until = cursor BY <1>1 DEF Listing
    <2> QED BY <1>2, <1>3, <2>1, <2>2, <2>3, <2>4
  <1>4. CASE run[r].page # 0
    <2>1. /\ run[r].page < MAX_PAGES
          /\ run[r].before > Old /\ run[r].before > run[r].until /\ run[r].until = cursor
          /\ Len(run[r].fresh) = PAGE * run[r].page
          /\ run[r].before + Len(run[r].fresh) <= Len(chain) + 1
          /\ \A i \in 1 .. Len(run[r].fresh) :
                run[r].fresh[i] = run[r].before + Len(run[r].fresh) - i
      BY <1>1, <1>4 DEF Listing
    <2>2. run[r].before # 0 BY <1>2, <2>1
    <2>3. /\ Top(r) = run[r].before - 1 + Len(run[r].fresh)
          /\ PageTop(r) = run[r].before - 1
      BY <1>2, <2>2 DEF Top, PageTop
    <2>4. \A i \in 1 .. Len(run[r].fresh) : run[r].fresh[i] = Top(r) + 1 - i
      BY <1>2, <2>1, <2>3
    <2>5. /\ Top(r) \in Nat /\ Top(r) <= Len(chain) /\ PageTop(r) \in Nat
          /\ PageTop(r) >= Old /\ PageTop(r) >= cursor
      <3>1. /\ run[r].before \in Nat /\ Len(run[r].fresh) \in Nat /\ Len(chain) \in Nat
            /\ cursor \in Nat /\ Old \in Nat
        BY <1>2
      <3>2. /\ run[r].before > Old /\ run[r].before > cursor
            /\ run[r].before + Len(run[r].fresh) <= Len(chain) + 1
        BY <2>1
      <3>3. PageTop(r) = run[r].before - 1 /\ Top(r) = run[r].before - 1 + Len(run[r].fresh)
        BY <2>3
      <3>4. \A p, n, c \in Nat :
               p > 0 /\ p + n <= c + 1 => p - 1 + n \in Nat /\ p - 1 + n <= c
        OBVIOUS
      <3>5. PageTop(r) \in Nat /\ PageTop(r) >= Old /\ PageTop(r) >= cursor
        BY <3>1, <3>2, <3>3
      <3>6. Top(r) \in Nat /\ Top(r) <= Len(chain)
        BY <2>2, <3>1, <3>2, <3>3, <3>4
      <3> QED BY <3>5, <3>6
    <2> QED BY <1>2, <2>1, <2>2, <2>3, <2>4, <2>5
  <1> QED BY <1>3, <1>4

(* A page runs down from its top without a gap and not past the cursor,    *)
(* and if it is short it reaches the cursor.                               *)
LEMMA BatchShape ==
    ASSUME Inv, NEW r \in Runs, run[r].phase = "listing"
    PROVE  LET b == Batch(r) IN
           /\ b \in Seq(Nat) /\ Len(b) \in Nat /\ Len(b) <= PAGE
           /\ DOMAIN b = 1 .. Len(b)
           /\ \A i \in 1 .. Len(b) : b[i] = PageTop(r) + 1 - i
           /\ Len(b) # 0 => PageTop(r) - Len(b) >= cursor
           /\ Len(b) < PAGE => PageTop(r) - Len(b) <= cursor
  <1> DEFINE top == PageTop(r)
             room == IF top > cursor THEN top - cursor ELSE 0
             size == IF room < PAGE THEN room ELSE PAGE
  <1>1. /\ top \in Nat /\ cursor \in Nat /\ PAGE \in Nat
        /\ run[r].until = cursor
        /\ top = IF run[r].before = 0 THEN Len(chain) ELSE run[r].before - 1
    BY ListedSoFar, IndexerAssumption DEF Inv, Types
  <1>2. Batch(r) = [i \in 1 .. size |-> top + 1 - i]
    BY <1>1 DEF Batch
  <1>3. size \in Nat /\ size <= PAGE /\ (size # 0 => top - size >= cursor)
        /\ (size < PAGE => top - size <= cursor)
    BY <1>1
  <1> HIDE DEF size, top
  <1>4. \A i \in 1 .. size : top + 1 - i \in Nat
    BY <1>1, <1>3
  <1>5. /\ Batch(r) \in Seq(Nat) /\ Len(Batch(r)) = size /\ DOMAIN Batch(r) = 1 .. size
        /\ \A i \in 1 .. size : Batch(r)[i] = top + 1 - i
    BY <1>2, <1>3, <1>4
  <1> QED BY <1>3, <1>5 DEF top

LEMMA SubSeqType ==
    ASSUME NEW S, NEW s \in Seq(S), NEW m \in Nat \ {0}, NEW n \in Nat, n <= Len(s)
    PROVE  /\ SubSeq(s, m, n) \in Seq(S)
           /\ Len(SubSeq(s, m, n)) = IF m <= n THEN n - m + 1 ELSE 0
           /\ \A i \in 1 .. n - m + 1 : SubSeq(s, m, n)[i] = s[m + i - 1]
  <1>1. /\ Len(s) \in Nat /\ \A i \in 1 .. Len(s) : s[i] \in S
    OBVIOUS
  <1>2. m \in Int /\ n \in Int /\ \A i \in m .. n : i \in 1 .. Len(s)
    BY <1>1
  <1>3. \A i \in m .. n : s[i] \in S BY <1>1, <1>2
  <1> QED BY <1>2, <1>3, SubSeqProperties

LEMMA Numbers ==
    ASSUME NEW n \in Nat, NEW top \in Nat
    PROVE  \E k \in Nat : /\ k <= n /\ (k # 0 => top - k >= Old) /\ (k # n => top - k <= Old)
                          /\ \A i \in 1 .. n : top + 1 - i > Old <=> i <= k
  <1> DEFINE above == IF top > Old THEN top - Old ELSE 0
             k == IF above < n THEN above ELSE n
  <1> Old \in Nat BY IndexerAssumption
  <1>1. /\ k \in Nat /\ k <= n /\ (k # 0 => top - k >= Old) /\ (k # n => top - k <= Old)
        /\ \A i \in 1 .. n : top + 1 - i > Old <=> i <= k
    OBVIOUS
  <1> QED BY <1>1

(* The filter keeps a first part of the page: all that is above Old. *)
LEMMA FirstPart ==
    ASSUME NEW b \in Seq(Nat), NEW top \in Nat,
           \A i \in 1 .. Len(b) : b[i] = top + 1 - i
    PROVE  LET f == NewOnes(b) IN
           /\ f \in Seq(Nat) /\ Len(f) \in Nat /\ Len(f) <= Len(b)
           /\ \A i \in 1 .. Len(f) : f[i] = top + 1 - i
           /\ Len(f) # 0 => top - Len(f) >= Old
           /\ Len(f) # Len(b) => top - Len(f) <= Old
           /\ (\A i \in DOMAIN b : IsNew(b[i])) <=> f = b
  <1> DEFINE n == Len(b)
  <1>1. n \in Nat /\ DOMAIN b = 1 .. n /\ \A i \in 1 .. n : b[i] = top + 1 - i
    OBVIOUS
  <1> HIDE DEF n
  <1>2. PICK k \in Nat : /\ k <= n /\ (k # 0 => top - k >= Old) /\ (k # n => top - k <= Old)
                         /\ \A i \in 1 .. n : top + 1 - i > Old <=> i <= k
    BY <1>1, Numbers
  <1>3. 1 .. k \subseteq 1 .. n /\ \A i \in 1 .. n : i <= k <=> i \in 1 .. k
    BY <1>1, <1>2
  <1>4. {i \in DOMAIN b : IsNew(b[i])} = 1 .. k
    BY <1>1, <1>2, <1>3 DEF IsNew
  <1>5. Cardinality(1 .. k) = k
    <2>1. 1 \in Int /\ k \in Int OBVIOUS
    <2>2. Cardinality(1 .. k) = IF 1 > k THEN 0 ELSE k - 1 + 1
      BY <2>1, FS_Interval
    <2> QED BY <2>2
  <1>6. NewOnes(b) = SubSeq(b, 1, k) BY <1>4, <1>5 DEF NewOnes
  <1>7. /\ SubSeq(b, 1, k) \in Seq(Nat) /\ Len(SubSeq(b, 1, k)) = k
        /\ \A i \in 1 .. k : SubSeq(b, 1, k)[i] = b[i]
    <2>1. 1 \in Nat \ {0} /\ k <= Len(b) BY <1>2 DEF n
    <2>2. /\ SubSeq(b, 1, k) \in Seq(Nat)
          /\ Len(SubSeq(b, 1, k)) = IF 1 <= k THEN k - 1 + 1 ELSE 0
          /\ \A i \in 1 .. k - 1 + 1 : SubSeq(b, 1, k)[i] = b[1 + i - 1]
      BY <2>1, SubSeqType
    <2>3. k - 1 + 1 = k /\ \A i \in 1 .. k : 1 + i - 1 = i OBVIOUS
    <2> QED BY <2>2, <2>3
  <1>8. \A i \in 1 .. k : SubSeq(b, 1, k)[i] = top + 1 - i
    BY <1>1, <1>3, <1>7
  <1>9. (\A i \in DOMAIN b : IsNew(b[i])) <=> k = n
    <2>1. (\A i \in DOMAIN b : IsNew(b[i])) <=> 1 .. k = DOMAIN b
      BY <1>4
    <2>2. 1 .. k = 1 .. n <=> k = n
      BY <1>1, <1>2
    <2> QED BY <1>1, <2>1, <2>2
  <1>10. k = n <=> SubSeq(b, 1, k) = b
    <2>1. SubSeq(b, 1, Len(b)) = b BY SubSeqFull
    <2> QED BY <1>7, <2>1 DEF n
  <1> QED BY <1>2, <1>6, <1>7, <1>8, <1>9, <1>10 DEF n

LEMMA OthersIdle ==
    ASSUME OneRun, NEW r \in Runs, Active(r)
    PROVE  inflight = {r} /\ \A q \in Runs : q # r => run[q].phase = "idle"
  BY DEF OneRun, Active

(* A run goes on without the database or the chain changing. *)
LEMMA GoesOn ==
    ASSUME Inv, NEW r \in Runs, Active(r),
           UNCHANGED <<chain, rows, lastId, cursor, base, inflight>>,
           NEW s \in RunState, run' = [run EXCEPT ![r] = s],
           \/ s.phase = "listing" /\ Listing(r)'
           \/ s.phase = "fetching" /\ Processing(r)',
           \A t \in DOMAIN chain : Sees(r, t)' => Sees(r, t)
    PROVE  Inv'
  <1> USE DEF Inv
  <1>1. run' \in [Runs -> RunState] /\ run'[r] = s BY DEF Types
  <1>2. \A q \in Runs : q # r => run'[q] = run[q] BY DEF Types
  <1>3. /\ inflight = {r}
        /\ \A q \in Runs : q # r => run[q].phase = "idle" /\ run'[q].phase = "idle"
    BY <1>2, OthersIdle
  <1>4. Types' BY <1>1 DEF Types
  <1>5. OneRun' BY <1>1, <1>3 DEF OneRun, Active
  <1>6. CursorSound' BY DEF CursorSound
  <1>7. RunsSound' BY <1>1, <1>3 DEF RunsSound
  <1>8. Solid'
    <2>1. \A t \in DOMAIN chain : MayStore(t)' => MayStore(t)
      <3> SUFFICES ASSUME NEW t \in DOMAIN chain, MayStore(t)' PROVE MayStore(t)
        OBVIOUS
      <3>1. CASE Listable(t, cursor, Len(chain))' BY <3>1 DEF Listable, MayStore
      <3>2. ASSUME NEW q \in Runs, Sees(q, t)' PROVE MayStore(t)
        <4>1. q = r BY <1>3, <3>2 DEF Sees
        <4> QED BY <3>2, <4>1 DEF MayStore
      <3> QED BY <3>1, <3>2 DEF MayStore
    <2>2. \A t : Indexed(t)' <=> Indexed(t) BY DEF Indexed, Held
    <2> QED BY <2>1, <2>2 DEF Solid
  <1>9. IdsSpent' /\ FeedInOrder' BY DEF IdsSpent, FeedInOrder
  <1> QED BY <1>4, <1>5, <1>6, <1>7, <1>8, <1>9

(* With a page more, a run has listed down from its top without a gap. *)
LEMMA Joined ==
    ASSUME Inv, NEW r \in Runs, run[r].phase = "listing"
    PROVE  LET b == Batch(r)
               g == run[r].fresh \o NewOnes(b)
           IN  /\ g \in Seq(Nat)
               /\ Len(g) = Len(run[r].fresh) + Len(NewOnes(b)) /\ Len(g) \in Nat
               /\ \A i \in 1 .. Len(g) : g[i] = Top(r) + 1 - i
               /\ Len(g) # 0 => Top(r) - Len(g) >= Old /\ Top(r) - Len(g) >= cursor
  <1> DEFINE b == Batch(r)
             f == NewOnes(b)
             s == run[r].fresh
             g == s \o f
  <1>1. /\ s \in Seq(Nat) /\ Len(s) \in Nat
        /\ \A i \in 1 .. Len(s) : s[i] = Top(r) + 1 - i
    BY ListedSoFar
  <1>2. /\ f \in Seq(Nat) /\ Len(f) \in Nat
        /\ \A i \in 1 .. Len(f) : f[i] = PageTop(r) + 1 - i
    BY ListedSoFar, BatchShape, FirstPart
  <1>3. /\ Top(r) \in Nat /\ PageTop(r) \in Nat /\ cursor \in Nat /\ Old \in Nat
        /\ PageTop(r) = Top(r) - Len(s)
    BY ListedSoFar, IndexerAssumption DEF PageTop, Inv, Types
  <1>4. /\ g \in Seq(Nat) /\ Len(g) = Len(s) + Len(f) /\ Len(g) \in Nat
        /\ \A i \in 1 .. Len(s) + Len(f) :
              g[i] = IF i <= Len(s) THEN s[i] ELSE f[i - Len(s)]
    BY <1>1, <1>2, ConcatProperties
  <1>5. \A i \in 1 .. Len(g) : g[i] = Top(r) + 1 - i
    <2> SUFFICES ASSUME NEW i \in 1 .. Len(g) PROVE g[i] = Top(r) + 1 - i
      OBVIOUS
    <2>1. i \in Nat /\ 1 <= i /\ i <= Len(s) + Len(f) BY <1>4
    <2>2. CASE i <= Len(s) BY <1>1, <1>4, <2>1, <2>2
    <2>3. CASE i > Len(s)
      <3>1. i - Len(s) \in 1 .. Len(f) BY <1>1, <1>2, <2>1, <2>3
      <3>2. g[i] = f[i - Len(s)] BY <1>1, <1>4, <2>1, <2>3
      <3>3. f[i - Len(s)] = PageTop(r) + 1 - (i - Len(s)) BY <1>2, <3>1
      <3> QED BY <1>1, <1>3, <2>1, <3>2, <3>3
    <2> QED BY <1>1, <2>1, <2>2, <2>3
  <1>6. /\ Len(s) # 0 => PageTop(r) >= Old /\ PageTop(r) >= cursor
        /\ Len(f) # 0 => PageTop(r) - Len(f) >= Old
        /\ Len(f) <= Len(b)
        /\ Len(b) # 0 => PageTop(r) - Len(b) >= cursor
        /\ Len(b) \in Nat
    BY ListedSoFar, BatchShape, FirstPart
  <1>7. /\ Len(s) \in Nat /\ Len(f) \in Nat /\ Len(g) = Len(s) + Len(f) BY <1>1, <1>2, <1>4
  <1> HIDE DEF g, s, f, b
  <1>8. Top(r) - Len(g) = PageTop(r) - Len(f) BY <1>3, <1>7
  <1>9. Len(g) # 0 => PageTop(r) - Len(f) >= Old /\ PageTop(r) - Len(f) >= cursor
    BY <1>3, <1>6, <1>7
  <1> QED BY <1>4, <1>5, <1>8, <1>9 DEF g, s, f, b

LEMMA ShorterUnlessAll ==
    ASSUME NEW b \in Seq(Nat), NEW top \in Nat,
           \A i \in 1 .. Len(b) : b[i] = top + 1 - i, NewOnes(b) # b
    PROVE  Len(NewOnes(b)) # Len(b)
  <1>1. /\ NewOnes(b) \in Seq(Nat) /\ Len(NewOnes(b)) \in Nat
        /\ \A i \in 1 .. Len(NewOnes(b)) : NewOnes(b)[i] = top + 1 - i
    BY FirstPart
  <1> QED BY <1>1, SeqEqual

(* A page arrives. *)
LEMMA ListKeeps ==
    ASSUME Inv, NEW r \in Runs, ListPage(r)
    PROVE  Inv'
  <1> DEFINE b == Batch(r)
             f == NewOnes(b)
             s == run[r].fresh
             g == s \o f
             T == Top(r)
             stop == \/ Len(b) < PAGE
                     \/ \E i \in DOMAIN b : ~IsNew(b[i])
                     \/ run[r].page + 1 = MAX_PAGES
  <1>1. /\ run[r].phase = "listing" /\ Active(r)
        /\ UNCHANGED <<chain, rows, lastId, cursor, base>>
    BY DEF ListPage, Active
  <1>2. /\ T \in Nat /\ T <= Len(chain) /\ Len(chain) \in Nat
        /\ PageTop(r) \in Nat /\ PageTop(r) = T - Len(s) /\ Len(s) \in Nat
        /\ cursor \in Nat /\ Old \in Nat /\ PAGE \in Nat \ {0} /\ MAX_PAGES \in Nat \ {0}
        /\ run[r].until = cursor
        /\ run[r].page \in Nat /\ run[r].page < MAX_PAGES
    BY <1>1, ListedSoFar, IndexerAssumption DEF PageTop, Inv, Types
  <1>3. /\ Len(s) = PAGE * run[r].page
        /\ PAGE * (run[r].page + 1) = Len(s) + PAGE
        /\ PAGE * (run[r].page + 1) <= LookBack
    <2>1. Len(s) = PAGE * run[r].page BY <1>1, ListedSoFar
    <2>2. \A p, n, m \in Nat : p * (n + 1) = p * n + p /\ (n < m => p * (n + 1) <= p * m)
      <3>1. \A p, n, m, d \in Nat : m = n + 1 + d => p * m = p * (n + 1) + p * d
        OBVIOUS
      <3>2. \A p, d \in Nat : p * d \in Nat OBVIOUS
      <3>3. \A n, m \in Nat : n < m => \E d \in Nat : m = n + 1 + d
        <4> SUFFICES ASSUME NEW n \in Nat, NEW m \in Nat, n < m
                     PROVE  \E d \in Nat : m = n + 1 + d
          OBVIOUS
        <4>1. m - n - 1 \in Nat /\ m = n + 1 + (m - n - 1) OBVIOUS
        <4> QED BY <4>1
      <3>4. ASSUME NEW p \in Nat, NEW n \in Nat, NEW m \in Nat, n < m
            PROVE  p * (n + 1) <= p * m
        <4>1. PICK d \in Nat : m = n + 1 + d BY <3>3, <3>4
        <4>2. p * m = p * (n + 1) + p * d BY <3>1, <4>1
        <4>3. p * d \in Nat /\ p * (n + 1) \in Nat BY <3>2
        <4> QED BY <4>2, <4>3
      <3>5. \A p, n \in Nat : p * (n + 1) = p * n + p OBVIOUS
      <3> QED BY <3>4, <3>5
    <2>3. PAGE * (run[r].page + 1) = PAGE * run[r].page + PAGE BY <1>2, <2>2
    <2> QED BY <1>2, <2>1, <2>2, <2>3 DEF LookBack
  <1>4. /\ g \in Seq(Nat) /\ Len(g) = Len(s) + Len(f) /\ Len(g) \in Nat
        /\ \A i \in 1 .. Len(g) : g[i] = T + 1 - i
        /\ Len(g) # 0 => T - Len(g) >= Old /\ T - Len(g) >= cursor
    BY <1>1, Joined
  <1>5. /\ b \in Seq(Nat) /\ Len(b) \in Nat /\ Len(b) <= PAGE /\ DOMAIN b = 1 .. Len(b)
        /\ \A i \in 1 .. Len(b) : b[i] = PageTop(r) + 1 - i
        /\ Len(b) < PAGE => PageTop(r) - Len(b) <= cursor
    BY <1>1, BatchShape
  <1>6. /\ Len(f) \in Nat /\ Len(f) <= Len(b)
        /\ Len(f) # Len(b) => PageTop(r) - Len(f) <= Old
        /\ (\A i \in DOMAIN b : IsNew(b[i])) <=> f = b
    BY <1>2, <1>5, FirstPart
  <1>7. run[r] \in RunState BY RunFieldTypes DEF Inv
  <1>8. \/ ~stop /\ run' = [run EXCEPT ![r].fresh = g, ![r].page = @ + 1, ![r].before = Last(b)]
                 /\ UNCHANGED inflight
        \/ Finish(r)
        \/ stop /\ g # <<>> /\ run' = [run EXCEPT ![r].fresh = Reverse(g), ![r].phase = "fetching"]
                /\ UNCHANGED inflight
    BY DEF ListPage
  <1> HIDE DEF b, f, s, g, T
  <1>12. /\ Len(g) \in Nat /\ Len(g) = Len(s) + Len(f) /\ Len(f) \in Nat /\ Len(b) \in Nat
         /\ Len(b) <= PAGE /\ Len(f) <= Len(b)
         /\ Len(g) # 0 => T - Len(g) >= Old /\ T - Len(g) >= cursor
         /\ Len(b) < PAGE => PageTop(r) - Len(b) <= cursor
         /\ Len(f) # Len(b) => PageTop(r) - Len(f) <= Old
    BY <1>4, <1>5, <1>6
  <1>9. CASE Finish(r)
    BY <1>1, <1>9, FinishKeeps
  <1>10. CASE /\ ~stop /\ UNCHANGED inflight
              /\ run' = [run EXCEPT ![r].fresh = g, ![r].page = @ + 1, ![r].before = Last(b)]
    <2>1. Len(b) = PAGE /\ f = b /\ run[r].page + 1 # MAX_PAGES BY <1>2, <1>5, <1>6, <1>10
    <2>2. Len(g) = PAGE * (run[r].page + 1) /\ Len(g) # 0
      BY <1>2, <1>3, <1>4, <2>1
    <2>3. Last(b) = T + 1 - Len(g)
      <3>1. Len(b) \in 1 .. Len(b) /\ Last(b) = b[Len(b)] BY <1>2, <2>1 DEF Last
      <3>2. Last(b) = PageTop(r) + 1 - PAGE BY <1>5, <2>1, <3>1
      <3>3. Len(f) = PAGE BY <2>1
      <3> QED BY <1>2, <1>12, <3>2, <3>3
    <2>4. /\ Last(b) \in Nat /\ Last(b) > Old /\ Last(b) > cursor
          /\ T = Last(b) - 1 + Len(g)
      <3>1. Len(g) # 0 BY <2>2
      <3> QED BY <1>2, <1>12, <2>3, <3>1
    <2> DEFINE q == [run[r] EXCEPT !.fresh = g, !.page = @ + 1, !.before = Last(b)]
    <2>5. /\ q \in RunState /\ q.phase = "listing" /\ q.until = cursor
          /\ q.page = run[r].page + 1 /\ q.before = Last(b) /\ q.fresh = g
      <3>1. g \in Seq(Nat) /\ Last(b) \in Nat /\ run[r].page + 1 \in Nat
        BY <1>2, <1>4, <2>4
      <3> QED BY <1>1, <1>2, <1>7, <3>1 DEF RunState
    <2>6. run' = [run EXCEPT ![r] = q] BY <1>10
    <2>7. run'[r] = q BY <2>6 DEF Inv, Types
    <2> HIDE DEF q
    <2>8. Listing(r)'
      <3>1. q.page # 0 /\ q.page < MAX_PAGES BY <1>2, <2>1, <2>5
      <3>2. q.before + Len(g) <= Len(chain) + 1 BY <1>2, <1>4, <2>4, <2>5
      <3>3. \A i \in 1 .. Len(g) : g[i] = q.before + Len(g) - i
        BY <1>2, <1>4, <2>4, <2>5
      <3>4. q.before > Old /\ q.before > q.until BY <2>4, <2>5
      <3> QED BY <1>1, <2>2, <2>5, <2>7, <3>1, <3>2, <3>3, <3>4 DEF Listing
    <2>9. ASSUME NEW t \in DOMAIN chain, Sees(r, t)' PROVE Sees(r, t)
      <3>1. Listable(t, q.until, IF q.before = 0 THEN Len(chain) ELSE q.before - 1 + Len(q.fresh))
        BY <1>1, <2>5, <2>7, <2>9 DEF Sees, Top, Listable
      <3>2. q.before # 0 BY <1>2, <2>4, <2>5
      <3>3. Listable(t, cursor, T) BY <2>4, <2>5, <3>1, <3>2
      <3> QED BY <1>1, <1>2, <3>3 DEF Sees, T
    <2> QED BY <1>1, <1>10, <2>5, <2>6, <2>8, <2>9, GoesOn
  <1>11. CASE /\ stop /\ g # <<>> /\ UNCHANGED inflight
              /\ run' = [run EXCEPT ![r].fresh = Reverse(g), ![r].phase = "fetching"]
    <2>0. PICK h, low : h = Reverse(g) /\ low = T - Len(g) + 1 OBVIOUS
    <2> DEFINE q == [run[r] EXCEPT !.fresh = h, !.phase = "fetching"]
    <2>1. Len(g) # 0 BY <1>4, <1>11
    <2>2. low \in Nat /\ low > Old /\ low > cursor /\ low + Len(g) = T + 1
      BY <1>2, <1>4, <2>0, <2>1
    <2>3. /\ h \in Seq(Nat) /\ Len(h) = Len(g)
          /\ \A i \in 1 .. Len(h) : h[i] = low + i - 1
      <3>1. h = [i \in 1 .. Len(g) |-> g[Len(g) - i + 1]] BY <2>0 DEF Reverse
      <3>2. \A i \in 1 .. Len(g) : Len(g) - i + 1 \in 1 .. Len(g) BY <1>4
      <3>3. \A i \in 1 .. Len(g) : g[Len(g) - i + 1] = T + 1 - (Len(g) - i + 1)
        BY <1>4, <3>2
      <3>4. \A i \in 1 .. Len(g) : g[Len(g) - i + 1] \in Nat BY <1>4, <3>2
      <3>5. /\ h \in Seq(Nat) /\ Len(h) = Len(g)
            /\ \A i \in 1 .. Len(g) : h[i] = g[Len(g) - i + 1]
        BY <1>4, <3>1, <3>4
      <3>6. \A i \in 1 .. Len(g) : T + 1 - (Len(g) - i + 1) = low + i - 1 BY <1>2, <1>12, <2>0
      <3> QED BY <3>3, <3>5, <3>6
    <2>4. q \in RunState /\ q.phase = "fetching" /\ q.fresh = h
      BY <1>7, <2>3 DEF RunState
    <2>5. run' = [run EXCEPT ![r] = q] BY <1>11, <2>0
    <2>6. run'[r] = q BY <2>5 DEF Inv, Types
    <2> HIDE DEF q
    <2>7. h[1] = low /\ Len(h) > 0
      <3>1. 1 \in 1 .. Len(h) /\ Len(h) > 0 BY <1>4, <2>1, <2>3
      <3>2. h[1] = low + 1 - 1 BY <2>3, <3>1
      <3> QED BY <2>2, <3>1, <3>2
    <2>8. low <= cursor + 1 \/ low <= Old + 1 \/ low + LookBack <= Len(chain) + 1
      <3>1. T - Len(g) = PageTop(r) - Len(f) BY <1>2, <1>4, <1>6
      <3>2. CASE f # b
        <4>1. \E i \in DOMAIN b : ~IsNew(b[i]) BY <1>6, <3>2
        <4>2. Len(f) # Len(b) BY <1>2, <1>5, <3>2, ShorterUnlessAll DEF f
        <4>3. T - Len(g) <= Old BY <1>6, <3>1, <4>2
        <4> QED BY <1>2, <1>12, <2>0, <4>3
      <3>3. CASE f = b /\ Len(b) < PAGE
        <4>1. T - Len(g) <= cursor BY <1>5, <3>1, <3>3
        <4> QED BY <1>2, <1>12, <2>0, <4>1
      <3>4. CASE f = b /\ Len(b) = PAGE
        <4>1. run[r].page + 1 = MAX_PAGES BY <1>5, <1>6, <1>11, <3>4
        <4>2. Len(g) = LookBack
          <5>1. Len(f) = PAGE BY <3>4
          <5>2. Len(g) = PAGE * (run[r].page + 1) BY <1>3, <1>12, <5>1
          <5> QED BY <4>1, <5>2 DEF LookBack
        <4> QED BY <1>2, <1>12, <2>2, <4>2
      <3>5. Len(b) < PAGE \/ Len(b) = PAGE BY <1>2, <1>12
      <3> QED BY <3>2, <3>3, <3>4, <3>5
    <2>9. Processing(r)'
      <3>1. InReach(low)' BY <1>1, <2>8 DEF InReach
      <3>2. low + Len(h) <= Len(chain) + 1 BY <1>2, <2>2, <2>3
      <3>3. \A i \in 1 .. Len(h) : h[i] = h[1] + i - 1 BY <2>3, <2>7
      <3>4. run'[r].fresh = h /\ run'[r].phase = "fetching" BY <2>4, <2>6
      <3>5. h[1] = low /\ h[1] > Old /\ h[1] > cursor /\ Len(h) > 0 BY <2>2, <2>7
      <3>6. InReach(h[1])' BY <3>1, <3>5, <1>1 DEF InReach
      <3> QED BY <1>1, <3>2, <3>3, <3>4, <3>5, <3>6 DEF Processing
    <2>10. ASSUME NEW t \in DOMAIN chain, Sees(r, t)' PROVE Sees(r, t)
      <3>1. t >= low
        <4>1. run'[r].fresh = h /\ run'[r].phase = "fetching" BY <2>4, <2>6
        <4>2. t >= h[1] BY <2>10, <4>1 DEF Sees
        <4> QED BY <2>7, <4>2
      <3>2. t \in Nat BY DEF Inv, Types
      <3>3. Len(g) <= LookBack /\ LookBack \in Nat
        <4>1. Len(g) <= Len(s) + PAGE BY <1>2, <1>12
        <4>2. Len(s) + PAGE <= LookBack BY <1>3
        <4> QED BY <1>2, <1>12, <4>1, <4>2, LookBackType
      <3>4. t > cursor /\ t > Old BY <1>2, <2>2, <3>1, <3>2
      <3>5. t + LookBack > T BY <1>2, <1>4, <2>2, <3>1, <3>2, <3>3
      <3> QED BY <1>1, <1>2, <3>4, <3>5 DEF Sees, Listable, T
    <2> QED BY <1>1, <1>11, <2>4, <2>5, <2>9, <2>10, GoesOn
  <1> QED BY <1>8, <1>9, <1>10, <1>11

-----------------------------------------------------------------------------
(* Inserting.                                                              *)

Rank(N, e) == Cardinality({d \in N : NoLater(d, e)})

(* Counting the announcements that come no later numbers them in order.    *)
LEMMA Ranks ==
    ASSUME NEW N, IsFiniteSet(N), N \subseteq Nat \X Nat
    PROVE  /\ \A e \in N : Rank(N, e) \in Nat /\ 1 <= Rank(N, e) /\ Rank(N, e) <= Cardinality(N)
           /\ \A d, e \in N : Rank(N, d) < Rank(N, e) <=> ~NoLater(e, d)
  <1> DEFINE Upto(e) == {d \in N : NoLater(d, e)}
  <1>1. \A d, e \in N : /\ d[1] \in Nat /\ d[2] \in Nat /\ e[1] \in Nat /\ e[2] \in Nat
                        /\ d = e <=> d[1] = e[1] /\ d[2] = e[2]
    OBVIOUS
  <1>2. /\ \A e \in N : NoLater(e, e)
        /\ \A d, e \in N : NoLater(d, e) \/ NoLater(e, d)
        /\ \A c, d, e \in N : NoLater(c, d) /\ NoLater(d, e) => NoLater(c, e)
    BY <1>1 DEF NoLater
  <1>3. ASSUME NEW e \in N
        PROVE  /\ IsFiniteSet(Upto(e)) /\ Cardinality(Upto(e)) \in Nat
               /\ 1 <= Cardinality(Upto(e)) /\ Cardinality(Upto(e)) <= Cardinality(N)
    <2>1. Upto(e) \in SUBSET N OBVIOUS
    <2>2. IsFiniteSet(Upto(e)) /\ Cardinality(Upto(e)) <= Cardinality(N)
      BY <2>1, FS_Subset
    <2>3. Cardinality(Upto(e)) \in Nat BY <2>2, FS_CardinalityType
    <2>4. e \in Upto(e) BY <1>2
    <2>5. Cardinality(Upto(e)) # 0 BY <2>2, <2>4, FS_EmptySet
    <2> QED BY <2>2, <2>3, <2>5
  <1>4. ASSUME NEW d \in N, NEW e \in N, NoLater(d, e)
        PROVE  Cardinality(Upto(d)) <= Cardinality(Upto(e))
    <2>1. Upto(d) \in SUBSET Upto(e) BY <1>2, <1>4
    <2> QED BY <1>3, <2>1, FS_Subset
  <1>5. ASSUME NEW d \in N, NEW e \in N, ~NoLater(e, d)
        PROVE  Cardinality(Upto(d)) < Cardinality(Upto(e))
    <2>1. NoLater(d, e) BY <1>2, <1>5
    <2>2. Upto(d) \in SUBSET Upto(e) BY <1>2, <2>1
    <2>3. e \in Upto(e) /\ e \notin Upto(d) BY <1>2, <1>5
    <2>4. Cardinality(Upto(e)) # Cardinality(Upto(d)) BY <1>3, <2>2, <2>3, FS_Subset
    <2>5. Cardinality(Upto(d)) <= Cardinality(Upto(e)) BY <1>4, <2>1
    <2>6. Cardinality(Upto(d)) \in Nat /\ Cardinality(Upto(e)) \in Nat BY <1>3
    <2> QED BY <2>4, <2>5, <2>6
  <1>6. \A d, e \in N : Cardinality(Upto(d)) < Cardinality(Upto(e)) <=> ~NoLater(e, d)
    <2> SUFFICES ASSUME NEW d \in N, NEW e \in N, NoLater(e, d)
                 PROVE  ~(Cardinality(Upto(d)) < Cardinality(Upto(e)))
      BY <1>5
    <2>1. Cardinality(Upto(e)) <= Cardinality(Upto(d)) BY <1>4
    <2>2. Cardinality(Upto(d)) \in Nat /\ Cardinality(Upto(e)) \in Nat BY <1>3
    <2> QED BY <2>1, <2>2
  <1> QED BY <1>3, <1>6 DEF Rank

(* The group of a run: what it processes next, beyond the cursor. *)
LEMMA GroupShape ==
    ASSUME Inv, NEW r \in Runs, run[r].phase \in {"fetching", "stored"}
    PROVE  LET f == run[r].fresh
               G == Group(r)
           IN  /\ f \in Seq(Nat) /\ Len(f) \in Nat /\ f[1] \in Nat
               /\ f[1] > Old /\ f[1] > cursor /\ f[1] + Len(f) <= Len(chain) + 1
               /\ \A i \in 1 .. Len(f) : f[i] = f[1] + i - 1
               /\ G \in Seq(Nat) /\ Len(G) \in Nat /\ 1 <= Len(G) /\ Len(G) <= Len(f)
               /\ \A i \in 1 .. Len(G) : G[i] = f[1] + i - 1 /\ G[i] = f[i]
               /\ \A i \in 1 .. Len(G) : G[i] \in DOMAIN chain
  <1> DEFINE f == run[r].fresh
             G == Group(r)
             n == IF Len(f) < CONCURRENCY THEN Len(f) ELSE CONCURRENCY
  <1>1. f \in Seq(Nat) /\ Len(f) \in Nat BY RunFieldTypes DEF Inv
  <1>2. /\ Len(f) > 0 /\ \A i \in 1 .. Len(f) : f[i] = f[1] + i - 1
        /\ f[1] > Old /\ f[1] > cursor /\ f[1] + Len(f) <= Len(chain) + 1
    BY DEF Inv, RunsSound, Processing
  <1>3. 1 \in 1 .. Len(f) /\ f[1] \in Nat BY <1>1, <1>2
  <1>4. n \in Nat /\ 1 <= n /\ n <= Len(f) BY <1>1, <1>2, IndexerAssumption
  <1> HIDE DEF n
  <1>5. G = SubSeq(f, 1, n) BY DEF Group, n
  <1> HIDE DEF f
  <1>6. /\ G \in Seq(Nat) /\ Len(G) = n /\ \A i \in 1 .. n : G[i] = f[i]
    <2>1. 1 \in Nat \ {0} OBVIOUS
    <2>2. /\ SubSeq(f, 1, n) \in Seq(Nat)
          /\ Len(SubSeq(f, 1, n)) = IF 1 <= n THEN n - 1 + 1 ELSE 0
          /\ \A i \in 1 .. n - 1 + 1 : SubSeq(f, 1, n)[i] = f[1 + i - 1]
      BY <1>1, <1>4, <2>1, SubSeqType
    <2>3. n - 1 + 1 = n /\ \A i \in 1 .. n : 1 + i - 1 = i BY <1>4
    <2> QED BY <1>4, <1>5, <2>2, <2>3
  <1>7. \A i \in 1 .. n : i \in 1 .. Len(f) BY <1>1, <1>4
  <1>8. \A i \in 1 .. n : G[i] = f[1] + i - 1 BY <1>2, <1>6, <1>7
  <1>9. \A i \in 1 .. n : f[1] + i - 1 \in DOMAIN chain
    <2>1. Len(chain) \in Nat /\ DOMAIN chain = 1 .. Len(chain) BY DEF Inv, Types
    <2>2. \A i \in 1 .. n : f[1] + i - 1 \in Nat /\ 1 <= f[1] + i - 1 /\ f[1] + i - 1 <= Len(chain)
      <3>1. f[1] > 0 BY <1>2, <1>3, IndexerAssumption
      <3>2. f[1] + Len(f) <= Len(chain) + 1 BY <1>2
      <3> QED BY <1>1, <1>3, <1>4, <2>1, <3>1, <3>2
    <2> QED BY <2>1, <2>2
  <1> QED BY <1>1, <1>2, <1>3, <1>4, <1>6, <1>8, <1>9 DEF f

(* The chain has a before and an after for the rows of the feed too. *)
Sooner(x, y) == x.tx < y.tx \/ (x.tx = y.tx /\ x.position < y.position)

(* What a group adds: rows for all its announcements that the feed misses, *)
(* with ids above all that were given out, in the order of the chain.      *)
LEMMA Added ==
    ASSUME Inv, NEW r \in Runs, run[r].phase \in {"fetching", "stored"}
    PROVE  LET G == Group(r)
               N == Inserted(G)
               R == Numbered(N, G)
           IN  /\ R \subseteq Row /\ Cardinality(N) \in Nat
               /\ \A x \in R :
                     /\ \E i \in 1 .. Len(G) : x.tx = G[i]
                     /\ x.tx \in DOMAIN chain /\ x.position \in 1 .. chain[x.tx]
                     /\ ~Held(rows, x.tx, x.position)
                     /\ lastId < x.id /\ x.id <= lastId + Cardinality(N)
               /\ \A x, y \in R : x.id < y.id <=> Sooner(x, y)
               /\ \A i \in 1 .. Len(G), j \in Nat \ {0} :
                     j <= chain[G[i]] => Held(rows \cup R, G[i], j)
  <1> DEFINE G == Group(r)
             N == Inserted(G)
             R == Numbered(N, G)
  <1>1. /\ G \in Seq(Nat) /\ Len(G) \in Nat /\ DOMAIN G = 1 .. Len(G)
        /\ \A i \in 1 .. Len(G) : G[i] = run[r].fresh[1] + i - 1
        /\ \A i \in 1 .. Len(G) : G[i] \in DOMAIN chain
        /\ run[r].fresh[1] \in Nat
    BY GroupShape
  <1>2. \A t \in DOMAIN chain :
            t \in Nat /\ chain[t] \in Nat /\ chain[t] <= MaxEvents
    BY ChainTypes DEF Inv
  <1>3. MaxEvents \in Nat /\ lastId \in Nat BY IndexerAssumption DEF Inv, Types
  <1> HIDE DEF G
  <1>4. N = {e \in (1 .. Len(G)) \X (1 .. MaxEvents) :
                e[2] <= chain[G[e[1]]] /\ ~Held(rows, G[e[1]], e[2])}
    BY <1>1 DEF Inserted, Emitted
  <1>5. IsFiniteSet(N) /\ N \subseteq Nat \X Nat /\ Cardinality(N) \in Nat
    <2>1. IsFiniteSet(1 .. Len(G)) /\ IsFiniteSet(1 .. MaxEvents)
      BY <1>1, <1>3, FS_Interval
    <2>2. IsFiniteSet((1 .. Len(G)) \X (1 .. MaxEvents)) BY <2>1, FS_Product
    <2>3. N \in SUBSET ((1 .. Len(G)) \X (1 .. MaxEvents)) BY <1>4
    <2>4. IsFiniteSet(N) BY <2>2, <2>3, FS_Subset
    <2>5. \A i \in 1 .. Len(G) : i \in Nat BY <1>1
    <2>6. \A j \in 1 .. MaxEvents : j \in Nat BY <1>3
    <2> QED BY <2>3, <2>4, <2>5, <2>6, FS_CardinalityType
  <1> HIDE DEF N
  <1>6. /\ \A e \in N : Rank(N, e) \in Nat /\ 1 <= Rank(N, e) /\ Rank(N, e) <= Cardinality(N)
        /\ \A d, e \in N : Rank(N, d) < Rank(N, e) <=> ~NoLater(e, d)
    BY <1>5, Ranks
  <1>7. R = {[tx |-> G[e[1]], position |-> e[2], id |-> lastId + Rank(N, e)] : e \in N}
    BY DEF Numbered, Rank
  <1> HIDE DEF R
  <1>8. ASSUME NEW e \in N
        PROVE  /\ e[1] \in 1 .. Len(G) /\ e[2] \in 1 .. MaxEvents
               /\ e[1] \in Nat /\ e[2] \in Nat /\ 1 <= e[2]
               /\ G[e[1]] \in DOMAIN chain /\ G[e[1]] \in Nat
               /\ e[2] \in 1 .. chain[G[e[1]]] /\ ~Held(rows, G[e[1]], e[2])
    <2>1. /\ e[1] \in 1 .. Len(G) /\ e[2] \in 1 .. MaxEvents
          /\ e[2] <= chain[G[e[1]]] /\ ~Held(rows, G[e[1]], e[2])
      BY <1>4
    <2>2. e[1] \in Nat /\ e[2] \in Nat /\ 1 <= e[2] BY <1>1, <1>3, <2>1
    <2>3. G[e[1]] \in DOMAIN chain BY <1>1, <2>1
    <2>4. chain[G[e[1]]] \in Nat /\ G[e[1]] \in Nat BY <1>2, <1>3, <2>3
    <2> QED BY <2>1, <2>2, <2>3, <2>4
  <1>9. ASSUME NEW x \in R
        PROVE  /\ x \in Row
               /\ \E i \in 1 .. Len(G) : x.tx = G[i]
               /\ x.tx \in DOMAIN chain /\ x.position \in 1 .. chain[x.tx]
               /\ ~Held(rows, x.tx, x.position)
               /\ lastId < x.id /\ x.id <= lastId + Cardinality(N)
    <2>1. PICK e \in N : x = [tx |-> G[e[1]], position |-> e[2], id |-> lastId + Rank(N, e)]
      BY <1>7
    <2>2. x.tx = G[e[1]] /\ x.position = e[2] /\ x.id = lastId + Rank(N, e) BY <2>1
    <2>3. x.id \in Nat /\ lastId < x.id /\ x.id <= lastId + Cardinality(N)
      BY <1>3, <1>5, <1>6, <2>2
    <2>4. x \in Row BY <1>8, <2>1, <2>2, <2>3 DEF Row
    <2> QED BY <1>8, <2>2, <2>3, <2>4
  <1>10. ASSUME NEW x \in R, NEW y \in R PROVE x.id < y.id <=> Sooner(x, y)
    <2>1. PICK d \in N : x = [tx |-> G[d[1]], position |-> d[2], id |-> lastId + Rank(N, d)]
      BY <1>7
    <2>2. PICK e \in N : y = [tx |-> G[e[1]], position |-> e[2], id |-> lastId + Rank(N, e)]
      BY <1>7
    <2>3. /\ x.tx = G[d[1]] /\ x.position = d[2] /\ x.id = lastId + Rank(N, d)
          /\ y.tx = G[e[1]] /\ y.position = e[2] /\ y.id = lastId + Rank(N, e)
      BY <2>1, <2>2
    <2>4. Rank(N, d) \in Nat /\ Rank(N, e) \in Nat BY <1>6
    <2>5. x.id < y.id <=> Rank(N, d) < Rank(N, e) BY <1>3, <2>3, <2>4
    <2>6. /\ d[1] \in Nat /\ d[2] \in Nat /\ e[1] \in Nat /\ e[2] \in Nat
          /\ d[1] \in 1 .. Len(G) /\ e[1] \in 1 .. Len(G)
      BY <1>8
    <2>7. /\ G[d[1]] = run[r].fresh[1] + d[1] - 1 /\ G[e[1]] = run[r].fresh[1] + e[1] - 1
          /\ run[r].fresh[1] \in Nat
      BY <1>1, <2>6
    <2>8. ~NoLater(e, d) <=> Sooner(x, y)
      <3>1. G[d[1]] < G[e[1]] <=> d[1] < e[1] BY <2>6, <2>7
      <3>2. G[d[1]] = G[e[1]] <=> d[1] = e[1] BY <2>6, <2>7
      <3>3. Sooner(x, y) <=> d[1] < e[1] \/ (d[1] = e[1] /\ d[2] < e[2])
        BY <2>3, <3>1, <3>2 DEF Sooner
      <3> QED BY <2>6, <3>3 DEF NoLater
    <2> QED BY <1>6, <2>5, <2>8
  <1>11. ASSUME NEW i \in 1 .. Len(G), NEW j \in Nat \ {0}, j <= chain[G[i]]
         PROVE  Held(rows \cup R, G[i], j)
    <2>1. CASE Held(rows, G[i], j) BY <2>1 DEF Held
    <2>2. CASE ~Held(rows, G[i], j)
      <3>1. chain[G[i]] \in Nat /\ chain[G[i]] <= MaxEvents BY <1>1, <1>2, <1>3
      <3>2. j \in 1 .. MaxEvents BY <1>3, <1>11, <3>1
      <3>3. <<i, j>> \in N BY <1>4, <1>11, <2>2, <3>2
      <3>4. [tx |-> G[<<i, j>>[1]], position |-> <<i, j>>[2], id |-> lastId + Rank(N, <<i, j>>)] \in R
        BY <1>7, <3>3
      <3>5. [tx |-> G[i], position |-> j, id |-> lastId + Rank(N, <<i, j>>)] \in R BY <3>4
      <3>6. \E x \in R : x.tx = G[i] /\ x.position = j BY <3>5
      <3> QED BY <3>6 DEF Held
    <2> QED BY <2>1, <2>2
  <1>12. R \subseteq Row BY <1>9
  <1> QED BY <1>5, <1>9, <1>10, <1>11, <1>12 DEF R, N, G

LEMMA StoreKeeps ==
    ASSUME Inv, NEW r \in Runs, StoreGroup(r)
    PROVE  Inv'
  <1>1. /\ run[r].phase = "fetching" /\ Active(r)
        /\ UNCHANGED <<chain, cursor, inflight, base>>
        /\ run' = [run EXCEPT ![r].phase = "stored"]
    BY DEF StoreGroup, Active
  <1>2. PICK f, G, N, R :
            /\ f = run[r].fresh /\ G = Group(r) /\ N = Inserted(G) /\ R = Numbered(N, G)
            /\ rows' = rows \cup R /\ lastId' = lastId + Cardinality(N)
    BY DEF StoreGroup
  <1>3. /\ R \subseteq Row /\ Cardinality(N) \in Nat
        /\ \A x \in R :
              /\ \E i \in 1 .. Len(G) : x.tx = G[i]
              /\ x.tx \in DOMAIN chain /\ x.position \in 1 .. chain[x.tx]
              /\ ~Held(rows, x.tx, x.position)
              /\ lastId < x.id /\ x.id <= lastId + Cardinality(N)
        /\ \A x, y \in R : x.id < y.id <=> Sooner(x, y)
        /\ \A i \in 1 .. Len(G), j \in Nat \ {0} : j <= chain[G[i]] => Held(rows \cup R, G[i], j)
    BY <1>1, <1>2, Added
  <1>4. /\ f \in Seq(Nat) /\ Len(f) \in Nat /\ f[1] \in Nat
        /\ f[1] > Old /\ f[1] > cursor
        /\ Len(G) \in Nat /\ 1 <= Len(G) /\ Len(G) <= Len(f)
        /\ \A i \in 1 .. Len(G) : G[i] = f[1] + i - 1 /\ G[i] = f[i]
        /\ \A i \in 1 .. Len(G) : G[i] \in DOMAIN chain
    BY <1>1, <1>2, GroupShape
  <1>5. /\ run \in [Runs -> RunState] /\ rows \subseteq Row /\ lastId \in Nat
        /\ cursor \in Nat /\ Old \in Nat
        /\ Len(chain) \in Nat /\ DOMAIN chain = 1 .. Len(chain)
        /\ \A t \in DOMAIN chain : chain[t] \in Nat
    BY IndexerAssumption, ChainTypes DEF Inv, Types
  <1>6. /\ run' \in [Runs -> RunState]
        /\ run'[r].phase = "stored" /\ run'[r].fresh = f
        /\ \A q \in Runs : q # r => run'[q] = run[q] /\ run[q].phase = "idle"
    <2>1. run'[r] = [run[r] EXCEPT !.phase = "stored"] /\ run[r] \in RunState
      BY <1>1, <1>5
    <2>2. run'[r] \in RunState /\ run'[r].phase = "stored" /\ run'[r].fresh = f
      BY <1>2, <2>1 DEF RunState
    <2>3. \A q \in Runs : q # r => run'[q] = run[q] BY <1>1, <1>5
    <2>4. \A q \in Runs : q # r => run[q].phase = "idle"
      BY <1>1, OthersIdle DEF Inv
    <2>5. run' \in [Runs -> RunState] BY <1>1, <1>5, <2>1, <2>2
    <2> QED BY <2>2, <2>3, <2>4, <2>5
  <1>7. Types'
    <2>1. rows' \subseteq Row /\ lastId' \in Nat BY <1>2, <1>3, <1>5
    <2> QED BY <1>1, <1>6, <2>1 DEF Inv, Types
  <1>8. OneRun' BY <1>1, <1>6 DEF Inv, OneRun, Active
  <1>9. CursorSound' BY <1>1 DEF Inv, CursorSound
  <1>10. \A t \in DOMAIN chain : Indexed(t) => Indexed(t)'
    BY <1>1, <1>2 DEF Indexed, Held
  <1>11. \A i \in 1 .. Len(G) : Indexed(G[i])'
    <2> SUFFICES ASSUME NEW i \in 1 .. Len(G), NEW j \in 1 .. chain[G[i]]
                 PROVE  Held(rows \cup R, G[i], j)
      BY <1>1, <1>2 DEF Indexed, Held
    <2>1. chain[G[i]] \in Nat BY <1>4, <1>5
    <2>2. j \in Nat \ {0} /\ j <= chain[G[i]] BY <2>1
    <2> QED BY <1>3, <2>2
  <1>12. RunsSound'
    <2>1. Processing(r) BY <1>1 DEF Inv, RunsSound
    <2>2. Group(r)' = G BY <1>2, <1>6 DEF Group
    <2>3. \A i \in 1 .. Len(G) : Indexed(f[i])' BY <1>4, <1>11
    <2>4. InReach(f[1])' BY <1>1, <1>2, <2>1 DEF Processing, InReach
    <2>5. Processing(r)'
      <3>1. /\ Len(f) > 0 /\ \A i \in 1 .. Len(f) : f[i] = f[1] + i - 1
            /\ f[1] > Old /\ f[1] > cursor /\ f[1] + Len(f) <= Len(chain) + 1
        BY <1>2, <2>1 DEF Processing
      <3> QED BY <1>1, <1>6, <2>2, <2>3, <2>4, <3>1 DEF Processing
    <2> QED BY <1>6, <2>5 DEF RunsSound
  <1>13. \A t : MayStore(t)' <=> MayStore(t)
    <2>1. \A t : Sees(r, t)' <=> Sees(r, t) BY <1>1, <1>2, <1>6 DEF Sees
    <2>2. \A t : \A q \in Runs : q # r => ~Sees(q, t)' /\ ~Sees(q, t)
      <3> SUFFICES ASSUME NEW t, NEW q \in Runs, q # r PROVE ~Sees(q, t)' /\ ~Sees(q, t)
        OBVIOUS
      <3> QED BY <1>6 DEF Sees
    <2> QED BY <1>1, <2>1, <2>2 DEF MayStore, Listable
  <1>14. Solid'
    <2> SUFFICES ASSUME NEW t \in DOMAIN chain, MayStore(t),
                        NEW x \in rows', t <= x.tx
                 PROVE  Indexed(t)'
      BY <1>1, <1>13 DEF Solid
    <2>1. CASE x \in rows BY <1>10, <2>1 DEF Inv, Solid
    <2>2. CASE x \in R /\ t >= f[1]
      <3>1. PICK i \in 1 .. Len(G) : x.tx = G[i] BY <1>3, <2>2
      <3>2. G[i] = f[1] + i - 1 /\ i \in Nat /\ t \in Nat BY <1>4, <1>5, <3>1
      <3>3. t - f[1] + 1 \in 1 .. Len(G) BY <1>4, <2>2, <3>1, <3>2
      <3>4. G[t - f[1] + 1] = f[1] + (t - f[1] + 1) - 1 BY <1>4, <3>3
      <3>5. f[1] + (t - f[1] + 1) - 1 = t BY <1>4, <3>2
      <3> QED BY <1>11, <3>3, <3>4, <3>5
    <2>3. CASE ~(t >= f[1])
      <3>1. \A q \in Runs : ~Sees(q, t) BY <1>1, <1>2, <1>6, <2>3 DEF Sees
      <3>2. Listable(t, cursor, Len(chain)) BY <3>1 DEF MayStore
      <3>3. InReach(f[1]) BY <1>1, <1>2 DEF Inv, RunsSound, Processing
      <3>4. t \in Nat /\ LookBack \in Nat BY <1>5, LookBackType
      <3>5. t > cursor /\ t > Old /\ t + LookBack > Len(chain) BY <3>2 DEF Listable
      <3>6. t < f[1] BY <1>4, <2>3, <3>4
      <3> QED BY <1>4, <1>5, <3>3, <3>4, <3>5, <3>6 DEF InReach
    <2> QED BY <1>2, <2>1, <2>2, <2>3
  <1>15. IdsSpent'
    <2> SUFFICES ASSUME NEW x \in rows' PROVE x.id <= lastId + Cardinality(N)
      BY <1>2 DEF IdsSpent
    <2>1. CASE x \in rows
      <3>1. x.id <= lastId /\ x.id \in Nat BY <1>5, <2>1 DEF Inv, IdsSpent, Row
      <3> QED BY <1>3, <1>5, <3>1
    <2>2. CASE x \in R BY <1>3, <2>2
    <2> QED BY <1>2, <2>1, <2>2
  <1>16. FeedInOrder'
    <2>1. \A x \in rows' : /\ x.tx \in Nat /\ x.position \in Nat /\ x.id \in Nat
                           /\ x.tx \in DOMAIN chain /\ x.position \in 1 .. chain[x.tx]
      BY <1>2, <1>3, <1>5 DEF Inv, FeedInOrder, Row
    <2>2. ASSUME NEW x \in rows, NEW y \in R
          PROVE  x.id < y.id /\ x.tx < y.tx
      <3>1. x.id < y.id
        <4>1. x.id <= lastId /\ lastId < y.id BY <1>3 DEF Inv, IdsSpent
        <4>2. x.id \in Nat /\ y.id \in Nat BY <1>2, <2>1
        <4> QED BY <1>5, <4>1, <4>2
      <3>2. ~(y.tx <= x.tx)
        <4>1. PICK i \in 1 .. Len(G) : y.tx = G[i] BY <1>3
        <4>2. G[i] = f[1] + i - 1 /\ i \in Nat /\ 1 <= i BY <1>4, <4>1
        <4>3. Sees(r, y.tx)
          <5>1. y.tx >= f[1] BY <1>4, <4>1, <4>2
          <5> QED BY <1>1, <1>2, <5>1 DEF Sees
        <4>4. y.tx <= x.tx => Indexed(y.tx) BY <1>3, <4>3 DEF Inv, Solid, MayStore
        <4>5. ~Indexed(y.tx) BY <1>3 DEF Indexed
        <4> QED BY <4>4, <4>5
      <3>3. x.tx \in Nat /\ y.tx \in Nat BY <1>2, <2>1
      <3> QED BY <3>1, <3>2, <3>3
    <2>3. \A x, y \in rows' : x.id < y.id <=> Sooner(x, y)
      <3> SUFFICES ASSUME NEW x \in rows', NEW y \in rows'
                   PROVE  x.id < y.id <=> Sooner(x, y)
        OBVIOUS
      <3>1. CASE x \in rows /\ y \in rows
        BY <3>1 DEF Inv, FeedInOrder, Sooner
      <3>2. CASE x \in rows /\ y \in R BY <2>2, <3>2 DEF Sooner
      <3>3. CASE x \in R /\ y \in rows
        <4>1. y.id < x.id /\ y.tx < x.tx BY <2>2, <3>3
        <4> QED BY <2>1, <4>1 DEF Sooner
      <3>4. CASE x \in R /\ y \in R BY <1>3, <3>4
      <3> QED BY <1>2, <3>1, <3>2, <3>3, <3>4
    <2>4. \A x, y \in rows' : x.id = y.id => x = y
      <3> SUFFICES ASSUME NEW x \in rows', NEW y \in rows', x.id = y.id
                   PROVE  x = y
        OBVIOUS
      <3>1. ~Sooner(x, y) /\ ~Sooner(y, x) BY <2>1, <2>3
      <3>2. x.tx = y.tx /\ x.position = y.position BY <2>1, <3>1 DEF Sooner
      <3>3. x \in Row /\ y \in Row BY <1>7 DEF Types
      <3> QED BY <3>2, <3>3 DEF Row
    <2> QED BY <1>1, <2>1, <2>3, <2>4 DEF FeedInOrder, Sooner
  <1> QED BY <1>7, <1>8, <1>9, <1>12, <1>14, <1>15, <1>16 DEF Inv

-----------------------------------------------------------------------------
(* Saving the cursor.                                                      *)

(* The cursor moves on to the last transaction of the group. *)
LEMMA Saved ==
    ASSUME Inv, NEW r \in Runs, SaveCursor(r)
    PROVE  LET f == run[r].fresh IN
           /\ cursor' = f[1] + Len(Group(r)) - 1
           /\ cursor' \in Nat /\ cursor < f[1] /\ f[1] <= cursor'
           /\ cursor' <= Len(chain) /\ Old < cursor'
           /\ base' = IF cursor = 0 THEN f[1] ELSE base
           /\ \A t \in Nat : f[1] <= t /\ t <= cursor' => Indexed(t)
  <1>1. run[r].phase = "stored" /\ run[r].phase \in {"fetching", "stored"} BY DEF SaveCursor
  <1>2. PICK f, G : f = run[r].fresh /\ G = Group(r) OBVIOUS
  <1>3. /\ f[1] \in Nat /\ Len(f) \in Nat /\ f[1] > Old /\ f[1] > cursor
        /\ f[1] + Len(f) <= Len(chain) + 1
        /\ G \in Seq(Nat) /\ Len(G) \in Nat /\ 1 <= Len(G) /\ Len(G) <= Len(f)
        /\ \A i \in 1 .. Len(G) : G[i] = f[1] + i - 1 /\ G[i] = f[i]
    BY <1>1, <1>2, GroupShape
  <1>4. /\ Len(chain) \in Nat /\ cursor \in Nat /\ Old \in Nat
    BY ChainTypes, IndexerAssumption DEF Inv, Types
  <1>11. /\ f[1] \in Nat /\ Len(f) \in Nat /\ f[1] > Old /\ f[1] > cursor
         /\ f[1] + Len(f) <= Len(chain) + 1
         /\ Len(G) \in Nat /\ 1 <= Len(G) /\ Len(G) <= Len(f)
    BY <1>3
  <1>5. 1 \in 1 .. Len(G) /\ Len(G) \in 1 .. Len(G) BY <1>3
  <1>6. cursor' = G[Len(G)] BY <1>2 DEF SaveCursor, Last
  <1>7. G[Len(G)] = f[1] + Len(G) - 1 /\ G[1] = f[1] BY <1>3, <1>5
  <1>8. base' = IF cursor = 0 THEN G[1] ELSE base
    <2>1. Head(G) = G[1] BY <1>3
    <2> QED BY <1>2, <2>1 DEF SaveCursor
  <1>9. ASSUME NEW t \in Nat, f[1] <= t, t <= f[1] + Len(G) - 1 PROVE Indexed(t)
    <2>1. t - f[1] + 1 \in 1 .. Len(G) /\ f[1] + (t - f[1] + 1) - 1 = t BY <1>9, <1>11
    <2>2. f[t - f[1] + 1] = t BY <1>3, <2>1
    <2>3. \A i \in 1 .. Len(G) : Indexed(f[i])
      BY <1>1, <1>2 DEF Inv, RunsSound, Processing
    <2> QED BY <2>1, <2>2, <2>3
  <1>10. /\ cursor' = f[1] + Len(G) - 1 /\ cursor' \in Nat
         /\ cursor < f[1] /\ f[1] <= cursor' /\ cursor' <= Len(chain) /\ Old < cursor'
    BY <1>4, <1>6, <1>7, <1>11
  <1> QED BY <1>2, <1>7, <1>8, <1>9, <1>10

LEMMA SaveKeeps ==
    ASSUME Inv, NEW r \in Runs, SaveCursor(r)
    PROVE  Inv'
  <1>1. /\ run[r].phase = "stored" /\ run[r].phase \in {"fetching", "stored"} /\ Active(r)
        /\ UNCHANGED <<chain, rows, lastId>>
    BY DEF SaveCursor, Active
  <1>2. PICK f, G, left :
            /\ f = run[r].fresh /\ G = Group(r)
            /\ left = SubSeq(f, Len(G) + 1, Len(f))
    OBVIOUS
  <1>3. /\ f \in Seq(Nat) /\ f[1] \in Nat /\ Len(f) \in Nat
        /\ f[1] > Old /\ f[1] > cursor
        /\ f[1] + Len(f) <= Len(chain) + 1
        /\ Len(G) \in Nat /\ 1 <= Len(G) /\ Len(G) <= Len(f)
        /\ \A i \in 1 .. Len(f) : f[i] = f[1] + i - 1
    BY <1>1, <1>2, GroupShape
  <1>4. /\ cursor' = f[1] + Len(G) - 1 /\ cursor' \in Nat /\ cursor < f[1]
        /\ f[1] <= cursor' /\ cursor' <= Len(chain) /\ Old < cursor'
        /\ base' = IF cursor = 0 THEN f[1] ELSE base
    BY <1>2, Saved
  <1>5. /\ run \in [Runs -> RunState] /\ rows \subseteq Row
        /\ cursor \in Nat /\ Old \in Nat /\ base \in Nat /\ base <= cursor
        /\ Len(chain) \in Nat /\ DOMAIN chain = 1 .. Len(chain)
    BY IndexerAssumption, ChainTypes DEF Inv, Types, CursorSound
  <1>6. /\ left \in Seq(Nat) /\ Len(left) = Len(f) - Len(G)
        /\ \A i \in 1 .. Len(left) : left[i] = cursor' + i
    <2>1. Len(G) + 1 \in Nat \ {0} BY <1>3
    <2>2. /\ left \in Seq(Nat)
          /\ Len(left) = IF Len(G) + 1 <= Len(f) THEN Len(f) - (Len(G) + 1) + 1 ELSE 0
          /\ \A i \in 1 .. Len(f) - (Len(G) + 1) + 1 : left[i] = f[Len(G) + 1 + i - 1]
      <3>1. f \in Seq(Nat) /\ Len(f) \in Nat /\ Len(f) <= Len(f) BY <1>3
      <3> QED BY <1>2, <2>1, <3>1, SubSeqType
    <2>3. Len(left) = Len(f) - Len(G) /\ Len(f) - (Len(G) + 1) + 1 = Len(f) - Len(G)
      BY <1>3, <2>2
    <2>4. ASSUME NEW i \in 1 .. Len(f) - Len(G) PROVE left[i] = cursor' + i
      <3>1. Len(G) + 1 + i - 1 \in 1 .. Len(f) BY <1>3
      <3>2. f[Len(G) + 1 + i - 1] = f[1] + (Len(G) + 1 + i - 1) - 1 BY <1>3, <3>1
      <3>3. left[i] = f[Len(G) + 1 + i - 1] BY <2>2, <2>3
      <3>4. f[1] + (Len(G) + 1 + i - 1) - 1 = cursor' + i BY <1>3, <1>4
      <3> QED BY <3>2, <3>3, <3>4
    <2> QED BY <2>2, <2>3, <2>4
  <1>7. \/ Finish(r)
        \/ /\ left # <<>> /\ inflight' = inflight
           /\ run' = [run EXCEPT ![r].phase = "fetching", ![r].fresh = left]
    BY <1>2 DEF SaveCursor
  <1>8. \A q \in Runs : q # r => run[q].phase = "idle" /\ run'[q] = run[q]
    BY <1>1, <1>5, <1>7, OthersIdle DEF Inv, Finish
  <1>9. /\ run' \in [Runs -> RunState]
        /\ \/ run'[r].phase = "idle" /\ inflight' = {}
           \/ /\ run'[r].phase = "fetching" /\ run'[r].fresh = left /\ left # <<>>
              /\ inflight' = {r}
    <2>1. CASE Finish(r)
      <3>1. Idle \in RunState /\ Idle.phase = "idle" BY DEF Idle, RunState
      <3>2. run' = [run EXCEPT ![r] = Idle] /\ inflight' = {} BY <2>1 DEF Finish, FreedRun, NoRun
      <3> QED BY <1>5, <3>1, <3>2
    <2>2. CASE /\ left # <<>> /\ inflight' = inflight
               /\ run' = [run EXCEPT ![r].phase = "fetching", ![r].fresh = left]
      <3>1. run'[r] = [run[r] EXCEPT !.phase = "fetching", !.fresh = left] /\ run[r] \in RunState
        BY <1>5, <2>2
      <3>2. run'[r] \in RunState /\ run'[r].phase = "fetching" /\ run'[r].fresh = left
        BY <1>6, <3>1 DEF RunState
      <3>3. inflight = {r} BY <1>1, OthersIdle DEF Inv
      <3> QED BY <1>5, <2>2, <3>1, <3>2, <3>3
    <2> QED BY <1>7, <2>1, <2>2
  <1>10. Types' BY <1>1, <1>3, <1>4, <1>5, <1>9 DEF Inv, Types
  <1>11. OneRun' BY <1>8, <1>9 DEF OneRun, Active
  <1>12. CursorSound'
    <2>1. base' <= cursor' BY <1>3, <1>4, <1>5
    <2> QED BY <1>1, <1>4, <2>1 DEF CursorSound
  <1>13. run'[r].phase # "idle" =>
            Len(left) > 0 /\ left[1] = cursor' + 1 /\ left[1] > f[1]
    <2> SUFFICES ASSUME left # <<>>
                 PROVE  Len(left) > 0 /\ left[1] = cursor' + 1 /\ left[1] > f[1]
      BY <1>9
    <2>1. Len(left) > 0 /\ 1 \in 1 .. Len(left) BY <1>6
    <2>2. left[1] = cursor' + 1 BY <1>6, <2>1
    <2> QED BY <1>3, <1>4, <2>1, <2>2
  <1>14. RunsSound'
    <2>1. ASSUME run'[r].phase = "fetching" PROVE Processing(r)'
      <3>1. /\ run'[r].fresh = left /\ Len(left) > 0 /\ left[1] = cursor' + 1
        BY <1>9, <1>13, <2>1
      <3>2. Len(left) \in Nat /\ \A i \in 1 .. Len(left) : left[i] = left[1] + i - 1
        BY <1>4, <1>6, <3>1
      <3>3. left[1] + Len(left) <= Len(chain) + 1
        <4>1. /\ f[1] \in Nat /\ Len(f) \in Nat /\ Len(G) \in Nat
              /\ f[1] + Len(f) <= Len(chain) + 1 /\ cursor' = f[1] + Len(G) - 1
              /\ left[1] = cursor' + 1 /\ Len(left) = Len(f) - Len(G)
          BY <1>3, <1>4, <1>6, <3>1
        <4> QED BY <1>5, <4>1
      <3>4. left[1] > Old /\ left[1] > cursor' BY <1>4, <1>5, <3>1
      <3>5. InReach(left[1])' BY <1>4, <3>1 DEF InReach
      <3> QED BY <1>1, <2>1, <3>1, <3>2, <3>3, <3>4, <3>5 DEF Processing
    <2> QED BY <1>8, <1>9, <2>1 DEF RunsSound
  <1>15. Solid'
    <2>1. ASSUME NEW t \in DOMAIN chain, MayStore(t)' PROVE MayStore(t)
      <3>1. t \in Nat BY <1>5
      <3>2. CASE Listable(t, cursor, Len(chain))'
        <4>1. t > cursor' /\ t > Old /\ t + LookBack > Len(chain) BY <1>1, <3>2 DEF Listable
        <4>2. t > cursor BY <1>3, <1>4, <1>5, <3>1, <4>1
        <4> QED BY <4>1, <4>2 DEF MayStore, Listable
      <3>3. ASSUME NEW q \in Runs, Sees(q, t)' PROVE Sees(r, t)
        <4>1. q = r BY <1>8, <3>3 DEF Sees
        <4>2. run'[r].phase = "fetching" /\ t >= left[1] /\ left[1] > f[1]
          BY <1>9, <1>13, <3>3, <4>1 DEF Sees
        <4>3. left[1] \in Nat BY <1>4, <1>9, <1>13, <4>2
        <4>4. t >= f[1] BY <1>3, <3>1, <4>2, <4>3
        <4> QED BY <1>1, <1>2, <4>4 DEF Sees
      <3> QED BY <2>1, <3>2, <3>3 DEF MayStore
    <2>2. \A t : Indexed(t)' <=> Indexed(t) BY <1>1 DEF Indexed, Held
    <2> QED BY <1>1, <2>1, <2>2 DEF Inv, Solid
  <1>16. IdsSpent' /\ FeedInOrder' BY <1>1 DEF Inv, IdsSpent, FeedInOrder
  <1> QED BY <1>10, <1>11, <1>12, <1>14, <1>15, <1>16 DEF Inv

-----------------------------------------------------------------------------

(* Every step of the indexer, its callers and its surroundings. *)
THEOREM Step == Inv /\ [IndexerNext]_indexerVars => Inv'
  <1> SUFFICES ASSUME Inv, [IndexerNext]_indexerVars PROVE Inv' OBVIOUS
  <1>1. ASSUME NEW r \in Runs, Refresh(r) PROVE Inv' BY <1>1, RefreshKeeps
  <1>2. ASSUME NEW r \in Runs, ListPage(r) PROVE Inv' BY <1>2, ListKeeps
  <1>3. ASSUME NEW r \in Runs, StoreGroup(r) PROVE Inv' BY <1>3, StoreKeeps
  <1>4. ASSUME NEW r \in Runs, SaveCursor(r) PROVE Inv' BY <1>4, SaveKeeps
  <1>5. ASSUME NEW r \in Runs, GiveUp(r) PROVE Inv'
    <2>1. /\ Active(r) /\ Finish(r) /\ UNCHANGED <<chain, rows, lastId, cursor, base>>
      BY <1>5 DEF GiveUp, CursorAfterFailure, Active
    <2> QED BY <2>1, FinishKeeps
  <1>6. ASSUME NEW n \in 0 .. MaxEvents, Land(n) PROVE Inv' BY <1>6, LandKeeps
  <1>7. ASSUME UNCHANGED <<chain, rows, lastId, cursor, base, run, inflight>> PROVE Inv'
    <2>1. run' \in [Runs -> RunState] BY <1>7 DEF Inv, Types
    <2>2. OneRun' BY <1>7 DEF Inv, OneRun, Active
    <2> QED BY <1>7, <2>1, <2>2, EndedKeeps
  <1>8. CASE Rested BY <1>7, <1>8 DEF Rested
  <1>9. CASE IndexerCrash
    <2>1. Idle \in RunState /\ Idle.phase = "idle" BY DEF Idle, RunState
    <2>2. /\ run' = [r \in Runs |-> Idle] /\ inflight' = {}
          /\ UNCHANGED <<chain, rows, lastId, cursor, base>>
      BY <1>9 DEF IndexerCrash, NoRun
    <2>3. run' \in [Runs -> RunState] /\ \A r \in Runs : run'[r].phase = "idle" BY <2>1, <2>2
    <2>4. OneRun' BY <2>2, <2>3 DEF OneRun, Active
    <2> QED BY <2>2, <2>3, <2>4, EndedKeeps
  <1>10. CASE UNCHANGED indexerVars BY <1>7, <1>10 DEF indexerVars
  <1> QED BY <1>1, <1>2, <1>3, <1>4, <1>5, <1>6, <1>8, <1>9, <1>10 DEF IndexerNext, Proceed

(* So the invariant holds throughout. *)
THEOREM Invariance == IndexerSpec => []Inv
  BY Initially, Step, PTL DEF IndexerSpec

(* The feed lists what the chain emitted, in its order and each once, with *)
(* ids that follow it, for any number of runs, failures and crashes.       *)
THEOREM FeedAlwaysInOrder == IndexerSpec => []FeedInOrder
  <1>1. Inv => FeedInOrder BY DEF Inv
  <1> QED BY <1>1, Invariance, PTL

(* No step moves the cursor back, a crash or a failed run least of all. *)
THEOREM CursorNeverBack == IndexerSpec => CursorAdvances
  <1>1. ASSUME Inv, [IndexerNext]_indexerVars PROVE [cursor' >= cursor]_indexerVars
    <2>1. cursor \in Nat BY <1>1 DEF Inv, Types
    <2>2. ASSUME NEW r \in Runs, SaveCursor(r) PROVE cursor' >= cursor
      <3>1. PICK f : f = run[r].fresh OBVIOUS
      <3>2. cursor' \in Nat /\ cursor < f[1] /\ f[1] <= cursor' BY <1>1, <2>2, <3>1, Saved
      <3>3. f[1] \in Nat
        BY <1>1, <2>2, <3>1, GroupShape DEF SaveCursor
      <3> QED BY <2>1, <3>2, <3>3
    <2>3. ASSUME UNCHANGED cursor PROVE cursor' >= cursor BY <2>1, <2>3
    <2> QED BY <1>1, <2>2, <2>3
        DEF IndexerNext, Proceed, Refresh, ListPage, StoreGroup, GiveUp, CursorAfterFailure,
            Land, Rested, IndexerCrash
  <1> QED BY <1>1, Invariance, PTL DEF IndexerSpec, CursorAdvances

-----------------------------------------------------------------------------
(* No gap behind the cursor.                                               *)

(* The chain has not run away from the cursor by more than a run lists.    *)
KeptUp == cursor # 0 => Len(chain) <= cursor + LookBack

(* While it has not, a run that continues from a cursor starts right after *)
(* it, and so leaves nothing out.                                          *)
LEMMA NoGapStep ==
    ASSUME Inv, KeptUp, NoGapBehindCursor, [IndexerNext]_indexerVars
    PROVE  NoGapBehindCursor'
  <1>1. /\ cursor \in Nat /\ base \in Nat /\ cursor <= Len(chain)
        /\ cursor # 0 => cursor > Old
        /\ Len(chain) \in Nat /\ DOMAIN chain = 1 .. Len(chain)
        /\ LookBack \in Nat /\ Old \in Nat
    BY ChainTypes, LookBackType, IndexerAssumption DEF Inv, Types, CursorSound
  <1>2. ASSUME UNCHANGED <<chain, cursor, base>>, rows \subseteq rows'
        PROVE  NoGapBehindCursor'
    BY <1>2 DEF NoGapBehindCursor, Indexed, Held
  <1>3. ASSUME NEW n \in 0 .. MaxEvents, Land(n) PROVE NoGapBehindCursor'
    <2>1. /\ UNCHANGED <<rows, cursor, base>> /\ chain' = Append(chain, n)
      BY <1>3 DEF Land
    <2>2. /\ DOMAIN chain' = 1 .. Len(chain) + 1
          /\ \A t \in 1 .. Len(chain) : chain'[t] = chain[t]
      <3>1. chain \in Seq(0 .. MaxEvents) BY DEF Inv, Types
      <3> QED BY <2>1, <3>1
    <2>3. \A t \in DOMAIN chain' : t <= cursor => t \in 1 .. Len(chain) BY <1>1, <2>2
    <2> QED BY <1>1, <2>1, <2>2, <2>3 DEF NoGapBehindCursor, Indexed, Held
  <1>4. ASSUME NEW r \in Runs, SaveCursor(r) PROVE NoGapBehindCursor'
    <2>1. PICK low : low = run[r].fresh[1] OBVIOUS
    <2>2. /\ cursor' \in Nat /\ cursor < low /\ low <= cursor' /\ Old < cursor'
          /\ base' = IF cursor = 0 THEN low ELSE base
          /\ \A t \in Nat : low <= t /\ t <= cursor' => Indexed(t)
      BY <1>4, <2>1, Saved
    <2>3. low \in Nat /\ low > Old BY <1>4, <2>1, GroupShape DEF SaveCursor
    <2>4. cursor # 0 => low = cursor + 1
      <3>1. InReach(low) BY <1>4, <2>1 DEF SaveCursor, Inv, RunsSound, Processing
      <3> QED BY <1>1, <2>2, <2>3, <3>1 DEF InReach, KeptUp
    <2>5. UNCHANGED <<chain, rows>> BY <1>4 DEF SaveCursor
    <2>6. ASSUME NEW t \in DOMAIN chain, base' <= t, t <= cursor' PROVE Indexed(t)
      <3>1. t \in Nat /\ t # 0 BY <1>1
      <3>2. CASE low <= t BY <2>2, <2>6, <3>1, <3>2
      <3>3. CASE ~(low <= t)
        <4>1. cursor # 0 /\ base <= t /\ t <= cursor
          BY <1>1, <2>2, <2>3, <2>4, <2>6, <3>1, <3>3
        <4> QED BY <4>1 DEF NoGapBehindCursor
      <3> QED BY <3>2, <3>3
    <2> QED BY <2>5, <2>6 DEF NoGapBehindCursor, Indexed, Held
  <1>5. ASSUME NEW r \in Runs, StoreGroup(r) PROVE NoGapBehindCursor'
    BY <1>2, <1>5 DEF StoreGroup
  <1>6. ASSUME \/ \E r \in Runs : Refresh(r) \/ ListPage(r) \/ GiveUp(r)
               \/ Rested \/ IndexerCrash \/ UNCHANGED indexerVars
        PROVE  UNCHANGED <<chain, rows, cursor, base>>
    BY <1>6 DEF Refresh, ListPage, GiveUp, CursorAfterFailure, Rested, IndexerCrash, indexerVars
  <1> QED BY <1>2, <1>3, <1>4, <1>5, <1>6 DEF IndexerNext, Proceed

(* "a failure leaves no gap behind the cursor", as long as no more         *)
(* transactions land between two runs than a run lists: the look-back      *)
(* limit is the only thing that can make the indexer leave one out.        *)
THEOREM NoGapWhileKeptUp == IndexerSpec /\ []KeptUp => []NoGapBehindCursor
  <1>1. IndexerInit => NoGapBehindCursor BY DEF IndexerInit, NoGapBehindCursor
  <1>2. Inv /\ KeptUp /\ NoGapBehindCursor /\ [IndexerNext]_indexerVars => NoGapBehindCursor'
    BY NoGapStep
  <1> QED BY <1>1, <1>2, Invariance, PTL DEF IndexerSpec

(* In particular with no more of them than that in all. *)
THEOREM NoGapUpToLookBack ==
    ASSUME MaxTx <= Old + LookBack
    PROVE  IndexerSpec => []NoGapBehindCursor
  <1>1. Inv => KeptUp
    <2> SUFFICES ASSUME Inv, cursor # 0 PROVE Len(chain) <= cursor + LookBack
      BY DEF KeptUp
    <2>1. /\ Len(chain) <= MaxTx /\ cursor > Old /\ cursor \in Nat
          /\ Len(chain) \in Nat /\ LookBack \in Nat /\ Old \in Nat /\ MaxTx \in Nat
      BY ChainTypes, LookBackType, IndexerAssumption DEF Inv, Types, CursorSound
    <2> QED BY <2>1
  <1> QED BY <1>1, Invariance, NoGapWhileKeptUp, PTL
=============================================================================

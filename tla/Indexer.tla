------------------------------ MODULE Indexer ------------------------------
(***************************************************************************)
(* The announcement indexer of the backend: it walks the program's         *)
(* transaction history over RPC and keeps an ordered copy of the stealth   *)
(* announcements in SQLite, behind a cursor.                               *)
(*                                                                         *)
(* A run suspends at every await; while it does, transactions land on the  *)
(* chain, other requests call refresh, an RPC call fails, or the process   *)
(* dies.  insert and setCursor are two SQLite transactions: no other task  *)
(* of the event loop comes between them, but a crash can.                  *)
(***************************************************************************)
EXTENDS Integers, FiniteSets, SequencesExt

CONSTANTS
    PAGE, MAX_PAGES, CONCURRENCY,
    MaxTx,      \* bound on the transactions of the program
    MaxEvents,  \* announcements in one transaction, at most
    MaxFaults,  \* bound on failed RPC calls and crashes
    Old,        \* how many transactions are older than `since'
    Runs        \* names for invocations of run()

ASSUME IndexerAssumption ==
    /\ PAGE \in Nat \ {0} /\ MAX_PAGES \in Nat \ {0} /\ CONCURRENCY \in Nat \ {0}
    /\ MaxTx \in Nat /\ MaxEvents \in Nat /\ MaxFaults \in Nat /\ Old \in Nat

VARIABLES
    chain,      \* the program's transactions, oldest first: how many
                \* announcements each emitted (0 for a failed one)
    rows,       \* the announcements table: records of tx, position and id
    lastId,     \* the last id AUTOINCREMENT gave out
    cursor,     \* kv.announcement_cursor: a transaction, 0 when not set
    run,        \* the local state of each invocation of run()
    inflight,   \* the promise refresh() shares: the run behind it, if any
    resting,    \* less than minIntervalMs since the last run ended
    faults,     \* failures so far
    base        \* the transaction at which indexing began (history)

indexerVars == <<chain, rows, lastId, cursor, run, inflight, resting, faults, base>>

(* until: the cursor the run started from; fresh: while listing, the new   *)
(* transactions newest first; afterwards, those to process oldest first.   *)
Idle == [phase |-> "idle", until |-> 0, before |-> 0, page |-> 0, fresh |-> <<>>]

NoRun == {}

IndexerInit ==
    /\ chain = <<>> /\ rows = {} /\ lastId = 0 /\ cursor = 0
    /\ run = [r \in Runs |-> Idle]
    /\ inflight = NoRun /\ resting = FALSE
    /\ faults = 0 /\ base = 0

(* Between insert and setCursor the event loop runs nothing else. *)
Yielded == \A r \in Runs : run[r].phase # "stored"

-----------------------------------------------------------------------------
(* Helpers.  Faulty variants stand before the definition they replace in   *)
(* the checks of PROJECT.json.                                             *)

IsNew(t) == t > Old

(* listSignatures: the newest PAGE transactions older than `before' (if    *)
(* given) and newer than `until', newest first.                            *)
Batch(r) ==
    LET top  == IF run[r].before = 0 THEN Len(chain) ELSE run[r].before - 1
        room == IF top > run[r].until THEN top - run[r].until ELSE 0
        size == IF room < PAGE THEN room ELSE PAGE
    IN  [i \in 1 .. size |-> top + 1 - i]

(* batch.filter(isNew): as a page is newest first, what is new comes first.*)
NewOnes(batch) == SubSeq(batch, 1, Cardinality({i \in DOMAIN batch : IsNew(batch[i])}))

(* The next transactions whose logs are fetched together. *)
Group(r) ==
    LET f == run[r].fresh
    IN  SubSeq(f, 1, IF Len(f) < CONCURRENCY THEN Len(f) ELSE CONCURRENCY)

(* The announcements of some transactions, as the loop meets them: the     *)
(* place of the transaction among them and the position within it.         *)
Emitted(txs) == {e \in (DOMAIN txs) \X (1 .. MaxEvents) : e[2] <= chain[txs[e[1]]]}

NoLater(d, e) == d[1] < e[1] \/ (d[1] = e[1] /\ d[2] <= e[2])

Held(table, t, j) == \E row \in table : row.tx = t /\ row.position = j

(* Rows for some announcements, numbered on from lastId in their order. *)
Numbered(new, txs) ==
    {[tx |-> txs[e[1]], position |-> e[2],
      id |-> lastId + Cardinality({d \in new : NoLater(d, e)})] : e \in new}

InsertedAll(txs) == Emitted(txs)

(* INSERT OR IGNORE on UNIQUE (signature, position). *)
Inserted(txs) == {e \in Emitted(txs) : ~Held(rows, txs[e[1]], e[2])}

(* Where a run that could not fetch a group leaves the cursor. *)
CursorPastFailure(r) == Last(Group(r))
CursorAfterFailure(r) == cursor

(* All announcements of a transaction are in the feed. *)
Indexed(t) == \A j \in 1 .. chain[t] : Held(rows, t, j)

FreedNever == inflight

(* finally { inflight = null } *)
FreedRun == NoRun

AlwaysFree == TRUE

(* if (inflight) return inflight *)
NobodyRuns == inflight = NoRun

-----------------------------------------------------------------------------
(* The steps of a run.                                                     *)

Finish(r) ==
    /\ run' = [run EXCEPT ![r] = Idle]
    /\ inflight' = FreedRun
    /\ resting' = TRUE

(* refresh(): share the run in flight, skip if the last one is recent, or  *)
(* start one; it reads the cursor before its first await.                  *)
Refresh(r) ==
    /\ Yielded /\ NobodyRuns /\ ~resting
    /\ run[r].phase = "idle"
    /\ run' = [run EXCEPT ![r] = [Idle EXCEPT !.phase = "listing",
                                              !.until = cursor]]
    /\ inflight' = {r}
    /\ UNCHANGED <<chain, rows, lastId, cursor, resting, faults, base>>

(* A page arrives.  Stop at a short page, at one with something too old,   *)
(* or at the look-back limit; then process oldest first.                   *)
ListPage(r) ==
    LET batch == Batch(r)
        fresh == run[r].fresh \o NewOnes(batch)
        stop  == \/ Len(batch) < PAGE
                 \/ \E i \in DOMAIN batch : ~IsNew(batch[i])
                 \/ run[r].page + 1 = MAX_PAGES
    IN  /\ Yielded
        /\ run[r].phase = "listing"
        /\ \/ /\ ~stop
              /\ run' = [run EXCEPT ![r].fresh = fresh, ![r].page = @ + 1,
                                    ![r].before = Last(batch)]
              /\ UNCHANGED <<inflight, resting>>
           \/ stop /\ fresh = <<>> /\ Finish(r)
           \/ /\ stop /\ fresh # <<>>
              /\ run' = [run EXCEPT ![r].fresh = Reverse(fresh),
                                    ![r].phase = "fetching"]
              /\ UNCHANGED <<inflight, resting>>
        /\ UNCHANGED <<chain, rows, lastId, cursor, faults, base>>

(* All logs of the group are there: insert its announcements. *)
StoreGroup(r) ==
    /\ Yielded
    /\ run[r].phase = "fetching"
    /\ rows' = rows \cup Numbered(Inserted(Group(r)), Group(r))
    /\ lastId' = lastId + Cardinality(Inserted(Group(r)))
    /\ run' = [run EXCEPT ![r].phase = "stored"]
    /\ UNCHANGED <<chain, cursor, inflight, resting, faults, base>>

(* setCursor, then the next group if there is one. *)
SaveCursor(r) ==
    LET left == SubSeq(run[r].fresh, Len(Group(r)) + 1, Len(run[r].fresh))
    IN  /\ run[r].phase = "stored"
        /\ cursor' = Last(Group(r))
        /\ base' = IF cursor = 0 THEN Head(Group(r)) ELSE base
        /\ IF left = <<>> THEN Finish(r)
           ELSE /\ run' = [run EXCEPT ![r].phase = "fetching", ![r].fresh = left]
                /\ UNCHANGED <<inflight, resting>>
        /\ UNCHANGED <<chain, rows, lastId, faults>>

(* A page that cannot be listed, logs that cannot be fetched or are not    *)
(* available yet end the run where it stands.                              *)
GiveUp(r) ==
    /\ faults < MaxFaults /\ faults' = faults + 1
    /\ Yielded
    /\ run[r].phase \in {"listing", "fetching"}
    /\ cursor' = IF run[r].phase = "fetching" THEN CursorAfterFailure(r) ELSE cursor
    /\ Finish(r)
    /\ UNCHANGED <<chain, rows, lastId, base>>

-----------------------------------------------------------------------------
(* The environment.                                                        *)

Land(n) ==
    /\ Len(chain) < MaxTx
    /\ ~IsNew(Len(chain) + 1) => n = 0
    /\ chain' = Append(chain, n)
    /\ UNCHANGED <<rows, lastId, cursor, run, inflight, resting, faults, base>>

(* minIntervalMs passes. *)
Rested ==
    /\ resting /\ resting' = FALSE
    /\ UNCHANGED <<chain, rows, lastId, cursor, run, inflight, faults, base>>

(* The process dies and restarts: only the database survives. *)
IndexerCrash ==
    /\ faults < MaxFaults /\ faults' = faults + 1
    /\ run' = [r \in Runs |-> Idle]
    /\ inflight' = NoRun /\ resting' = FALSE
    /\ UNCHANGED <<chain, rows, lastId, cursor, base>>

Proceed(r) == ListPage(r) \/ StoreGroup(r) \/ SaveCursor(r)

IndexerNext ==
    \/ \E r \in Runs : Refresh(r) \/ Proceed(r) \/ GiveUp(r)
    \/ \E n \in 0 .. MaxEvents : Land(n)
    \/ Rested
    \/ IndexerCrash

IndexerSpec == IndexerInit /\ [][IndexerNext]_indexerVars

(* RPC calls end, with an answer or, at most MaxFaults times, without (the *)
(* failure is then a step too), and the event loop runs what is ready.     *)
IndexerFairness ==
    WF_indexerVars(Rested) /\ \A r \in Runs : WF_indexerVars(Proceed(r) \/ GiveUp(r))

-----------------------------------------------------------------------------
(* Properties.                                                             *)

(* "ids follow chain order": the feed lists announcements the chain really *)
(* emitted, in the order of the chain, each once, whatever failed, crashed *)
(* or ran twice.                                                           *)
FeedInOrder ==
    /\ \A x \in rows : x.tx \in DOMAIN chain /\ x.position \in 1 .. chain[x.tx]
    /\ \A x, y \in rows :
          x.id < y.id <=> x.tx < y.tx \/ (x.tx = y.tx /\ x.position < y.position)
    /\ \A x, y \in rows : x.id = y.id => x = y

(* "a failure leaves no gap behind the cursor", which is "the newest       *)
(* program signature we have fully processed": since indexing began, every *)
(* announcement up to the cursor is in the feed.                           *)
NoGapBehindCursor ==
    \A t \in DOMAIN chain : base <= t /\ t <= cursor => Indexed(t)

(* The cursor never moves back: what was served is not fetched again, and  *)
(* ids handed to clients stay ahead of everything indexed later.           *)
CursorAdvances == [][cursor' >= cursor]_indexerVars

(* As long as wallets keep asking for the feed, every announcement         *)
(* eventually appears in it: no failure or crash leaves the indexer stuck  *)
(* on a run that is over.                                                  *)
EventuallyIndexed ==
    WF_indexerVars(\E r \in Runs : Refresh(r)) =>
        \A t \in 1 .. MaxTx :
            (t <= Len(chain)) ~> (t \in DOMAIN chain /\ Indexed(t))
=============================================================================

---------------------------- MODULE FaucetProofs ----------------------------
(***************************************************************************)
(* The limits of the faucet for any number of requests, addresses and IPs, *)
(* any cooldown and any quota, whatever times out, fails or crashes.       *)
(*                                                                         *)
(* Both limits are checked long before a mint lands.  They hold because    *)
(* nothing can come between: as long as an address is not raced, or an IP  *)
(* not crowded, the request that passed the checks is the only one under   *)
(* way, so what was true at the check (Cooled, Room) is true at the mint.  *)
(***************************************************************************)
EXTENDS Faucet, FiniteSetTheorems, TLAPS

Claim == [by : Requests, address : Addresses, ip : Ips, at : Nat]

Mint == [by : Requests, to : Addresses, ip : Ips, at : Nat]

Types ==
    /\ now \in Nat
    /\ req \in [Requests -> Request]
    /\ claims \subseteq Claim /\ IsFiniteSet(claims)
    /\ minted \subseteq Mint /\ IsFiniteSet(minted)
    /\ pending \subseteq Requests

(* A mint belongs to a request that sent it, and to no other mint. *)
MintsSound ==
    /\ \A m \in minted :
          /\ m.to = req[m.by].to /\ m.ip = req[m.by].ip /\ m.at <= now
          /\ req[m.by].phase \in {"landed", "done"} /\ m.by \notin pending
    /\ \A m, n \in minted : m.by = n.by => m = n

(* A mint that may land although nobody waits will not be recorded. *)
PendingSound ==
    \A r \in pending : req[r].phase = "done" /\ req[r].to \in unrecorded

(* A mint whose request is over is recorded, at its time or later, or its  *)
(* address is known not to be.                                             *)
Recorded ==
    \A m \in minted : req[m.by].phase = "done" /\ m.to \notin unrecorded =>
        \E c \in claims : c.by = m.by /\ c.address = m.to /\ c.ip = m.ip /\ m.at <= c.at

(* What raced and crowded mean. *)
Alone ==
    \A p, q \in Requests : p # q /\ Active(p) /\ Active(q) =>
        /\ req[p].to = req[q].to => req[p].to \in raced
        /\ req[p].ip = req[q].ip => req[p].ip \in crowded

(* Unless raced, an address is marked until its request is over. *)
Marked ==
    \A r \in Requests :
        req[r].phase \in {"minting", "landed"} /\ req[r].to \notin raced => req[r].to \in inFlight

(* The checks a request has passed and whose mint is yet to come. *)
Due(r) == req[r].phase \in {"balance", "minting"}

(* They still hold: the cooldown of the address is over... *)
Cooled ==
    \A r \in Requests : Due(r) /\ req[r].to \notin raced \cup unrecorded =>
        \A m \in minted : m.to = req[r].to => now - m.at >= COOLDOWN

(* ... and the quota of the IP has room. *)
Counted(ip, t) ==
    {n \in minted : /\ n.ip = ip /\ n.to \notin unrecorded
                    /\ n.at <= t /\ t - n.at < COOLDOWN}

Room ==
    \A r \in Requests : Due(r) /\ req[r].ip \notin crowded =>
        Cardinality(Counted(req[r].ip, now)) < MAX_CLAIMS_PER_IP_PER_DAY

Quota ==
    \A ip \in Ips : ip \notin crowded =>
        \A t \in Nat : Cardinality(Counted(ip, t)) <= MAX_CLAIMS_PER_IP_PER_DAY

Inv ==
    /\ Types /\ MintsSound /\ PendingSound /\ Recorded /\ Alone /\ Marked
    /\ Cooled /\ Room /\ Quota /\ OncePerAddressUnlessRaced

LEMMA RequestTypes ==
    ASSUME Types, NEW r \in Requests
    PROVE  /\ req[r] \in Request /\ req[r].phase \in Phases
           /\ req[r].to \in Addresses /\ req[r].ip \in Ips
  BY DEF Types, Request

LEMMA MintTypes ==
    ASSUME Types, NEW m \in minted
    PROVE  /\ m.by \in Requests /\ m.to \in Addresses /\ m.ip \in Ips /\ m.at \in Nat
           /\ m = [by |-> m.by, to |-> m.to, ip |-> m.ip, at |-> m.at]
  BY DEF Types, Mint

(* Counting fewer mints. *)
LEMMA CountedBounds ==
    ASSUME Types, NEW ip, NEW t
    PROVE  /\ IsFiniteSet(Counted(ip, t)) /\ Cardinality(Counted(ip, t)) \in Nat
           /\ \A S : S \subseteq Counted(ip, t) =>
                 /\ IsFiniteSet(S) /\ Cardinality(S) \in Nat
                 /\ Cardinality(S) <= Cardinality(Counted(ip, t))
  <1>1. IsFiniteSet(minted) /\ Counted(ip, t) \in SUBSET minted BY DEF Types, Counted
  <1>2. IsFiniteSet(Counted(ip, t)) BY <1>1, FS_Subset
  <1> QED BY <1>2, FS_Subset, FS_CardinalityType

(* At the start nobody has asked for anything. *)
THEOREM Initially == FaucetInit => Inv
  <1> SUFFICES ASSUME FaucetInit PROVE Inv OBVIOUS
  <1>1. /\ now = 0 /\ claims = {} /\ minted = {} /\ pending = {}
        /\ req \in [Requests -> {q \in Request : q.phase = "new"}]
    BY DEF FaucetInit
  <1>2. \A r \in Requests : req[r] \in Request /\ req[r].phase = "new" BY <1>1
  <1>3. Types BY <1>1, <1>2, FS_EmptySet DEF Types
  <1>4. MintsSound /\ PendingSound /\ Recorded /\ OncePerAddressUnlessRaced
    BY <1>1 DEF MintsSound, PendingSound, Recorded, OncePerAddressUnlessRaced
  <1>5. Alone /\ Marked /\ Cooled /\ Room
    BY <1>2 DEF Alone, Active, Marked, Cooled, Room, Due
  <1>6. Quota
    <2> SUFFICES ASSUME NEW ip \in Ips, NEW t \in Nat
                 PROVE  Cardinality(Counted(ip, t)) <= MAX_CLAIMS_PER_IP_PER_DAY
      BY DEF Quota
    <2>1. Counted(ip, t) = {} BY <1>1 DEF Counted
    <2> QED BY <2>1, FS_EmptySet, FaucetAssumption
  <1> QED BY <1>3, <1>4, <1>5, <1>6 DEF Inv

(* Steps in which requests go on or end, time passes, and nothing is       *)
(* minted or recorded.                                                     *)
LEMMA QuietKeeps ==
    ASSUME Inv, Types', Marked',
           UNCHANGED <<claims, minted>>, now <= now',
           raced \subseteq raced', crowded \subseteq crowded', unrecorded \subseteq unrecorded',
           \A r \in Requests :
               /\ req'[r].to = req[r].to /\ req'[r].ip = req[r].ip
               /\ \/ req'[r].phase = req[r].phase
                  \/ req'[r].phase = "done" /\ r \notin pending
                  \/ req[r].phase = "balance" /\ req'[r].phase = "minting"
               /\ req[r].phase = "landed" /\ req'[r].phase = "done" =>
                      req[r].to \in unrecorded',
           \A r \in pending' : \/ r \in pending
                               \/ /\ req[r].phase = "minting" /\ req'[r].phase = "done"
                                  /\ req[r].to \in unrecorded'
    PROVE  Inv'
  <1>1. \A r \in Requests : /\ Active(r)' => Active(r)
                            /\ Due(r)' => Due(r)
    BY RequestTypes DEF Inv, Active, Due, Phases
  <1>2. now \in Nat /\ now' \in Nat /\ \A m \in minted : m.by \in Requests /\ m.at \in Nat
    BY MintTypes DEF Inv, Types
  <1>3. MintsSound'
    <2>1. ASSUME NEW m \in minted
          PROVE  /\ m.to = req'[m.by].to /\ m.ip = req'[m.by].ip /\ m.at <= now'
                 /\ req'[m.by].phase \in {"landed", "done"} /\ m.by \notin pending'
      <3>1. /\ m.to = req[m.by].to /\ m.ip = req[m.by].ip /\ m.at <= now
            /\ req[m.by].phase \in {"landed", "done"} /\ m.by \notin pending
        BY DEF Inv, MintsSound
      <3>2. m.at <= now' BY <1>2, <3>1
      <3> QED BY <1>2, <3>1, <3>2
    <2> QED BY <2>1 DEF Inv, MintsSound
  <1>4. PendingSound'
    <2> SUFFICES ASSUME NEW r \in pending'
                 PROVE  req'[r].phase = "done" /\ req'[r].to \in unrecorded'
      BY DEF PendingSound
    <2>1. r \in Requests BY DEF Types
    <2> QED BY <2>1 DEF Inv, PendingSound
  <1>5. Recorded'
    <2> SUFFICES ASSUME NEW m \in minted, req'[m.by].phase = "done", m.to \notin unrecorded'
                 PROVE  \E c \in claims : /\ c.by = m.by /\ c.address = m.to /\ c.ip = m.ip
                                          /\ m.at <= c.at
      BY DEF Recorded
    <2>1. m.to = req[m.by].to /\ req[m.by].phase \in {"landed", "done"}
      BY DEF Inv, MintsSound
    <2> QED BY <1>2, <2>1 DEF Inv, Recorded
  <1>6. Alone' BY <1>1 DEF Inv, Alone
  <1>7. Cooled'
    <2> SUFFICES ASSUME NEW r \in Requests, Due(r)', req'[r].to \notin raced' \cup unrecorded',
                        NEW m \in minted, m.to = req'[r].to
                 PROVE  now' - m.at >= COOLDOWN
      BY DEF Cooled
    <2>1. now - m.at >= COOLDOWN BY <1>1 DEF Inv, Cooled
    <2> QED BY <1>2, <2>1, FaucetAssumption
  <1>8. \A ip : \A t \in Nat : Counted(ip, t)' \subseteq Counted(ip, t)
    BY DEF Counted
  <1>9. Room'
    <2> SUFFICES ASSUME NEW r \in Requests, Due(r)', req'[r].ip \notin crowded'
                 PROVE  Cardinality(Counted(req[r].ip, now)') < MAX_CLAIMS_PER_IP_PER_DAY
      BY DEF Room
    <2> DEFINE ip == req[r].ip
    <2>1. Cardinality(Counted(ip, now)) < MAX_CLAIMS_PER_IP_PER_DAY
      BY <1>1 DEF Inv, Room
    <2>2. Counted(req[r].ip, now)' \subseteq Counted(ip, now)
      <3> SUFFICES ASSUME NEW n \in minted, n.ip = req'[r].ip, n.to \notin unrecorded',
                          n.at <= now', now' - n.at < COOLDOWN
                   PROVE  n \in Counted(ip, now)
        BY DEF Counted
      <3>1. n.at <= now BY DEF Inv, MintsSound
      <3>2. now - n.at < COOLDOWN BY <1>2, FaucetAssumption
      <3> QED BY <3>1, <3>2 DEF Counted
    <2>3. /\ Cardinality(Counted(ip, now)) \in Nat
          /\ Cardinality(Counted(req[r].ip, now)') \in Nat
          /\ Cardinality(Counted(req[r].ip, now)') <= Cardinality(Counted(ip, now))
      BY <2>2, CountedBounds DEF Inv
    <2> QED BY <2>1, <2>3, FaucetAssumption
  <1>10. Quota'
    <2> SUFFICES ASSUME NEW ip \in Ips, ip \notin crowded, NEW t \in Nat
                 PROVE  Cardinality(Counted(ip, t)') <= MAX_CLAIMS_PER_IP_PER_DAY
      BY DEF Quota
    <2>1. Cardinality(Counted(ip, t)) <= MAX_CLAIMS_PER_IP_PER_DAY BY DEF Inv, Quota
    <2>2. /\ Cardinality(Counted(ip, t)) \in Nat /\ Cardinality(Counted(ip, t)') \in Nat
          /\ Cardinality(Counted(ip, t)') <= Cardinality(Counted(ip, t))
      BY <1>8, CountedBounds DEF Inv
    <2> QED BY <2>1, <2>2, FaucetAssumption
  <1>11. OncePerAddressUnlessRaced'
    BY DEF Inv, OncePerAddressUnlessRaced, Close
  <1> QED BY <1>3, <1>4, <1>5, <1>6, <1>7, <1>9, <1>10, <1>11 DEF Inv

(* One request moves to another phase. *)
LEMMA PhaseTypes ==
    ASSUME Types, NEW r \in Requests, NEW ph \in Phases,
           req' = [req EXCEPT ![r].phase = ph]
    PROVE  /\ req' \in [Requests -> Request]
           /\ req'[r].phase = ph
           /\ \A q \in Requests : /\ req'[q].to = req[q].to /\ req'[q].ip = req[q].ip
                                  /\ q # r => req'[q] = req[q]
  <1>1. req \in [Requests -> Request] /\ req[r] \in Request BY DEF Types
  <1>2. req' = [req EXCEPT ![r] = [req[r] EXCEPT !.phase = ph]] OBVIOUS
  <1>3. [req[r] EXCEPT !.phase = ph] \in Request BY <1>1 DEF Request
  <1>4. /\ [req[r] EXCEPT !.phase = ph].phase = ph
        /\ [req[r] EXCEPT !.phase = ph].to = req[r].to
        /\ [req[r] EXCEPT !.phase = ph].ip = req[r].ip
    BY <1>1 DEF Request
  <1> QED BY <1>1, <1>2, <1>3, <1>4

LEMMA BalanceReadKeeps ==
    ASSUME Inv, NEW r \in Requests, BalanceRead(r)
    PROVE  Inv'
  <1>1. /\ req[r].phase = "balance"
        /\ UNCHANGED <<now, claims, pending, minted, raced, crowded, unrecorded>>
    BY DEF BalanceRead
  <1>2. PICK ph \in {"minting", "done"} :
            /\ req' = [req EXCEPT ![r].phase = ph]
            /\ inFlight' = IF ph = "minting" THEN inFlight \cup {req[r].to} ELSE inFlight
    BY DEF BalanceRead
  <1>3. ph \in Phases BY DEF Phases
  <1>4. /\ req' \in [Requests -> Request] /\ req'[r].phase = ph
        /\ \A q \in Requests : /\ req'[q].to = req[q].to /\ req'[q].ip = req[q].ip
                               /\ q # r => req'[q] = req[q]
    BY <1>2, <1>3, PhaseTypes DEF Inv
  <1>5. Types' BY <1>1, <1>4 DEF Inv, Types
  <1>6. Marked' BY <1>1, <1>2, <1>4 DEF Inv, Marked
  <1>7. r \notin pending BY <1>1 DEF Inv, PendingSound
  <1>8. now <= now' BY <1>1 DEF Inv, Types
  <1> QED BY <1>1, <1>2, <1>4, <1>5, <1>6, <1>7, <1>8, QuietKeeps

(* The request of a mint that failed is over: its address is free. *)
LEMMA EndKeeps ==
    ASSUME Inv, NEW r \in Requests,
           req[r].phase \in {"minting", "landed"},
           req' = [req EXCEPT ![r].phase = "done"],
           inFlight' = inFlight \ {req[r].to},
           UNCHANGED <<now, claims, minted, raced, crowded>>,
           unrecorded \subseteq unrecorded',
           req[r].phase = "landed" => req[r].to \in unrecorded',
           \/ pending' = pending
           \/ pending' = pending \cup {r} /\ req[r].phase = "minting" /\ req[r].to \in unrecorded'
    PROVE  Inv'
  <1>1. "done" \in Phases BY DEF Phases
  <1>2. /\ req' \in [Requests -> Request] /\ req'[r].phase = "done"
        /\ \A q \in Requests : /\ req'[q].to = req[q].to /\ req'[q].ip = req[q].ip
                               /\ q # r => req'[q] = req[q]
    BY <1>1, PhaseTypes DEF Inv
  <1>3. Types' BY <1>2 DEF Inv, Types
  <1>4. Marked'
    <2> SUFFICES ASSUME NEW q \in Requests, q # r, req[q].phase \in {"minting", "landed"},
                        req[q].to \notin raced
                 PROVE  req[q].to \in inFlight \ {req[r].to}
      BY <1>2 DEF Marked
    <2>1. req[q].to \in inFlight BY DEF Inv, Marked
    <2>2. req[q].to # req[r].to BY DEF Inv, Alone, Active
    <2> QED BY <2>1, <2>2
  <1>5. r \notin pending BY DEF Inv, PendingSound
  <1>6. now <= now' BY DEF Inv, Types
  <1>7. \A q \in pending' : q \in pending \/ (q = r /\ req[r].phase = "minting" /\ req[r].to \in unrecorded')
    OBVIOUS
  <1> QED BY <1>2, <1>3, <1>4, <1>5, <1>6, <1>7, QuietKeeps

LEMMA CrashKeeps ==
    ASSUME Inv, FaucetCrash
    PROVE  Inv'
  <1> DEFINE lost == {r \in Requests : Active(r)}
  <1>1. /\ req' = [r \in Requests |->
                      IF r \in lost THEN [req[r] EXCEPT !.phase = "done"] ELSE req[r]]
        /\ unrecorded' = unrecorded \cup
              {req[r].to : r \in {q \in lost : req[q].phase \in {"minting", "landed"}}}
        /\ UNCHANGED <<now, claims, minted, raced, crowded>>
        /\ \A r \in pending' : r \in pending \/ (r \in lost /\ req[r].phase = "minting")
    BY DEF FaucetCrash
  <1>2. \A r \in Requests : /\ req'[r] \in Request
                            /\ req'[r].to = req[r].to /\ req'[r].ip = req[r].ip
                            /\ r \in lost => req'[r].phase = "done"
                            /\ r \notin lost => req'[r] = req[r]
    BY <1>1, RequestTypes DEF Inv, Request, Phases
  <1>3. Types'
    <2>1. req' \in [Requests -> Request] BY <1>1, <1>2
    <2>2. pending' \subseteq Requests BY <1>1 DEF Inv, Types
    <2> QED BY <1>1, <2>1, <2>2 DEF Inv, Types
  <1>4. Marked' BY <1>2 DEF Marked, Active
  <1>5. \A r \in Requests : req[r].phase \in {"minting", "landed"} =>
            r \in lost /\ req[r].to \in unrecorded'
    BY <1>1 DEF Active
  <1>6. \A r \in lost : r \notin pending BY DEF Inv, PendingSound, Active
  <1>7. now <= now' BY <1>1 DEF Inv, Types
  <1> QED BY <1>1, <1>2, <1>3, <1>4, <1>5, <1>6, <1>7, QuietKeeps

LEMMA NothingHappens ==
    ASSUME Inv, UNCHANGED <<req, claims, inFlight, minted, pending, raced, crowded, unrecorded>>,
           now' \in Nat, now <= now'
    PROVE  Inv'
  <1>1. Types' /\ Marked' BY DEF Inv, Types, Marked
  <1> QED BY <1>1, QuietKeeps

(* A claim is recorded once its mint has landed. *)
LEMMA ConfirmKeeps ==
    ASSUME Inv, NEW r \in Requests, Confirm(r)
    PROVE  Inv'
  <1> DEFINE c == [by |-> r, address |-> req[r].to, ip |-> req[r].ip, at |-> now]
  <1>1. /\ req[r].phase = "landed"
        /\ claims' = claims \cup {c}
        /\ req' = [req EXCEPT ![r].phase = "done"]
        /\ inFlight' = inFlight \ {req[r].to}
        /\ UNCHANGED <<now, pending, minted, raced, crowded, unrecorded>>
    BY DEF Confirm, Record, Released
  <1>2. /\ req' \in [Requests -> Request] /\ req'[r].phase = "done"
        /\ \A q \in Requests : /\ req'[q].to = req[q].to /\ req'[q].ip = req[q].ip
                               /\ q # r => req'[q] = req[q]
    BY <1>1, PhaseTypes DEF Inv, Phases
  <1>3. \A m \in minted : m.by \in Requests BY MintTypes DEF Inv
  <1>4. Types'
    <2>1. c \in Claim BY RequestTypes DEF Inv, Types, Claim
    <2>2. IsFiniteSet(claims') BY <1>1, FS_AddElement DEF Inv, Types
    <2> QED BY <1>1, <1>2, <2>1, <2>2 DEF Inv, Types
  <1>5. MintsSound' BY <1>1, <1>2, <1>3 DEF Inv, MintsSound
  <1>6. PendingSound'
    <2>1. pending \subseteq Requests BY DEF Inv, Types
    <2> QED BY <1>1, <1>2, <2>1 DEF Inv, PendingSound
  <1>7. Recorded'
    <2> SUFFICES ASSUME NEW m \in minted, req'[m.by].phase = "done", m.to \notin unrecorded
                 PROVE  \E d \in claims' : /\ d.by = m.by /\ d.address = m.to /\ d.ip = m.ip
                                           /\ m.at <= d.at
      BY <1>1 DEF Recorded
    <2>1. CASE m.by = r
      <3>1. m.to = req[r].to /\ m.ip = req[r].ip /\ m.at <= now BY <2>1 DEF Inv, MintsSound
      <3>2. c.by = m.by /\ c.address = m.to /\ c.ip = m.ip /\ m.at <= c.at BY <2>1, <3>1
      <3> QED BY <1>1, <3>2
    <2>2. CASE m.by # r
      <3>1. req[m.by].phase = "done" BY <1>2, <1>3, <2>2
      <3>2. \E d \in claims : d.by = m.by /\ d.address = m.to /\ d.ip = m.ip /\ m.at <= d.at
        BY <3>1 DEF Inv, Recorded
      <3> QED BY <1>1, <3>2
    <2> QED BY <2>1, <2>2
  <1>8. Alone' BY <1>1, <1>2 DEF Inv, Alone, Active
  <1>9. Marked'
    <2> SUFFICES ASSUME NEW q \in Requests, q # r, req[q].phase \in {"minting", "landed"},
                        req[q].to \notin raced
                 PROVE  req[q].to \in inFlight \ {req[r].to}
      BY <1>1, <1>2 DEF Marked
    <2>1. req[q].to \in inFlight BY DEF Inv, Marked
    <2>2. req[q].to # req[r].to BY <1>1 DEF Inv, Alone, Active
    <2> QED BY <2>1, <2>2
  <1>10. Cooled' BY <1>1, <1>2 DEF Inv, Cooled, Due
  <1>11. Room' /\ Quota' BY <1>1, <1>2 DEF Inv, Room, Quota, Due, Counted
  <1>12. OncePerAddressUnlessRaced' BY <1>1 DEF Inv, OncePerAddressUnlessRaced, Close
  <1> QED BY <1>4, <1>5, <1>6, <1>7, <1>8, <1>9, <1>10, <1>11, <1>12 DEF Inv

(* A mint that lands after its request is over counts for nothing: its     *)
(* address is known not to be recorded.                                    *)
LEMMA LandsLateKeeps ==
    ASSUME Inv, NEW r \in Requests, LandsLate(r)
    PROVE  Inv'
  <1> DEFINE n == [by |-> r, to |-> req[r].to, ip |-> req[r].ip, at |-> now]
  <1>1. /\ r \in pending /\ pending' = pending \ {r} /\ minted' = minted \cup {n}
        /\ UNCHANGED <<now, claims, inFlight, req, raced, crowded, unrecorded>>
    BY DEF LandsLate, Minted
  <1>2. req[r].phase = "done" /\ n.to \in unrecorded /\ \A m \in minted : m.by # r
    BY <1>1 DEF Inv, PendingSound, MintsSound
  <1>3. now \in Nat /\ n \in Mint BY RequestTypes DEF Inv, Types, Mint
  <1>4. Types'
    <2>1. IsFiniteSet(minted') BY <1>1, FS_AddElement DEF Inv, Types
    <2> QED BY <1>1, <1>3, <2>1 DEF Inv, Types
  <1>5. MintsSound'
    <2>1. /\ n.to = req[n.by].to /\ n.ip = req[n.by].ip /\ n.at <= now
          /\ req[n.by].phase \in {"landed", "done"} /\ n.by \notin pending \ {r}
      BY <1>2, <1>3
    <2> QED BY <1>1, <1>2, <2>1 DEF Inv, MintsSound
  <1>6. PendingSound' /\ Recorded' BY <1>1, <1>2 DEF Inv, PendingSound, Recorded
  <1>7. Alone' /\ Marked' BY <1>1 DEF Inv, Alone, Active, Marked
  <1>8. Cooled' BY <1>1, <1>2 DEF Inv, Cooled, Due
  <1>9. \A ip, t : Counted(ip, t)' = Counted(ip, t) BY <1>1, <1>2 DEF Counted
  <1>10. Room' /\ Quota' BY <1>1, <1>9 DEF Inv, Room, Quota, Due
  <1>11. OncePerAddressUnlessRaced'
    BY <1>1, <1>2 DEF Inv, OncePerAddressUnlessRaced, Close
  <1> QED BY <1>4, <1>5, <1>6, <1>7, <1>8, <1>10, <1>11 DEF Inv

(* A mint lands while its request waits for it: what the request found at  *)
(* its checks is still so.                                                 *)
LEMMA MintLandsKeeps ==
    ASSUME Inv, NEW r \in Requests, MintLands(r)
    PROVE  Inv'
  <1> DEFINE n == [by |-> r, to |-> req[r].to, ip |-> req[r].ip, at |-> now]
  <1>1. /\ req[r].phase = "minting" /\ Due(r) /\ Active(r)
        /\ req' = [req EXCEPT ![r].phase = "landed"]
        /\ minted' = minted \cup {n}
        /\ UNCHANGED <<now, claims, inFlight, pending, raced, crowded, unrecorded>>
    BY DEF MintLands, Minted, Due, Active
  <1>2. /\ req' \in [Requests -> Request] /\ req'[r].phase = "landed"
        /\ \A q \in Requests : /\ req'[q].to = req[q].to /\ req'[q].ip = req[q].ip
                               /\ q # r => req'[q] = req[q]
    BY <1>1, PhaseTypes DEF Inv, Phases
  <1>3. now \in Nat /\ n \in Mint BY RequestTypes DEF Inv, Types, Mint
  <1>4. /\ r \notin pending
        /\ \A m \in minted : /\ m.by \in Requests /\ m.at \in Nat /\ m.at <= now
                             /\ m.by # r
    BY <1>1, MintTypes DEF Inv, PendingSound, MintsSound
  <1>5. Types'
    <2>1. IsFiniteSet(minted') BY <1>1, FS_AddElement DEF Inv, Types
    <2> QED BY <1>1, <1>2, <1>3, <2>1 DEF Inv, Types
  <1>6. MintsSound'
    <2>1. /\ n.to = req'[n.by].to /\ n.ip = req'[n.by].ip /\ n.at <= now
          /\ req'[n.by].phase \in {"landed", "done"} /\ n.by \notin pending
      BY <1>2, <1>3, <1>4
    <2>2. ASSUME NEW m \in minted
          PROVE  /\ m.to = req'[m.by].to /\ m.ip = req'[m.by].ip /\ m.at <= now
                 /\ req'[m.by].phase \in {"landed", "done"} /\ m.by \notin pending
      BY <1>2, <1>4 DEF Inv, MintsSound
    <2>3. \A l, m \in minted' : l.by = m.by => l = m
      BY <1>1, <1>4 DEF Inv, MintsSound
    <2> QED BY <1>1, <2>1, <2>2, <2>3 DEF MintsSound
  <1>7. PendingSound'
    <2>1. pending \subseteq Requests BY DEF Inv, Types
    <2> QED BY <1>1, <1>2, <1>4, <2>1 DEF Inv, PendingSound
  <1>8. Recorded'
    <2> SUFFICES ASSUME NEW m \in minted, req'[m.by].phase = "done", m.to \notin unrecorded
                 PROVE  \E c \in claims : /\ c.by = m.by /\ c.address = m.to /\ c.ip = m.ip
                                          /\ m.at <= c.at
      BY <1>1, <1>2 DEF Recorded
    <2> QED BY <1>2, <1>4 DEF Inv, Recorded
  <1>9. Alone' BY <1>1, <1>2 DEF Inv, Alone, Active
  <1>10. Marked' BY <1>1, <1>2 DEF Inv, Marked
  <1>11. \A q \in Requests : Due(q)' =>
            /\ q # r /\ Due(q)
            /\ req[q].to \notin raced => req[q].to # req[r].to
            /\ req[q].ip \notin crowded => req[q].ip # req[r].ip
    BY <1>1, <1>2 DEF Inv, Due, Active, Alone
  <1>12. Cooled'
    <2> SUFFICES ASSUME NEW q \in Requests, Due(q)', req[q].to \notin raced \cup unrecorded,
                        NEW m \in minted', m.to = req[q].to
                 PROVE  now - m.at >= COOLDOWN
      BY <1>1, <1>2 DEF Cooled
    <2>1. m \in minted BY <1>1, <1>11
    <2> QED BY <1>11, <2>1 DEF Inv, Cooled
  <1>13. \A ip, t : Counted(ip, t)' = IF /\ ip = req[r].ip /\ req[r].to \notin unrecorded
                                         /\ now <= t /\ t - now < COOLDOWN
                                      THEN Counted(ip, t) \cup {n} ELSE Counted(ip, t)
    BY <1>1 DEF Counted
  <1>14. Room'
    <2> SUFFICES ASSUME NEW q \in Requests, Due(q)', req[q].ip \notin crowded
                 PROVE  Cardinality(Counted(req[q].ip, now)') < MAX_CLAIMS_PER_IP_PER_DAY
      BY <1>1, <1>2 DEF Room
    <2>1. Counted(req[q].ip, now)' = Counted(req[q].ip, now) BY <1>1, <1>11, <1>13
    <2> QED BY <1>11, <2>1 DEF Inv, Room
  <1>15. Quota'
    <2> SUFFICES ASSUME NEW ip \in Ips, ip \notin crowded, NEW t \in Nat
                 PROVE  Cardinality(Counted(ip, t)') <= MAX_CLAIMS_PER_IP_PER_DAY
      BY <1>1 DEF Quota
    <2>1. CASE Counted(ip, t)' = Counted(ip, t) BY <2>1 DEF Inv, Quota
    <2>2. CASE Counted(ip, t)' # Counted(ip, t)
      <3>1. ip = req[r].ip /\ now <= t /\ Counted(ip, t)' = Counted(ip, t) \cup {n}
        BY <1>13, <2>2
      <3>2. Cardinality(Counted(ip, now)) < MAX_CLAIMS_PER_IP_PER_DAY
        BY <1>1, <3>1 DEF Inv, Room
      <3>3. Counted(ip, t) \subseteq Counted(ip, now)
        <4> SUFFICES ASSUME NEW m \in minted, m.ip = ip, m.to \notin unrecorded,
                            t - m.at < COOLDOWN
                     PROVE  m \in Counted(ip, now)
          BY DEF Counted
        <4>1. m.at <= now /\ m.at \in Nat BY <1>4
        <4>2. now - m.at < COOLDOWN BY <1>3, <3>1, <4>1, FaucetAssumption
        <4> QED BY <4>1, <4>2 DEF Counted
      <3>4. /\ IsFiniteSet(Counted(ip, t)) /\ Cardinality(Counted(ip, t)) \in Nat
            /\ Cardinality(Counted(ip, now)) \in Nat
            /\ Cardinality(Counted(ip, t)) <= Cardinality(Counted(ip, now))
        BY <3>3, CountedBounds DEF Inv
      <3>5. Cardinality(Counted(ip, t) \cup {n}) <= Cardinality(Counted(ip, t)) + 1
        <4>1. Cardinality(Counted(ip, t) \cup {n}) =
                IF n \in Counted(ip, t) THEN Cardinality(Counted(ip, t))
                ELSE Cardinality(Counted(ip, t)) + 1
          BY <3>4, FS_AddElement
        <4>2. Cardinality(Counted(ip, t)) \in Nat BY <3>4
        <4> QED BY <4>1, <4>2
      <3>6. Cardinality(Counted(ip, t) \cup {n}) \in Nat
        BY <3>4, FS_AddElement, FS_CardinalityType
      <3> QED BY <3>1, <3>2, <3>4, <3>5, <3>6, FaucetAssumption
    <2> QED BY <2>1, <2>2
  <1>16. OncePerAddressUnlessRaced'
    <2> SUFFICES ASSUME NEW l \in minted', NEW m \in minted', l.to = m.to,
                        l.to \notin raced \cup unrecorded, l.by # m.by, l.at <= m.at
                 PROVE  ~(m.at - l.at < COOLDOWN)
      BY <1>1 DEF OncePerAddressUnlessRaced, Close
    <2>1. CASE l \in minted /\ m \in minted
      BY <2>1 DEF Inv, OncePerAddressUnlessRaced, Close
    <2>2. CASE l \in minted /\ m = n
      <3>1. now - l.at >= COOLDOWN BY <1>1, <2>2 DEF Inv, Cooled
      <3> QED BY <1>3, <1>4, <2>2, <3>1, FaucetAssumption
    <2>3. CASE l = n /\ m \in minted
      <3>1. now - m.at >= COOLDOWN BY <1>1, <2>3 DEF Inv, Cooled
      <3>2. now <= m.at BY <2>3
      <3> QED BY <1>3, <1>4, <2>3, <3>1, <3>2, FaucetAssumption
    <2> QED BY <1>1, <2>1, <2>2, <2>3
  <1> QED BY <1>5, <1>6, <1>7, <1>8, <1>9, <1>10, <1>12, <1>14, <1>15, <1>16 DEF Inv

(* A request passes the checks: all that was minted for its address, or    *)
(* its IP, is recorded by then.                                            *)
LEMMA AdmitKeeps ==
    ASSUME Inv, NEW r \in Requests, Admit(r)
    PROVE  Inv'
  <1> DEFINE a == req[r].to
             ip == req[r].ip
             rejected == CoolingDown(a) \/ OverQuota(ip) \/ Busy(a)
  <1>1. /\ req[r].phase = "new"
        /\ req' = [req EXCEPT ![r].phase = IF rejected THEN "done" ELSE "balance"]
        /\ UNCHANGED <<now, claims, inFlight, pending, minted, unrecorded>>
    BY DEF Admit
  <1>2. /\ raced' = IF ~rejected /\ \E q \in Requests : req[q].phase = "balance" /\ req[q].to = a
                    THEN raced \cup {a} ELSE raced
        /\ crowded' = IF ~rejected /\ \E q \in Requests : Active(q) /\ req[q].ip = ip
                      THEN crowded \cup {ip} ELSE crowded
    BY DEF Admit
  <1>3. PICK ph \in Phases : ph = IF rejected THEN "done" ELSE "balance"
    BY DEF Phases
  <1>4. /\ req' \in [Requests -> Request] /\ req'[r].phase = ph
        /\ \A q \in Requests : /\ req'[q].to = req[q].to /\ req'[q].ip = req[q].ip
                               /\ q # r => req'[q] = req[q]
    BY <1>1, <1>3, PhaseTypes DEF Inv
  <1>5. Types' BY <1>1, <1>4 DEF Inv, Types
  <1>6. r \notin pending BY <1>1 DEF Inv, PendingSound
  <1>7. raced \subseteq raced' /\ crowded \subseteq crowded' BY <1>2
  <1>8. Marked' BY <1>1, <1>3, <1>4, <1>7 DEF Inv, Marked
  <1>9. now \in Nat /\ now <= now' BY <1>1 DEF Inv, Types
  <1>10. CASE rejected
    BY <1>1, <1>3, <1>4, <1>5, <1>6, <1>7, <1>8, <1>9, <1>10, QuietKeeps
  <1>11. CASE ~rejected
    <2>1. ph = "balance" BY <1>3, <1>11
    <2>2. /\ \A q \in Requests : req[q].phase = "balance" /\ req[q].to = a => a \in raced'
          /\ \A q \in Requests : Active(q) /\ req[q].ip = ip => ip \in crowded'
      BY <1>2, <1>11
    <2>3. \A m \in minted : m.by \in Requests /\ m.at \in Nat /\ m.at <= now
      BY MintTypes DEF Inv, MintsSound
    <2>4. MintsSound'
      <3>1. \A m \in minted : m.by # r BY <1>1 DEF Inv, MintsSound
      <3> QED BY <1>1, <1>4, <2>3, <3>1 DEF Inv, MintsSound
    <2>5. PendingSound'
      <3>1. pending \subseteq Requests BY DEF Inv, Types
      <3> QED BY <1>1, <1>4, <1>6, <3>1 DEF Inv, PendingSound
    <2>6. Recorded'
      <3>1. \A m \in minted : req'[m.by].phase = "done" => req[m.by].phase = "done"
        BY <1>4, <2>1, <2>3
      <3> QED BY <1>1, <3>1 DEF Inv, Recorded
    <2>7. \A q \in Requests : Active(q) /\ req[q].to = a => a \in raced'
      <3> SUFFICES ASSUME NEW q \in Requests, req[q].phase \in {"minting", "landed"},
                          req[q].to = a
                   PROVE  a \in raced'
        BY <2>2 DEF Active
      <3>1. ~Busy(a) BY <1>11
      <3> QED BY <1>7, <3>1 DEF Busy, Inv, Marked
    <2>8. Alone'
      <3> SUFFICES ASSUME NEW p \in Requests, NEW q \in Requests, p # q, Active(p)', Active(q)'
                   PROVE  /\ req[p].to = req[q].to => req[p].to \in raced'
                          /\ req[p].ip = req[q].ip => req[p].ip \in crowded'
        BY <1>4 DEF Alone
      <3>1. CASE p = r BY <1>4, <2>2, <2>7, <3>1 DEF Active
      <3>2. CASE q = r BY <1>4, <2>2, <2>7, <3>2 DEF Active
      <3>3. CASE p # r /\ q # r
        <4>1. Active(p) /\ Active(q) BY <1>4, <3>3 DEF Active
        <4> QED BY <1>7, <4>1 DEF Inv, Alone
      <3> QED BY <3>1, <3>2, <3>3
    <2>9. Cooled'
      <3> SUFFICES ASSUME NEW q \in Requests, Due(q)', req[q].to \notin raced' \cup unrecorded,
                          NEW m \in minted, m.to = req[q].to
                   PROVE  now - m.at >= COOLDOWN
        BY <1>1, <1>4 DEF Cooled
      <3>1. CASE q # r
        <4>1. Due(q) BY <1>4, <3>1 DEF Due
        <4> QED BY <1>7, <4>1 DEF Inv, Cooled
      <3>2. CASE q = r
        <4>1. m.to = req[m.by].to /\ req[m.by].phase \in {"landed", "done"}
          BY DEF Inv, MintsSound
        <4>2. req[m.by].phase # "landed" BY <2>3, <2>7, <3>2, <4>1 DEF Active
        <4>3. PICK c \in claims : c.address = m.to /\ m.at <= c.at
          BY <3>2, <4>1, <4>2 DEF Inv, Recorded
        <4>4. c.at \in Nat BY DEF Inv, Types, Claim
        <4>5. ~(now - c.at < COOLDOWN) BY <1>11, <3>2, <4>3 DEF CoolingDown
        <4> QED BY <1>9, <2>3, <4>3, <4>4, <4>5, FaucetAssumption
      <3> QED BY <3>1, <3>2
    <2>10. \A i, t : Counted(i, t)' = Counted(i, t) BY <1>1 DEF Counted
    <2>11. Room'
      <3> SUFFICES ASSUME NEW q \in Requests, Due(q)', req[q].ip \notin crowded'
                   PROVE  Cardinality(Counted(req[q].ip, now)) < MAX_CLAIMS_PER_IP_PER_DAY
        BY <1>1, <1>4, <2>10 DEF Room
      <3>1. CASE q # r
        <4>1. Due(q) BY <1>4, <3>1 DEF Due
        <4> QED BY <1>7, <4>1 DEF Inv, Room
      <3>2. CASE q = r
        <4> DEFINE S == Counted(ip, now)
                   C == {c \in claims : c.ip = ip /\ c.at >= now - COOLDOWN}
        <4>1. \A m \in S : \E c \in C : c.by = m.by
          <5> SUFFICES ASSUME NEW m \in S PROVE \E c \in C : c.by = m.by
            OBVIOUS
          <5>1. /\ m \in minted /\ m.ip = ip /\ m.to \notin unrecorded
                /\ now - m.at < COOLDOWN
            BY DEF Counted
          <5>2. m.ip = req[m.by].ip /\ req[m.by].phase \in {"landed", "done"}
            BY <5>1 DEF Inv, MintsSound
          <5>3. req[m.by].phase # "landed" BY <2>2, <2>3, <3>2, <5>1, <5>2 DEF Active
          <5>4. PICK c \in claims : c.by = m.by /\ c.ip = m.ip /\ m.at <= c.at
            BY <5>1, <5>2, <5>3 DEF Inv, Recorded
          <5>5. c.at \in Nat BY DEF Inv, Types, Claim
          <5>6. c.at >= now - COOLDOWN
            BY <1>9, <2>3, <5>1, <5>4, <5>5, FaucetAssumption
          <5> QED BY <5>1, <5>4, <5>6
        <4>2. IsFiniteSet(C)
          <5>1. C \in SUBSET claims OBVIOUS
          <5> QED BY <5>1, FS_Subset DEF Inv, Types
        <4>3. \A m, n \in S : m.by = n.by => m = n BY DEF Inv, MintsSound, Counted
        <4> DEFINE f == [m \in S |-> CHOOSE c \in C : c.by = m.by]
        <4>4. \A m \in S : f[m] \in C /\ f[m].by = m.by BY <4>1
        <4>5. f \in Injection(S, C)
          <5>1. f \in [S -> C] BY <4>4
          <5>2. \A m, n \in S : f[m] = f[n] => m = n BY <4>3, <4>4
          <5> HIDE DEF f
          <5> QED BY <5>1, <5>2 DEF Injection, IsInjective
        <4>6. Cardinality(S) <= Cardinality(C) BY <4>2, <4>5, FS_Injection
        <4>7. ~(Cardinality(C) >= MAX_CLAIMS_PER_IP_PER_DAY) BY <1>11 DEF OverQuota
        <4>8. Cardinality(C) \in Nat /\ Cardinality(S) \in Nat
          BY <4>2, FS_CardinalityType, CountedBounds DEF Inv
        <4> HIDE DEF C, S
        <4>9. Cardinality(S) < MAX_CLAIMS_PER_IP_PER_DAY BY <4>6, <4>7, <4>8, FaucetAssumption
        <4> QED BY <3>2, <4>9 DEF S
      <3> QED BY <3>1, <3>2
    <2>12. Quota' BY <1>7, <2>10 DEF Inv, Quota
    <2>13. OncePerAddressUnlessRaced'
      BY <1>1, <1>7 DEF Inv, OncePerAddressUnlessRaced, Close
    <2> QED BY <1>5, <1>8, <2>4, <2>5, <2>6, <2>8, <2>9, <2>11, <2>12, <2>13 DEF Inv
  <1> QED BY <1>10, <1>11

-----------------------------------------------------------------------------

(* Every step of a request, of the chain and of the process. *)
THEOREM Step == Inv /\ [FaucetNext]_faucetVars => Inv'
  <1> SUFFICES ASSUME Inv, [FaucetNext]_faucetVars PROVE Inv' OBVIOUS
  <1>1. ASSUME NEW r \in Requests, Admit(r) PROVE Inv' BY <1>1, AdmitKeeps
  <1>2. ASSUME NEW r \in Requests, BalanceRead(r) PROVE Inv' BY <1>2, BalanceReadKeeps
  <1>3. ASSUME NEW r \in Requests, MintLands(r) PROVE Inv' BY <1>3, MintLandsKeeps
  <1>4. ASSUME NEW r \in Requests, Confirm(r) PROVE Inv' BY <1>4, ConfirmKeeps
  <1>5. ASSUME NEW r \in Requests, MintFails(r) PROVE Inv'
    <2>1. /\ req[r].phase = "minting" /\ req' = [req EXCEPT ![r].phase = "done"]
          /\ inFlight' = inFlight \ {req[r].to}
          /\ UNCHANGED <<now, claims, pending, minted, raced, crowded, unrecorded>>
      BY <1>5 DEF MintFails, Released
    <2> QED BY <2>1, EndKeeps
  <1>6. ASSUME NEW r \in Requests, ConfirmFails(r) PROVE Inv'
    <2>1. /\ req[r].phase \in {"minting", "landed"}
          /\ req' = [req EXCEPT ![r].phase = "done"]
          /\ inFlight' = inFlight \ {req[r].to}
          /\ unrecorded' = unrecorded \cup {req[r].to}
          /\ \/ pending' = pending
             \/ pending' = pending \cup {r} /\ req[r].phase = "minting"
          /\ UNCHANGED <<now, claims, minted, raced, crowded>>
      BY <1>6 DEF ConfirmFails, Released
    <2>2. req[r].to \in unrecorded' /\ unrecorded \subseteq unrecorded' BY <2>1
    <2> QED BY <2>1, <2>2, EndKeeps
  <1>7. ASSUME NEW r \in Requests, LandsLate(r) PROVE Inv' BY <1>7, LandsLateKeeps
  <1>8. CASE FaucetCrash BY <1>8, CrashKeeps
  <1>9. CASE Tick
    <2>1. now \in Nat BY DEF Inv, Types
    <2>2. /\ now' = now + 1
          /\ UNCHANGED <<req, claims, inFlight, minted, pending, raced, crowded, unrecorded>>
      BY <1>9 DEF Tick
    <2> QED BY <2>1, <2>2, NothingHappens
  <1>10. CASE UNCHANGED faucetVars
    <2>1. now \in Nat BY DEF Inv, Types
    <2> QED BY <1>10, <2>1, NothingHappens DEF faucetVars
  <1> QED BY <1>1, <1>2, <1>3, <1>4, <1>5, <1>6, <1>7, <1>8, <1>9, <1>10 DEF FaucetNext, Answer

(* One mint per address per cooldown and the quota per IP hold together    *)
(* with all that was checked for the mints to come.                        *)
THEOREM Invariance == FaucetSpec => []Inv
  BY Initially, Step, PTL DEF FaucetSpec

(* An address whose requests do not meet before the in-flight mark, and    *)
(* whose mints were all recorded, gets one mint per cooldown.              *)
THEOREM OncePerAddress == FaucetSpec => []OncePerAddressUnlessRaced
  <1>1. Inv => OncePerAddressUnlessRaced BY DEF Inv
  <1> QED BY <1>1, Invariance, PTL

(* An IP whose requests come one at a time stays within the quota, in any  *)
(* window of a cooldown and not only in those that were checked.           *)
THEOREM QuotaPerIp == FaucetSpec => []QuotaUnlessCrowded
  <1>1. Inv => QuotaUnlessCrowded
    <2> SUFFICES ASSUME Inv, NEW ip \in Ips \ crowded, NEW m \in minted
                 PROVE  Cardinality(Counted(ip, m.at)) <= MAX_CLAIMS_PER_IP_PER_DAY
      BY DEF QuotaUnlessCrowded, Counted
    <2>1. m.at \in Nat BY MintTypes DEF Inv
    <2> QED BY <2>1 DEF Inv, Quota
  <1> QED BY <1>1, Invariance, PTL
=============================================================================

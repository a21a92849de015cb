------------------------------- MODULE Faucet -------------------------------
(***************************************************************************)
(* POST /faucet of the backend: mints test tokens to an address, with one  *)
(* claim per address per cooldown and a quota per IP, kept in SQLite.      *)
(*                                                                         *)
(* A request is a task of the event loop.  It checks the limits, awaits    *)
(* the balance of the server wallet, marks the address as in flight,       *)
(* awaits the mint and its confirmation, and records the claim.  At each   *)
(* await other requests run; the process may also die there.  The          *)
(* per-minute rate limiter in front only rejects requests, so it is left   *)
(* out: every request here has passed it and names a valid address.        *)
(***************************************************************************)
EXTENDS Integers, FiniteSets

CONSTANTS
    Requests, Addresses, Ips,
    COOLDOWN,                   \* COOLDOWN_MS, in ticks of the clock
    MAX_CLAIMS_PER_IP_PER_DAY,
    MaxTime,                    \* bound on the clock
    MaxStops                   \* bound on timeouts, RPC errors and crashes

ASSUME FaucetAssumption ==
    /\ COOLDOWN \in Nat \ {0} /\ MAX_CLAIMS_PER_IP_PER_DAY \in Nat \ {0}
    /\ MaxTime \in Nat /\ MaxStops \in Nat

VARIABLES
    now,
    claims,     \* the table faucet_claims; each request records at most once
    inFlight,   \* addresses being served (in memory)
    req,        \* the progress of each request
    pending,    \* requests whose mint may land although nobody waits for it
    minted,     \* mints on the chain
    stops,
    raced,      \* addresses two requests of which were between the checks
                \* and the mark at the same time (history)
    crowded,    \* IPs with two unfinished requests at the same time (history)
    unrecorded  \* addresses with a mint whose claim was not recorded (history)

faucetVars == <<now, claims, inFlight, req, pending, minted, stops,
          raced, crowded, unrecorded>>

Phases == {"new", "balance", "minting", "landed", "done"}

Request == [phase : Phases, to : Addresses, ip : Ips]

FaucetInit ==
    /\ now = 0
    /\ claims = {} /\ inFlight = {}
    /\ req \in [Requests -> {q \in Request : q.phase = "new"}]
    /\ pending = {} /\ minted = {} /\ stops = 0
    /\ raced = {} /\ crowded = {} /\ unrecorded = {}

Active(r) == req[r].phase \in {"balance", "minting", "landed"}

-----------------------------------------------------------------------------
(* The checks.  Faulty variants stand before the definition they replace   *)
(* in the checks of PROJECT.json.                                          *)

(* lastClaimAt(to), and t - last < COOLDOWN_MS. *)
CoolingDown(a) == \E c \in claims : c.address = a /\ now - c.at < COOLDOWN

OverQuotaByOne(ip) ==
    Cardinality({c \in claims : c.ip = ip /\ c.at >= now - COOLDOWN})
        > MAX_CLAIMS_PER_IP_PER_DAY

(* claimsByIpSince(ip, t - COOLDOWN_MS) >= MAX_CLAIMS_PER_IP_PER_DAY *)
OverQuota(ip) ==
    Cardinality({c \in claims : c.ip = ip /\ c.at >= now - COOLDOWN})
        >= MAX_CLAIMS_PER_IP_PER_DAY

BusyNever(a) == FALSE

(* inFlight.has(to) *)
Busy(a) == a \in inFlight

(* store.record(to, ip, now()) *)
Record(r) == [by |-> r, address |-> req[r].to, ip |-> req[r].ip, at |-> now]

ReleasedOnSuccess(r, ok) == IF ok THEN inFlight \ {req[r].to} ELSE inFlight

(* finally { inFlight.delete(to) } *)
Released(r, ok) == inFlight \ {req[r].to}

-----------------------------------------------------------------------------
(* The steps of a request.                                                 *)

(* All checks, up to the first await. *)
Admit(r) ==
    LET a == req[r].to
        ip == req[r].ip
        rejected == CoolingDown(a) \/ OverQuota(ip) \/ Busy(a)
    IN  /\ req[r].phase = "new"
        /\ req' = [req EXCEPT ![r].phase = IF rejected THEN "done" ELSE "balance"]
        /\ raced' = IF ~rejected /\ \E q \in Requests :
                          req[q].phase = "balance" /\ req[q].to = a
                    THEN raced \cup {a} ELSE raced
        /\ crowded' = IF ~rejected /\ \E q \in Requests : Active(q) /\ req[q].ip = ip
                      THEN crowded \cup {ip} ELSE crowded
        /\ UNCHANGED <<now, claims, inFlight, pending, minted, stops,
                       unrecorded>>

(* The balance arrives: go on and mark the address, or answer 503 (also    *)
(* when the balance cannot be read, then as an error).                     *)
BalanceRead(r) ==
    /\ req[r].phase = "balance"
    /\ \/ /\ req' = [req EXCEPT ![r].phase = "minting"]
          /\ inFlight' = inFlight \cup {req[r].to}
       \/ /\ req' = [req EXCEPT ![r].phase = "done"]
          /\ UNCHANGED inFlight
    /\ UNCHANGED <<now, claims, pending, minted, stops,
                   raced, crowded, unrecorded>>

Minted(r) ==
    minted' = minted \cup
        {[by |-> r, to |-> req[r].to, ip |-> req[r].ip, at |-> now]}

(* The mint transaction lands while the request polls for it. *)
MintLands(r) ==
    /\ req[r].phase = "minting"
    /\ req' = [req EXCEPT ![r].phase = "landed"]
    /\ Minted(r)
    /\ UNCHANGED <<now, claims, inFlight, pending, stops,
                   raced, crowded, unrecorded>>

(* The poll sees it: record, answer, release. *)
Confirm(r) ==
    /\ req[r].phase = "landed"
    /\ claims' = claims \cup {Record(r)}
    /\ req' = [req EXCEPT ![r].phase = "done"]
    /\ inFlight' = Released(r, TRUE)
    /\ UNCHANGED <<now, pending, minted, stops, raced, crowded, unrecorded>>

(* The mint is rejected or fails on the chain. *)
MintFails(r) ==
    /\ req[r].phase = "minting"
    /\ req' = [req EXCEPT ![r].phase = "done"]
    /\ inFlight' = Released(r, FALSE)
    /\ UNCHANGED <<now, claims, pending, minted, stops,
                   raced, crowded, unrecorded>>

(* confirm() gives up or throws although the mint has landed, or still may.*)
ConfirmFails(r) ==
    /\ stops < MaxStops /\ stops' = stops + 1
    /\ req[r].phase \in {"minting", "landed"}
    /\ req' = [req EXCEPT ![r].phase = "done"]
    /\ inFlight' = Released(r, FALSE)
    /\ pending' = IF req[r].phase = "minting" THEN pending \cup {r} ELSE pending
    /\ unrecorded' = unrecorded \cup {req[r].to}
    /\ UNCHANGED <<now, claims, minted, raced, crowded>>

-----------------------------------------------------------------------------
(* The environment.                                                        *)

LandsLate(r) ==
    /\ r \in pending /\ pending' = pending \ {r}
    /\ Minted(r)
    /\ UNCHANGED <<now, claims, inFlight, req, stops,
                   raced, crowded, unrecorded>>

(* The process dies and restarts: its requests are lost, their mints may   *)
(* have landed or be on their way; the table survives.                     *)
FaucetCrash ==
    LET lost == {r \in Requests : Active(r)}
    IN  /\ stops < MaxStops /\ stops' = stops + 1
        /\ req' = [r \in Requests |->
                      IF r \in lost THEN [req[r] EXCEPT !.phase = "done"] ELSE req[r]]
        /\ inFlight' = {}
        /\ unrecorded' = unrecorded \cup
              {req[r].to : r \in {q \in lost : req[q].phase \in {"minting", "landed"}}}
        /\ \E sent \in SUBSET {r \in lost : req[r].phase = "minting"} :
              pending' = pending \cup sent
        /\ UNCHANGED <<now, claims, minted, raced, crowded>>

Tick ==
    /\ now < MaxTime /\ now' = now + 1
    /\ UNCHANGED <<claims, inFlight, req, pending, minted, stops,
                   raced, crowded, unrecorded>>

Answer(r) == Confirm(r) \/ MintFails(r) \/ ConfirmFails(r) \/ MintLands(r)

FaucetNext ==
    \/ \E r \in Requests : Admit(r) \/ BalanceRead(r) \/ Answer(r) \/ LandsLate(r)
    \/ FaucetCrash
    \/ Tick

FaucetSpec == FaucetInit /\ [][FaucetNext]_faucetVars

(* confirm() polls at most sixty times, so every mint attempt ends. *)
FaucetFairness == \A r \in Requests : WF_faucetVars(BalanceRead(r)) /\ WF_faucetVars(Answer(r))

-----------------------------------------------------------------------------
(* Properties.                                                             *)

(* Two mints that fall within one cooldown. *)
Close(m, n) == m.by # n.by /\ m.at <= n.at /\ n.at - m.at < COOLDOWN

(* One claim per address per cooldown, as long as its requests do not meet *)
(* between the checks and the in-flight mark and every mint is recorded.   *)
OncePerAddressUnlessRaced ==
    \A m, n \in minted :
        m.to = n.to /\ m.to \notin raced \cup unrecorded => ~Close(m, n)

(* The quota per IP holds for an IP whose requests come one at a time.     *)
QuotaUnlessCrowded ==
    \A ip \in Ips \ crowded, m \in minted :
        Cardinality({n \in minted :
                        /\ n.ip = ip /\ n.to \notin unrecorded
                        /\ n.at <= m.at /\ m.at - n.at < COOLDOWN})
            <= MAX_CLAIMS_PER_IP_PER_DAY

(* A marked address is released in the end, however its mint turned out.   *)
EventuallyReleased == \A a \in Addresses : a \in inFlight ~> a \notin inFlight

-----------------------------------------------------------------------------
(* What the documentation says and concurrent requests or a crash break.   *)

(* README.md: "One claim per address per 24 hours, at most 5 per IP per     *)
(* day".  The in-flight mark comes after the await of the balance, the     *)
(* check for it before; and only recorded claims count towards the quota,  *)
(* while a claim is recorded at the end of its request.                    *)
ClaimLimits ==
    /\ \A m, n \in minted : m.to = n.to => ~Close(m, n)
    /\ \A ip \in Ips, m \in minted :
          Cardinality({n \in minted : n.ip = ip /\ n.at <= m.at /\ m.at - n.at < COOLDOWN})
              <= MAX_CLAIMS_PER_IP_PER_DAY
=============================================================================

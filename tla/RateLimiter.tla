---------------------------- MODULE RateLimiter ----------------------------
(***************************************************************************)
(* The sliding-window limiter in front of every route of the server: it    *)
(* keeps, for each caller, the times of the hits it allowed, and forgets   *)
(* callers whose hits have all left the window once it knows too many.     *)
(***************************************************************************)
EXTENDS Integers, Sequences, FiniteSets

CONSTANTS
    Callers,
    Window,     \* windowMs
    MaxHits,    \* max
    Crowd,      \* the number of callers above which the map is cleaned
    Horizon     \* bound: when the clock of the model stops

ASSUME LimiterAssumption ==
    /\ Window \in Nat \ {0} /\ MaxHits \in Nat \ {0}
    /\ Crowd \in Nat /\ Horizon \in Nat

VARIABLES
    clock,
    hits,       \* the map: a function on the callers it knows
    granted     \* every hit ever allowed (history)

limiterVars == <<clock, hits, granted>>

LimiterInit ==
    /\ clock = 0
    /\ hits = [c \in {} |-> <<>>]
    /\ granted = [c \in Callers |-> <<>>]

Live(at) == clock - at < Window

Known(c) == IF c \in DOMAIN hits THEN hits[c] ELSE <<>>

(* Those of the times that are live, in their order. *)
OnlyLive(times) ==
    LET kept[n \in 0 .. Len(times)] ==
            IF n = 0 THEN <<>>
            ELSE IF Live(times[n]) THEN Append(kept[n - 1], times[n]) ELSE kept[n - 1]
    IN  kept[Len(times)]

Recent(c) == OnlyLive(Known(c))

Refused(c) == Len(Recent(c)) >= MaxHits

RetryAfterFromLast(c) == Window - (clock - Recent(c)[Len(Recent(c))])

RetryAfter(c) == Window - (clock - Head(Recent(c)))

With(c, times) == [d \in DOMAIN hits \cup {c} |-> IF d = c THEN times ELSE hits[d]]

CleanedByFirst(map) ==
    IF Cardinality(DOMAIN map) <= Crowd THEN map
    ELSE [c \in {d \in DOMAIN map : Live(map[d][1])} |-> map[c]]

(* Only callers without a single live hit are forgotten. *)
Cleaned(map) ==
    IF Cardinality(DOMAIN map) <= Crowd THEN map
    ELSE [c \in {d \in DOMAIN map : \E i \in 1 .. Len(map[d]) : Live(map[d][i])} |-> map[c]]

Hit(c) ==
    /\ IF Refused(c)
       THEN /\ hits' = With(c, Recent(c))
            /\ UNCHANGED granted
       ELSE /\ hits' = Cleaned(With(c, Append(Recent(c), clock)))
            /\ granted' = [granted EXCEPT ![c] = Append(@, clock)]
    /\ UNCHANGED clock

Pass ==
    /\ clock < Horizon /\ clock' = clock + 1
    /\ UNCHANGED <<hits, granted>>

LimiterNext == (\E c \in Callers : Hit(c)) \/ Pass

LimiterSpec == LimiterInit /\ [][LimiterNext]_limiterVars

-----------------------------------------------------------------------------
(* Properties.                                                             *)

(* No window of the given length ever holds more than MaxHits allowed hits *)
(* of one caller, whatever was forgotten in between.                       *)
WindowHeld ==
    \A c \in Callers : \A i \in 1 .. Len(granted[c]) :
        i + MaxHits <= Len(granted[c]) => granted[c][i + MaxHits] - granted[c][i] >= Window

(* The waiting time told to a refused caller is exact: one moment earlier  *)
(* it would still be refused, and then it is not.                          *)
RetryAfterExact ==
    \A c \in Callers :
        LET LiveAt(t) == Cardinality({i \in 1 .. Len(Recent(c)) : t - Recent(c)[i] < Window})
        IN  Refused(c) =>
              /\ RetryAfter(c) \in 1 .. Window
              /\ LiveAt(clock + RetryAfter(c)) < MaxHits
              /\ LiveAt(clock + RetryAfter(c) - 1) >= MaxHits
=============================================================================

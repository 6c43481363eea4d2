------------------------------ MODULE RateLimit ------------------------------
(***************************************************************************)
(* The in-memory limit on WebSocket questions (api/limits.py): per host    *)
(* and user, a queue of the times of the accepted ones.  All callers are   *)
(* on the event loop, so a call is one step.                               *)
(***************************************************************************)
EXTENDS Naturals, Sequences, FiniteSets

CONSTANTS
    Buckets,    \* client host and key of the user
    Limit,      \* WS_RATE_LIMIT_PER_MINUTE
    Window,     \* window_seconds, in ticks
    MaxTime     \* bound: ticks in the life of a process

ASSUME LimitAssumption == Limit \in Nat /\ Window \in Nat /\ MaxTime \in Nat

VARIABLES
    hits,       \* _ws_hits
    time,       \* time.monotonic()
    admitted,   \* history: when each accepted question came, oldest first
    refused     \* the bucket that was refused in the last step, if any
limitVars == <<hits, time, admitted, refused>>

NoBucket == "none"

LimitInit ==
    /\ hits = [b \in Buckets |-> <<>>]
    /\ time = 0
    /\ admitted = [b \in Buckets |-> <<>>]
    /\ refused = NoBucket

Counts_OffByOne(t) == time - t < Window
Counts(t) == time - t <= Window

\* while hits and now - hits[0] > window_seconds: the hits that are dropped.
Expired(b) == CHOOSE n \in 0..Len(hits[b]) :
    /\ \A i \in 1..n : ~Counts(hits[b][i])
    /\ n < Len(hits[b]) => Counts(hits[b][n + 1])

Pruned(b) == SubSeq(hits[b], Expired(b) + 1, Len(hits[b]))

Accept(b) ==
    /\ Len(Pruned(b)) < Limit
    /\ hits' = [hits EXCEPT ![b] = Append(Pruned(b), time)]
    /\ admitted' = [admitted EXCEPT ![b] = Append(@, time)]
    /\ refused' = NoBucket
    /\ UNCHANGED time

Refuse(b) ==
    /\ Len(Pruned(b)) >= Limit
    /\ hits' = [hits EXCEPT ![b] = Pruned(b)]
    /\ refused' = b
    /\ UNCHANGED <<time, admitted>>

TimePasses ==
    /\ time < MaxTime /\ time' = time + 1
    /\ refused' = NoBucket
    /\ UNCHANGED <<hits, admitted>>

\* The hits are those of one process.
ForgetHits ==
    /\ time > 0
    /\ hits' = [b \in Buckets |-> <<>>] /\ admitted' = hits'
    /\ time' = 0 /\ refused' = NoBucket

LimitNext ==
    \/ \E b \in Buckets : Accept(b) \/ Refuse(b)
    \/ TimePasses
    \/ ForgetHits

LimitSpec == LimitInit /\ [][LimitNext]_limitVars

-----------------------------------------------------------------------------
Admissions(b, from, to) ==
    Cardinality({i \in DOMAIN admitted[b] : admitted[b][i] \in from..to})

\* However the questions come, no stretch of window_seconds, both ends
\* included, has more than the limit of them.
NoWindowExceedsLimit ==
    \A b \in Buckets, from \in 0..time :
        Admissions(b, from, from + Window) <= Limit

\* A question is refused only if the limit was reached by questions that were
\* answered: asking in vain prolongs nothing (api/limits.py:63).
RefusalsAreDeserved ==
    refused # NoBucket =>
        \E from \in 0..time :
            /\ from + Window >= time
            /\ Admissions(refused, from, time) >= Limit

\* The limit holds callers back exactly as often as it says: never too late and
\* never without cause.
RateLimitIsFair == NoWindowExceedsLimit /\ RefusalsAreDeserved
=============================================================================

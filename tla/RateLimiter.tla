----------------------------- MODULE RateLimiter -----------------------------
(***************************************************************************)
(* InMemoryRateLimiter: per client a deque of the times of the requests it *)
(* let pass, pruned at the left when the client asks again.  The deque is  *)
(* kept here as the part of a log of all the times from an index on, so    *)
(* that what was pruned can still be spoken about.                         *)
(*                                                                         *)
(* allow() runs on the event loop without an await: one step.              *)
(***************************************************************************)
EXTENDS Naturals, Sequences

CONSTANTS
    Client,     \* keys, the hosts of the clients
    Limit,      \* requests_per_minute
    Window      \* the minute

ASSUME LimiterAssumption == Limit \in Nat \ {0} /\ Window \in Nat \ {0}

VARIABLES
    now,        \* the clock
    passed,     \* by client, when its requests were let pass
    first       \* the deque of a client is passed[c] from here on

LimiterTypeOK ==
    /\ now \in Nat
    /\ passed \in [Client -> Seq(Nat)]
    /\ first \in [Client -> Nat \ {0}]

LimiterInit ==
    /\ passed = [c \in Client |-> <<>>]
    /\ first = [c \in Client |-> 1]

\* events[0] <= cutoff
Expired(t) == t + Window <= now

\* Mutant: nothing is popped.
PrunedNever(c, k) == k = first[c]

\* Where the deque begins once its expired events are popped from the left.
Pruned(c, k) ==
    /\ k \in first[c]..Len(passed[c]) + 1
    /\ \A i \in first[c]..k - 1 : Expired(passed[c][i])
    /\ k <= Len(passed[c]) => ~ Expired(passed[c][k])

\* Mutant: one more than the limit.
FullLate(c, k) == Len(passed[c]) + 1 - k > Limit

\* len(events) >= requests_per_minute
Full(c, k) == Len(passed[c]) + 1 - k >= Limit

Allow(c) ==
    \E k \in first[c]..Len(passed[c]) + 1 :
        /\ Pruned(c, k) /\ ~ Full(c, k)
        /\ first' = [first EXCEPT ![c] = k]
        /\ passed' = [passed EXCEPT ![c] = Append(@, now)]

Refuse(c) ==
    \E k \in first[c]..Len(passed[c]) + 1 :
        /\ Pruned(c, k) /\ Full(c, k)
        /\ first' = [first EXCEPT ![c] = k]
        /\ UNCHANGED passed

-----------------------------------------------------------------------------
\* In no window of a minute does a client get more than Limit requests past
\* the limiter, wherever the window begins.
SlidingWindow ==
    \A c \in Client : \A i \in 1..Len(passed[c]) :
        i + Limit <= Len(passed[c]) =>
            passed[c][i] + Window <= passed[c][i + Limit]

\* When a client is refused, it has had Limit requests in the last minute.
LimitUsed(c) ==
    /\ Len(passed[c]) >= Limit
    /\ ~ Expired(passed[c][Len(passed[c]) + 1 - Limit])
=============================================================================

------------------------------- MODULE Edition -------------------------------
(***************************************************************************)
(* What the daily briefing promises the members of one organization: one   *)
(* edition per date, published once and never changed, available to those  *)
(* and only those who are subscribed at that moment.  DailyBriefing        *)
(* implements this specification.                                          *)
(***************************************************************************)
CONSTANTS
    Date,           \* briefing dates
    Item,           \* what an edition may list
    Reader,         \* members of the organization
    None            \* no edition yet

VARIABLES
    subscribed,     \* readers with an active subscription
    edition,        \* research.daily_briefings by date
    delivered,      \* readers with a delivery of the date's edition
    read            \* readers whose delivery is marked as read

vars == <<subscribed, edition, delivered, read>>

Init ==
    /\ subscribed \in SUBSET Reader
    /\ edition = [d \in Date |-> None]
    /\ delivered = [d \in Date |-> {}]
    /\ read = [d \in Date |-> {}]

ChangeSubscription ==
    /\ subscribed' \in SUBSET Reader
    /\ UNCHANGED <<edition, delivered, read>>

Publish(d, items) ==
    /\ edition[d] = None
    /\ edition' = [edition EXCEPT ![d] = items]
    /\ delivered' = [delivered EXCEPT ![d] = subscribed]
    /\ UNCHANGED <<subscribed, read>>

MarkRead(d, u) ==
    /\ u \in delivered[d]
    /\ read' = [read EXCEPT ![d] = @ \cup {u}]
    /\ UNCHANGED <<subscribed, edition, delivered>>

Next ==
    \/ ChangeSubscription
    \/ \E d \in Date :
         \/ \E items \in SUBSET Item : Publish(d, items)
         \/ \E u \in Reader : MarkRead(d, u)

Spec == Init /\ [][Next]_vars
=============================================================================

---------------------------- MODULE SerialDelivery ----------------------------
(***************************************************************************)
(* What a subscription promises: changes are delivered one at a time, each  *)
(* at most once, in the order they were taken in; nothing taken in is       *)
(* skipped unless the subscription never came to be; and after Close has    *)
(* returned nothing is delivered or left behind.                            *)
(***************************************************************************)
EXTENDS Naturals, Sequences

VARIABLES
    queue,      \* taken in and not yet delivered, numbered in that order
    taken,      \* how many were taken in
    delivering, \* the one being delivered, or 0
    state       \* "staging", "open", "failed" or "closed"

vars == <<queue, taken, delivering, state>>

Init == queue = <<>> /\ taken = 0 /\ delivering = 0 /\ state = "staging"

Take ==
    /\ state \in {"staging", "open"}
    /\ taken' = taken + 1 /\ queue' = Append(queue, taken + 1)
    /\ UNCHANGED <<delivering, state>>

Open == state = "staging" /\ state' = "open" /\ UNCHANGED <<queue, taken, delivering>>

Fail ==
    /\ state = "staging" /\ state' = "failed" /\ queue' = <<>>
    /\ UNCHANGED <<taken, delivering>>

Begin ==
    /\ state = "open" /\ delivering = 0 /\ queue # <<>>
    /\ delivering' = Head(queue) /\ queue' = Tail(queue)
    /\ UNCHANGED <<taken, state>>

End == delivering # 0 /\ delivering' = 0 /\ UNCHANGED <<queue, taken, state>>

Close ==
    /\ state = "open" /\ queue = <<>> /\ delivering = 0
    /\ state' = "closed"
    /\ UNCHANGED <<queue, taken, delivering>>

Next == Take \/ Open \/ Fail \/ Begin \/ End \/ Close

Spec == Init /\ [][Next]_vars
=============================================================================

---------------------------- MODULE MCAckedWrites ----------------------------
(* Small instances of AckedWrites for TLC. *)
EXTENDS AckedWrites, TLC

Put(scope, bad, checked, ack) ==
    [kind |-> "put", scope |-> scope, size |-> 1, bad |-> bad, checked |-> checked, ack |-> ack]
Batch(scope, size, bad, checked, ack) ==
    [kind |-> "batch", scope |-> scope, size |-> size, bad |-> bad, checked |-> checked,
     ack |-> ack]
Delete(scope, checked, ack) ==
    [kind |-> "delete", scope |-> scope, size |-> 1, bad |-> 0, checked |-> checked, ack |-> ack]

\* Calls that meet in the lane, then every other kind of request next to one
\* that is applied.  A request that is not checked comes from a peer.
First == CHOOSE o \in Ops : TRUE

SmallWorkloads ==
    LET batch == Batch("base", 2, 0, TRUE, TRUE)
        put == Put("base", 0, TRUE, TRUE)
        plain == Put("base", 0, TRUE, FALSE) IN
    {[o \in Ops |-> IF o = First THEN pair[1] ELSE pair[2]] : pair \in
       ({batch} \X {put, plain})
       \union ({put} \X {Batch("base", 2, 2, FALSE, TRUE), Delete("base", TRUE, FALSE)})
       \union ({plain} \X {Put("session", 0, TRUE, TRUE), Put("snap", 0, FALSE, TRUE),
                           Put("snap", 0, TRUE, TRUE), Put("base", 1, FALSE, TRUE),
                           Batch("base", 0, 0, TRUE, TRUE), Batch("base", 0, 0, FALSE, TRUE),
                           Delete("session", TRUE, FALSE),
                           Delete("base", FALSE, TRUE)})}
=============================================================================

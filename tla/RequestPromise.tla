--------------------------- MODULE RequestPromise ---------------------------
(***************************************************************************)
(* What HttpRequestQueue promises its client, with no word of sockets,     *)
(* blocks or purges: requests wait in the order they were made, only the   *)
(* first of them is ever completed, and each ends once, completed or       *)
(* forgotten.  Making a request may forget those that wait, but for one.   *)
(***************************************************************************)
EXTENDS Integers, Sequences

CONSTANT Requests

VARIABLES waiting,  \* the requests not ended yet, in order
          fate      \* of each request: "unmade", "waits", "completed",
                    \* "forgotten"

Fates == {"unmade", "waits", "completed", "forgotten"}

Init ==
    /\ waiting = <<>>
    /\ fate = [r \in Requests |-> "unmade"]

(* The fates when the requests in "kept" are all that waits on.            *)
Forget(kept) ==
    [r \in Requests |->
        IF fate[r] = "waits" /\ \A i \in DOMAIN kept : kept[i] # r
        THEN "forgotten" ELSE fate[r]]

Leftovers ==
    {waiting, <<>>} \cup {<<waiting[i]>> : i \in DOMAIN waiting}

Make(r) ==
    /\ fate[r] = "unmade"
    /\ \E kept \in Leftovers :
        \/ /\ waiting' = Append(kept, r)
           /\ fate' = [Forget(kept) EXCEPT ![r] = "waits"]
        \/ /\ waiting' = kept
           /\ fate' = [Forget(kept) EXCEPT ![r] = "forgotten"]

CompleteFirst ==
    /\ waiting # <<>>
    /\ waiting' = Tail(waiting)
    /\ fate' = [fate EXCEPT ![Head(waiting)] = "completed"]

ForgetAll ==
    /\ waiting' = <<>>
    /\ fate' = Forget(<<>>)

Next == (\E r \in Requests : Make(r)) \/ CompleteFirst \/ ForgetAll

Spec == Init /\ [][Next]_<<waiting, fate>>

=============================================================================

--------------------------- MODULE CollectionFeed ---------------------------
(***************************************************************************)
(* What the status web socket promises of each task id, whatever happens   *)
(* inside the collector: a collection is announced, goes through cycles of *)
(* collecting and completed or error, and is stopped, after which nothing  *)
(* is heard of it until it is announced again.                             *)
(***************************************************************************)
CONSTANT Ids

VARIABLE feed   \* the last status broadcast for each id

Announce(t) == feed[t] = "stopped" /\ feed' = [feed EXCEPT ![t] = "started"]

Collect(t) ==
    /\ feed[t] \in {"started", "completed", "error"}
    /\ feed' = [feed EXCEPT ![t] = "collecting"]

Report(t) ==
    /\ feed[t] = "collecting"
    /\ \E m \in {"completed", "error"} : feed' = [feed EXCEPT ![t] = m]

Stop(t) == feed[t] # "stopped" /\ feed' = [feed EXCEPT ![t] = "stopped"]

Init == feed \in [Ids -> {"started", "stopped"}]
Next == \E t \in Ids : Announce(t) \/ Collect(t) \/ Report(t) \/ Stop(t)
Spec == Init /\ [][Next]_feed
=============================================================================

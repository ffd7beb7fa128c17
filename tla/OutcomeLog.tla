----------------------------- MODULE OutcomeLog -----------------------------
(***************************************************************************)
(* orders.outcomes as those see it who only read it, the fill stream and   *)
(* the analytics ingester: partitions that grow, in which a record is for  *)
(* an account and of a kind.  Some kinds are not for them ("OTHER"), and a *)
(* record of a newer schema cannot be decoded ("UNREADABLE").              *)
(***************************************************************************)
EXTENDS Integers, SequencesExt

CONSTANTS Partitions,
          Published,    \* by partition, what may be appended to it
          MaxRecords    \* bound on the records of each

VARIABLE log

LogInit == log = [p \in Partitions |-> <<>>]

Publish(p) ==
    /\ Len(log[p]) < MaxRecords[p]
    /\ \E r \in Published[p] : log' = [log EXCEPT ![p] = Append(@, r)]

Readable(r) == r.kind # "UNREADABLE"

\* The kinds the stream and the ingester do something with.
Wanted(r) == r.kind \in {"FILL", "ORDER"}
=============================================================================

------------------------------ MODULE Pipeline ------------------------------
(***************************************************************************)
(* What internal/pipeline wires together: relay, matching and consumers of *)
(* several processes over one database and one log.  A server takes the    *)
(* primary role or stands by for it, and runs the loops.  A command        *)
(* accepts what it is asked, pumps the stages itself if it got the role    *)
(* (Drain) or waits for who has it (waitForPrimary), and ends.             *)
(*                                                                         *)
(* The role is the service lease of Leases without its clock: a lease may  *)
(* run out at any moment, and its holder goes on driving.                  *)
(*                                                                         *)
(* What a stage does to an order is in Shard and TradingCore; here an      *)
(* order is a record that each stage hands to the next, answered by one    *)
(* outcome in the partition of its account, and what matters is where each *)
(* process stands.  Matching and consumers handle one record per visit,    *)
(* the smallest batch there is.                                            *)
(*                                                                         *)
(* Every record can be handled: a settlement or a produce that fails skips *)
(* a record in memory, which TradingCore (NothingSkipped) and Shard are    *)
(* about.  A process that ends on an error may do so at any step.          *)
(***************************************************************************)
EXTENDS Integers, SequencesExt

CONSTANTS Servers, Commands,    \* processes
          MaxOrders,   \* bound on what is accepted
          Partitions,  \* of orders.outcomes
          PartOf,      \* the partition of an order's account
          RelayBatch

ASSUME PipelineAssumption ==
    /\ Servers \cap Commands = {}
    /\ MaxOrders \in Nat
    /\ PartOf \in [1 .. MaxOrders -> Partitions]
    /\ IsFiniteSet(Partitions)
    /\ RelayBatch \in Nat \ {0}

Instances == Servers \cup Commands

VARIABLES
    accepted,  \* how many orders there are; an order is its id in the outbox
    marked,    \* orders whose row has a published_at
    inbound,   \* orders.inbound, one partition
    outcomes,  \* orders.outcomes, by partition
    saved,     \* next_offset of the newest book snapshot
    next,      \* the durable consumer_offsets, by partition
    settled,   \* orders whose outcome is in the ledger
    holder,    \* the owner in the service lease's row, if there is a row
    stage,     \* how far each process is in what it runs
    carry,     \* what its relay has read and not yet marked
    sent,      \* whether that batch has been produced
    from, at,  \* where its shard began to read, and stands now
    reader,    \* where its consumers stand
    moved,     \* whether anything moved in this round of Drain
    visit,     \* partitions not yet visited in this pass
    asked      \* history: how many were accepted when Drain or the wait began

durable  == <<accepted, marked, inbound, outcomes, saved, next, settled>>
relaying == <<carry, sent>>
reading  == <<from, at, reader>>
draining == <<moved, visit, asked>>
vars == <<durable, holder, stage, relaying, reading, draining>>

Going(i, s) == stage' = [stage EXCEPT ![i] = s]

Loops(i) == stage[i] = "loops"

\* The process runs its loops, or is in that stage of Drain.
Runs(i, s) == Loops(i) \/ stage[i] = s

-----------------------------------------------------------------------------
(* Start: recover, then ask for the role. *)

\* New: books of the newest snapshot, consumers at their durable offsets.
Build(i) ==
    /\ stage[i] = "new"
    /\ Going(i, "built")
    /\ from' = [from EXCEPT ![i] = saved]
    /\ at' = [at EXCEPT ![i] = saved]
    /\ reader' = [reader EXCEPT ![i] = next]
    /\ UNCHANGED <<durable, holder, relaying, draining>>

\* A mutant: who is refused once never asks again.
AsksOnce(i) == {"built"}

Asks(i) == IF i \in Commands THEN {"built"} ELSE {"built", "standby"}

\* At start, and again and again on a server that was refused.  Whoever held
\* the role goes on without it.
Claim(i) ==
    /\ stage[i] \in Asks(i)
    /\ holder' = {i}
    /\ Going(i, IF i \in Commands THEN "ready" ELSE "loops")
    /\ UNCHANGED <<durable, relaying, reading, draining>>

Refused(i) ==
    /\ stage[i] = "built"
    /\ holder # {}
    /\ Going(i, IF i \in Commands THEN "client" ELSE "standby")
    /\ UNCHANGED <<durable, holder, relaying, reading, draining>>

\* Any process accepts, whoever drives the pipeline.
Accept ==
    /\ accepted < MaxOrders
    /\ \E i \in Instances : stage[i] \notin {"new", "gone"}
    /\ accepted' = accepted + 1
    /\ UNCHANGED <<holder, marked, inbound, outcomes, saved, next, settled>>
    /\ UNCHANGED <<stage, relaying, reading, draining>>

-----------------------------------------------------------------------------
(* The stages, in a loop or in a round of Drain. *)

Waiting == 1 .. accepted \ marked

\* A batch holds the first of them, in the order of their ids.
FirstWaiting(b) ==
    /\ \A j, k \in DOMAIN b : j < k => b[j] < b[k]
    /\ \A o \in Waiting \ Range(b), k \in DOMAIN b : b[k] < o

RelayRead(i) ==
    /\ Runs(i, "relay")
    /\ carry[i] = <<>>
    /\ \E n \in 1 .. RelayBatch : \E b \in [1 .. n -> Waiting] :
         /\ FirstWaiting(b)
         /\ n = RelayBatch \/ Range(b) = Waiting
         /\ carry' = [carry EXCEPT ![i] = b]
    /\ UNCHANGED <<durable, holder, stage, sent, reading, draining>>

RelaySend(i) ==
    /\ Runs(i, "relay")
    /\ carry[i] # <<>> /\ ~sent[i]
    /\ inbound' = inbound \o carry[i]
    /\ sent' = [sent EXCEPT ![i] = TRUE]
    /\ UNCHANGED <<holder, accepted, marked, outcomes, saved, next, settled>>
    /\ UNCHANGED <<stage, carry, reading, draining>>

RelayMark(i) ==
    /\ Runs(i, "relay")
    /\ sent[i]
    /\ marked' = marked \cup Range(carry[i])
    /\ carry' = [carry EXCEPT ![i] = <<>>]
    /\ sent' = [sent EXCEPT ![i] = FALSE]
    /\ moved' = [moved EXCEPT ![i] = ~Loops(i)]
    /\ UNCHANGED <<holder, accepted, inbound, outcomes, saved, next, settled>>
    /\ UNCHANGED <<stage, reading, visit, asked>>

\* The books know the orders read since they were rebuilt; what they read
\* before is not in the snapshot.
Seen(i) == {inbound[k] : k \in from[i] + 1 .. at[i]}

Answers(i, o) == IF o \in Seen(i) THEN <<>> ELSE <<o>>

\* The stage after this visit, for a process that drains.
ThenSettle(i) ==
    /\ Going(i, IF Loops(i) THEN stage[i] ELSE "settle")
    /\ visit' = [visit EXCEPT ![i] = IF Loops(i) THEN {} ELSE Partitions]

Match(i) ==
    /\ Runs(i, "match")
    /\ at[i] < Len(inbound)
    /\ \E o \in {inbound[at[i] + 1]} :
         outcomes' = [outcomes EXCEPT ![PartOf[o]] = @ \o Answers(i, o)]
    /\ at' = [at EXCEPT ![i] = @ + 1]
    /\ moved' = [moved EXCEPT ![i] = ~Loops(i)]
    /\ ThenSettle(i)
    /\ UNCHANGED <<holder, accepted, marked, inbound, saved, next, settled>>
    /\ UNCHANGED <<relaying, from, reader, asked>>

\* A record and the offset after it commit together, whatever offset is there.
Consume(i, p) ==
    /\ Runs(i, "settle")
    /\ stage[i] = "settle" => p \in visit[i]
    /\ reader[i][p] < Len(outcomes[p])
    /\ settled' = settled \cup {outcomes[p][reader[i][p] + 1]}
    /\ next' = [next EXCEPT ![p] = reader[i][p] + 1]
    /\ reader' = [reader EXCEPT ![i][p] = @ + 1]
    /\ moved' = [moved EXCEPT ![i] = ~Loops(i)]
    /\ visit' = [visit EXCEPT ![i] = @ \ {p}]
    /\ UNCHANGED <<holder, accepted, marked, inbound, outcomes, saved>>
    /\ UNCHANGED <<stage, relaying, from, at, asked>>

\* A mutant: a snapshot records the end of the log.
EndOfLog(i) == Len(inbound)

\* What the shard has read is in its books.
NextOffset(i) == at[i]

\* A snapshot.  The one with the greatest offset is what a restart loads, so an
\* older one changes nothing.
Save(i) == saved' = IF NextOffset(i) > saved THEN NextOffset(i) ELSE saved

\* Every SnapshotEvery records; on a serving process also by its ticker, which
\* on a standby saves again what it once loaded.
Checkpoint(i) ==
    /\ Runs(i, "match")
    /\ Save(i)
    /\ UNCHANGED <<holder, accepted, marked, inbound, outcomes, next, settled>>
    /\ UNCHANGED <<stage, relaying, reading, draining>>

\* Settle, after its Drain.
Settle(i) ==
    /\ stage[i] = "drained"
    /\ Save(i)
    /\ Going(i, "reported")
    /\ UNCHANGED <<holder, accepted, marked, inbound, outcomes, next, settled>>
    /\ UNCHANGED <<relaying, reading, draining>>

-----------------------------------------------------------------------------
(* Drain: rounds, until one moves nothing. *)

Ask(i) ==
    /\ stage[i] \in {"ready", "client"}
    /\ asked' = [asked EXCEPT ![i] = accepted]
    /\ Going(i, IF stage[i] = "ready" THEN "relay" ELSE "polling")
    /\ UNCHANGED <<durable, holder, relaying, reading, moved, visit>>

\* The relay's own Drain ends when there is nothing to publish.
RelayDry(i) ==
    /\ stage[i] = "relay"
    /\ carry[i] = <<>> /\ Waiting = {}
    /\ Going(i, "match")
    /\ UNCHANGED <<durable, holder, relaying, reading, draining>>

MatchDry(i) ==
    /\ stage[i] = "match"
    /\ at[i] = Len(inbound)
    /\ ThenSettle(i)
    /\ UNCHANGED <<durable, holder, relaying, reading, moved, asked>>

ConsumeDry(i, p) ==
    /\ stage[i] = "settle" /\ p \in visit[i]
    /\ reader[i][p] = Len(outcomes[p])
    /\ visit' = [visit EXCEPT ![i] = @ \ {p}]
    /\ UNCHANGED <<durable, holder, stage, relaying, reading, moved, asked>>

\* A mutant: one pass over the stages is taken for enough.
QuietAfterOneRound(i) == TRUE

Quiet(i) == ~moved[i]

RoundEnds(i) ==
    /\ stage[i] = "settle" /\ visit[i] = {}
    /\ Going(i, IF Quiet(i) THEN "drained" ELSE "relay")
    /\ moved' = [moved EXCEPT ![i] = FALSE]
    /\ UNCHANGED <<durable, holder, relaying, reading, visit, asked>>

-----------------------------------------------------------------------------
(* waitForPrimary: the outbox first, then the partitions one by one. *)

WaitReadsOutbox(i) ==
    /\ stage[i] = "polling"
    /\ Waiting = {}
    /\ Going(i, "empty")
    /\ visit' = [visit EXCEPT ![i] = Partitions]
    /\ UNCHANGED <<durable, holder, relaying, reading, moved, asked>>

WaitReadsPartition(i, p) ==
    /\ stage[i] = "empty" /\ p \in visit[i]
    /\ IF next[p] < Len(outcomes[p])
       THEN /\ Going(i, "polling")
            /\ visit' = [visit EXCEPT ![i] = {}]
       ELSE /\ Going(i, IF visit[i] = {p} THEN "waited" ELSE "empty")
            /\ visit' = [visit EXCEPT ![i] = @ \ {p}]
    /\ UNCHANGED <<durable, holder, relaying, reading, moved, asked>>

-----------------------------------------------------------------------------
(* The end of a process. *)

\* What a process had in memory is gone with it.
Gone(i) ==
    /\ Going(i, "gone")
    /\ carry' = [carry EXCEPT ![i] = <<>>]
    /\ sent' = [sent EXCEPT ![i] = FALSE]
    /\ from' = [from EXCEPT ![i] = 0]
    /\ at' = [at EXCEPT ![i] = 0]
    /\ reader' = [reader EXCEPT ![i] = [p \in Partitions |-> 0]]
    /\ moved' = [moved EXCEPT ![i] = FALSE]
    /\ visit' = [visit EXCEPT ![i] = {}]
    /\ asked' = [asked EXCEPT ![i] = 0]

\* The end of a command, the deadline of its wait, an error, a signal: the role
\* is given up.
Leave(i) ==
    /\ stage[i] \notin {"new", "loops", "gone"}
    /\ holder' = holder \ {i}
    /\ Gone(i)
    /\ UNCHANGED durable

\* The loops have noticed that the server ends; matching takes a checkpoint on
\* its way out.  The role may be given up before, as it may run out before.
LoopsEnd(i) ==
    /\ stage[i] = "loops"
    /\ Save(i)
    /\ holder' = holder \ {i}
    /\ Gone(i)
    /\ UNCHANGED <<accepted, marked, inbound, outcomes, next, settled>>

\* The row of the role stays until its lease has run out.
Crash(i) ==
    /\ stage[i] # "gone"
    /\ Gone(i)
    /\ UNCHANGED <<durable, holder>>

-----------------------------------------------------------------------------
Init ==
    /\ accepted = 0 /\ marked = {} /\ inbound = <<>> /\ settled = {}
    /\ outcomes = [p \in Partitions |-> <<>>] /\ next = [p \in Partitions |-> 0]
    /\ saved = 0
    /\ holder = {}
    /\ stage = [i \in Instances |-> "new"]
    /\ carry = [i \in Instances |-> <<>>] /\ sent = [i \in Instances |-> FALSE]
    /\ from = [i \in Instances |-> 0] /\ at = [i \in Instances |-> 0]
    /\ reader = [i \in Instances |-> [p \in Partitions |-> 0]]
    /\ moved = [i \in Instances |-> FALSE] /\ visit = [i \in Instances |-> {}]
    /\ asked = [i \in Instances |-> 0]

Next ==
    \/ Accept
    \/ \E i \in Instances :
         \/ Build(i) \/ Claim(i) \/ Refused(i) \/ Ask(i)
         \/ RelayRead(i) \/ RelaySend(i) \/ RelayMark(i) \/ RelayDry(i)
         \/ Match(i) \/ MatchDry(i)
         \/ \E p \in Partitions : Consume(i, p) \/ ConsumeDry(i, p) \/ WaitReadsPartition(i, p)
         \/ RoundEnds(i) \/ WaitReadsOutbox(i) \/ Checkpoint(i) \/ Settle(i)
         \/ Leave(i) \/ LoopsEnd(i) \/ Crash(i)

Spec == Init /\ [][Next]_vars

\* A server starts, and polls for the role; nobody renews it once no server
\* serves, so then it can be had.  The loops go on.  Commands promise nothing.
Fairness ==
    \A i \in Servers :
      /\ WF_vars(Build(i))
      /\ WF_vars(Claim(i) /\ \A j \in Servers : ~Loops(j))
      /\ WF_vars(RelayRead(i) \/ RelaySend(i) \/ RelayMark(i))
      /\ WF_vars(Match(i))
      /\ \A p \in Partitions : WF_vars(Consume(i, p))

FairSpec == Spec /\ Fairness

-----------------------------------------------------------------------------
(* What must hold. *)

Orders == 1 .. MaxOrders

Stages == {"new", "built", "standby", "loops", "ready", "client", "relay", "match",
           "settle", "drained", "reported", "polling", "empty", "waited", "gone"}

\* The types, and no process stands beyond the end of what it reads.
TypeOK ==
    /\ accepted \in 0 .. MaxOrders
    /\ marked \subseteq Orders
    /\ inbound \in Seq(Orders)
    /\ outcomes \in [Partitions -> Seq(Orders)]
    /\ saved \in 0 .. Len(inbound)
    /\ next \in [Partitions -> Nat]
    /\ settled \subseteq Orders
    /\ holder \subseteq Instances
    /\ stage \in [Instances -> Stages]
    /\ carry \in [Instances -> Seq(Orders)]
    /\ sent \in [Instances -> BOOLEAN]
    /\ from \in [Instances -> Nat]
    /\ at \in [Instances -> 0 .. Len(inbound)]
    /\ reader \in [Instances -> [Partitions -> Nat]]
    /\ \A i \in Instances : from[i] <= at[i]
    /\ \A p \in Partitions :
         /\ next[p] <= Len(outcomes[p])
         /\ \A i \in Instances : reader[i][p] <= Len(outcomes[p])
    /\ moved \in [Instances -> BOOLEAN]
    /\ visit \in [Instances -> SUBSET Partitions]
    /\ asked \in [Instances -> 0 .. accepted]

\* When Drain returns, everything accepted before it began is settled; when
\* the wait for the primary returns, all of it is at least in the log.
ReportsHold ==
    \A i \in Instances :
      /\ stage[i] \in {"drained", "reported"} => 1 .. asked[i] \subseteq settled
      /\ stage[i] = "waited" => 1 .. asked[i] \subseteq Range(inbound)

\* Whatever becomes of the processes, an accepted order is where one that
\* starts now would find it: in the outbox, in the log after the snapshot, or
\* among the outcomes after the durable offset; or it is settled.
NothingLost ==
    \A o \in 1 .. accepted :
      \/ o \notin marked
      \/ \E k \in saved + 1 .. Len(inbound) : inbound[k] = o
      \/ \E k \in next[PartOf[o]] + 1 .. Len(outcomes[PartOf[o]]) : outcomes[PartOf[o]][k] = o
      \/ o \in settled

\* As long as a server keeps running, every accepted order is settled,
\* through takeovers, two drivers at once, and standbys as old as their start.
EverythingSettles ==
    <>[](1 .. accepted \subseteq settled \/ \A i \in Servers : stage[i] = "gone")
=============================================================================

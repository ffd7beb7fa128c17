-------------------------- MODULE Pipeline_proofs --------------------------
(***************************************************************************)
(* What the pipeline never loses, and what its reports mean, for any       *)
(* number of processes, partitions and orders.                             *)
(*                                                                         *)
(* The argument follows a record from hand to hand: what is marked is in   *)
(* the log; what any shard or snapshot has passed is answered; what any    *)
(* consumer or durable offset has passed is settled.  Each process keeps   *)
(* this for itself, so it does not matter who else drives, or from how     *)
(* old a position.                                                         *)
(***************************************************************************)
EXTENDS Pipeline, SequenceTheorems, TLAPS

Holds(log, o) == \E k \in 1 .. Len(log) : log[k] = o

Answered(outs, o) == Holds(outs[PartOf[o]], o)

Published == \A o \in marked : Holds(inbound, o)

Carried ==
    \A i \in Instances : sent[i] =>
      /\ carry[i] # <<>>
      /\ \A k \in 1 .. Len(carry[i]) : Holds(inbound, carry[i][k])

Matched ==
    /\ \A k \in 1 .. saved : Answered(outcomes, inbound[k])
    /\ \A i \in Instances : \A k \in 1 .. at[i] : Answered(outcomes, inbound[k])

Consumed ==
    \A p \in Partitions :
      /\ \A k \in 1 .. next[p] : outcomes[p][k] \in settled
      /\ \A i \in Instances : \A k \in 1 .. reader[i][p] : outcomes[p][k] \in settled

\* What a process that drains or waits knows of the orders it asks for.
Known ==
    \A i \in Instances : \A o \in 1 .. asked[i] :
      /\ stage[i] \in {"match", "settle", "empty", "waited"} => Holds(inbound, o)
      /\ stage[i] = "settle" /\ ~moved[i]
           => /\ Answered(outcomes, o)
              /\ PartOf[o] \notin visit[i] => o \in settled
      /\ stage[i] \in {"drained", "reported"} => o \in settled

IInv == TypeOK /\ Published /\ Carried /\ Matched /\ Consumed /\ Known

-----------------------------------------------------------------------------
(* Types. *)

LEMMA InitTypes == Init => TypeOK
  BY PipelineAssumption DEF PipelineAssumption, Init, TypeOK, Orders, Stages

\* What the relay reads is a sequence of orders.
LEMMA BatchType ==
  ASSUME TypeOK, NEW n \in Nat, NEW b \in [1 .. n -> Waiting]
  PROVE  b \in Seq(Orders)
  <1>1. Waiting \subseteq Orders
    BY PipelineAssumption DEF PipelineAssumption, TypeOK, Waiting, Orders
  <1>2. b \in [1 .. n -> Orders]
    BY <1>1
  <1> QED  BY <1>2, SeqDef

LEMMA StepTypes == TypeOK /\ [Next]_vars => TypeOK'
  <1> SUFFICES ASSUME TypeOK, [Next]_vars PROVE TypeOK'
    OBVIOUS
  <1> USE PipelineAssumption DEF PipelineAssumption, TypeOK, durable, relaying, reading,
                                 draining, Going, Loops, Runs, Stages
  <1>1. CASE Accept
    BY <1>1 DEF Accept
  <1>2. ASSUME NEW i \in Instances, Build(i) PROVE TypeOK'
    BY <1>2 DEF Build
  <1>3. ASSUME NEW i \in Instances, Claim(i) PROVE TypeOK'
    BY <1>3 DEF Claim
  <1>4. ASSUME NEW i \in Instances, Refused(i) PROVE TypeOK'
    BY <1>4 DEF Refused
  <1>5. ASSUME NEW i \in Instances, Ask(i) PROVE TypeOK'
    BY <1>5 DEF Ask
  <1>6. ASSUME NEW i \in Instances, RelayRead(i) PROVE TypeOK'
    <2>1. PICK n \in 1 .. RelayBatch : \E b \in [1 .. n -> Waiting] :
                 carry' = [carry EXCEPT ![i] = b]
      BY <1>6 DEF RelayRead
    <2>2. PICK b \in [1 .. n -> Waiting] : carry' = [carry EXCEPT ![i] = b]
      BY <2>1
    <2>3. b \in Seq(Orders)
      BY <2>1, BatchType
    <2> QED  BY <1>6, <2>2, <2>3 DEF RelayRead
  <1>7. ASSUME NEW i \in Instances, RelaySend(i) PROVE TypeOK'
    <2>1. /\ inbound' = inbound \o carry[i]
          /\ inbound' \in Seq(Orders)
          /\ Len(inbound') >= Len(inbound)
      BY <1>7 DEF RelaySend
    <2>2. at \in [Instances -> 0 .. Len(inbound')] /\ saved \in 0 .. Len(inbound')
      BY <2>1
    <2> QED  BY <1>7, <2>1, <2>2 DEF RelaySend
  <1>8. ASSUME NEW i \in Instances, RelayMark(i) PROVE TypeOK'
    BY <1>8 DEF RelayMark, Range
  <1>9. ASSUME NEW i \in Instances, RelayDry(i) PROVE TypeOK'
    BY <1>9 DEF RelayDry
  <1>10. ASSUME NEW i \in Instances, Match(i) PROVE TypeOK'
    <2>1. /\ at[i] + 1 \in 1 .. Len(inbound)
          /\ inbound[at[i] + 1] \in Orders
      BY <1>10 DEF Match
    <2>2. PICK o \in Orders :
             outcomes' = [outcomes EXCEPT ![PartOf[o]] = @ \o Answers(i, o)]
      BY <1>10, <2>1 DEF Match
    <2>3. /\ PartOf[o] \in Partitions
          /\ Answers(i, o) \in Seq(Orders)
      <3>1. PartOf[o] \in Partitions
        BY DEF Orders
      <3>2. <<o>> \in Seq(Orders) /\ <<>> \in Seq(Orders)
        OBVIOUS
      <3> QED  BY <3>1, <3>2 DEF Answers
    <2>4. /\ outcomes' \in [Partitions -> Seq(Orders)]
          /\ \A p \in Partitions : Len(outcomes[p]) <= Len(outcomes'[p])
      BY <2>2, <2>3
    <2>5. /\ UNCHANGED <<accepted, marked, inbound, saved, next, settled, holder>>
          /\ UNCHANGED <<carry, sent, from, reader, asked>>
          /\ at' = [at EXCEPT ![i] = @ + 1]
          /\ stage' \in [Instances -> Stages]
          /\ moved' \in [Instances -> BOOLEAN]
          /\ visit' \in [Instances -> SUBSET Partitions]
      BY <1>10 DEF Match, ThenSettle
    <2>6. ASSUME NEW p \in Partitions
          PROVE  /\ next'[p] <= Len(outcomes'[p])
                 /\ \A j \in Instances : reader'[j][p] <= Len(outcomes'[p])
      <3>1. /\ outcomes[p] \in Seq(Orders) /\ outcomes'[p] \in Seq(Orders)
            /\ next[p] \in Nat /\ \A j \in Instances : reader[j][p] \in Nat
        BY <2>4
      <3>2. Len(outcomes[p]) \in Nat /\ Len(outcomes'[p]) \in Nat
        BY <3>1
      <3> QED  BY <2>4, <2>5, <3>1, <3>2
    <2>7. /\ at' \in [Instances -> 0 .. Len(inbound')]
          /\ \A j \in Instances : from'[j] <= at'[j]
      BY <2>1, <2>5
    <2> QED  BY <2>4, <2>5, <2>6, <2>7
  <1>11. ASSUME NEW i \in Instances, MatchDry(i) PROVE TypeOK'
    BY <1>11 DEF MatchDry, ThenSettle
  <1>12. ASSUME NEW i \in Instances, NEW p \in Partitions, Consume(i, p) PROVE TypeOK'
    <2>1. /\ reader[i][p] + 1 \in 1 .. Len(outcomes[p])
          /\ outcomes[p][reader[i][p] + 1] \in Orders
      <3>1. reader[i][p] \in Nat /\ outcomes[p] \in Seq(Orders)
        OBVIOUS
      <3>2. Len(outcomes[p]) \in Nat /\ reader[i][p] < Len(outcomes[p])
        BY <1>12, <3>1 DEF Consume
      <3>3. reader[i][p] + 1 \in 1 .. Len(outcomes[p])
        BY <3>1, <3>2
      <3> QED  BY <3>1, <3>3, ElementOfSeq
    <2>2. settled' \subseteq Orders /\ next' \in [Partitions -> Nat]
      BY <1>12, <2>1 DEF Consume
    <2>3. reader' = [reader EXCEPT ![i] = [reader[i] EXCEPT ![p] = @ + 1]]
      BY <1>12 DEF Consume
    <2>4. /\ reader' \in [Instances -> [Partitions -> Nat]]
          /\ \A q \in Partitions, j \in Instances : reader'[j][q] <= Len(outcomes[q])
      BY <2>1, <2>3
    <2>5. \A q \in Partitions : next'[q] <= Len(outcomes[q])
      BY <1>12, <2>1 DEF Consume
    <2> QED  BY <1>12, <2>2, <2>4, <2>5 DEF Consume
  <1>13. ASSUME NEW i \in Instances, NEW p \in Partitions, ConsumeDry(i, p) PROVE TypeOK'
    BY <1>13 DEF ConsumeDry
  <1>14. ASSUME NEW i \in Instances, NEW p \in Partitions, WaitReadsPartition(i, p)
         PROVE TypeOK'
    <2>1. CASE next[p] < Len(outcomes[p])
      BY <1>14, <2>1 DEF WaitReadsPartition
    <2>2. CASE ~(next[p] < Len(outcomes[p]))
      <3>1. /\ stage' = [stage EXCEPT ![i] = IF visit[i] = {p} THEN "waited" ELSE "empty"]
            /\ visit' = [visit EXCEPT ![i] = @ \ {p}]
            /\ UNCHANGED <<durable, holder, relaying, reading, moved, asked>>
        BY <1>14, <2>2 DEF WaitReadsPartition
      <3>2. stage' \in [Instances -> Stages] /\ visit' \in [Instances -> SUBSET Partitions]
        BY <3>1
      <3> QED  BY <3>1, <3>2
    <2> QED  BY <2>1, <2>2
  <1>15. ASSUME NEW i \in Instances, RoundEnds(i) PROVE TypeOK'
    BY <1>15 DEF RoundEnds
  <1>16. ASSUME NEW i \in Instances, WaitReadsOutbox(i) PROVE TypeOK'
    BY <1>16 DEF WaitReadsOutbox
  <1>17. ASSUME NEW i \in Instances, Checkpoint(i) PROVE TypeOK'
    BY <1>17 DEF Checkpoint, Save, NextOffset
  <1>18. ASSUME NEW i \in Instances, Settle(i) PROVE TypeOK'
    BY <1>18 DEF Settle, Save, NextOffset
  <1>19. ASSUME NEW i \in Instances, Leave(i) PROVE TypeOK'
    BY <1>19 DEF Leave, Gone
  <1>20. ASSUME NEW i \in Instances, LoopsEnd(i) PROVE TypeOK'
    BY <1>20 DEF LoopsEnd, Gone, Save, NextOffset
  <1>21. ASSUME NEW i \in Instances, Crash(i) PROVE TypeOK'
    BY <1>21 DEF Crash, Gone
  <1>22. CASE UNCHANGED vars
    BY <1>22 DEF vars
  <1> QED
    BY <1>1, <1>2, <1>3, <1>4, <1>5, <1>6, <1>7, <1>8, <1>9, <1>10, <1>11, <1>12, <1>13,
       <1>14, <1>15, <1>16, <1>17, <1>18, <1>19, <1>20, <1>21, <1>22 DEF Next

\* TypeOK is an invariant.
THEOREM PipelineTypes == Spec => []TypeOK
  BY InitTypes, StepTypes, PTL DEF Spec

-----------------------------------------------------------------------------
(* The log only grows, and so do the outcomes and what is settled. *)

LEMMA LogGrows ==
  ASSUME TypeOK, [Next]_vars
  PROVE  /\ inbound' \in Seq(Orders)
         /\ Len(inbound) <= Len(inbound')
         /\ \A k \in 1 .. Len(inbound) : inbound'[k] = inbound[k]
  <1> inbound \in Seq(Orders)
    BY DEF TypeOK
  <1>1. CASE \E i \in Instances : RelaySend(i)
    <2>1. PICK i \in Instances : inbound' = inbound \o carry[i]
      BY <1>1 DEF RelaySend
    <2>2. carry[i] \in Seq(Orders)
      BY DEF TypeOK
    <2> QED  BY <2>1, <2>2
  <1>2. CASE ~\E i \in Instances : RelaySend(i)
    <2>1. inbound' = inbound
      BY <1>2 DEF Next, vars, durable, Build, Claim, Refused, Accept, Ask, RelayRead, RelayMark,
         RelayDry, Match, MatchDry, Consume, ConsumeDry, WaitReadsPartition, RoundEnds,
         WaitReadsOutbox, Checkpoint, Settle, Leave, LoopsEnd, Crash
    <2> QED  BY <2>1
  <1> QED  BY <1>1, <1>2

LEMMA OutcomesGrow ==
  ASSUME TypeOK, [Next]_vars, NEW p \in Partitions
  PROVE  /\ outcomes'[p] \in Seq(Orders)
         /\ Len(outcomes[p]) <= Len(outcomes'[p])
         /\ \A k \in 1 .. Len(outcomes[p]) : outcomes'[p][k] = outcomes[p][k]
  <1> outcomes[p] \in Seq(Orders)
    BY DEF TypeOK
  <1>1. CASE \E i \in Instances : Match(i)
    <2>1. PICK i \in Instances : Match(i)
      BY <1>1
    <2>2. PICK o \in {inbound[at[i] + 1]} :
                  outcomes' = [outcomes EXCEPT ![PartOf[o]] = @ \o Answers(i, o)]
      BY <2>1 DEF Match
    <2>3. o \in Orders
      BY <2>1 DEF Match, TypeOK
    <2>4. <<o>> \in Seq(Orders) /\ <<>> \in Seq(Orders)
      BY <2>3
    <2>5. Answers(i, o) \in Seq(Orders)
      BY <2>4 DEF Answers
    <2>6. outcomes'[p] = outcomes[p] \/ outcomes'[p] = outcomes[p] \o Answers(i, o)
      BY <2>2 DEF TypeOK
    <2>7. ASSUME NEW t \in Seq(Orders), NEW u \in Seq(Orders)
          PROVE  /\ t \o u \in Seq(Orders)
                 /\ Len(t) <= Len(t \o u)
                 /\ \A k \in 1 .. Len(t) : (t \o u)[k] = t[k]
      OBVIOUS
    <2>8. CASE outcomes'[p] = outcomes[p]
      BY <2>8
    <2>9. CASE outcomes'[p] = outcomes[p] \o Answers(i, o)
      BY <2>5, <2>7, <2>9
    <2> QED  BY <2>6, <2>8, <2>9
  <1>2. CASE ~\E i \in Instances : Match(i)
    <2>1. outcomes' = outcomes
      BY <1>2 DEF Next, vars, durable, Build, Claim, Refused, Accept, Ask, RelayRead, RelaySend,
         RelayMark, RelayDry, MatchDry, Consume, ConsumeDry, WaitReadsPartition, RoundEnds,
         WaitReadsOutbox, Checkpoint, Settle, Leave, LoopsEnd, Crash
    <2> QED  BY <2>1
  <1> QED  BY <1>1, <1>2

LEMMA SettledGrows ==
  ASSUME [Next]_vars
  PROVE  settled \subseteq settled'
  BY DEF Next, vars, durable, Build, Claim, Refused, Accept, Ask, RelayRead, RelaySend,
     RelayMark, RelayDry, Match, MatchDry, Consume, ConsumeDry, WaitReadsPartition, RoundEnds,
     WaitReadsOutbox, Checkpoint, Settle, Leave, LoopsEnd, Crash

LEMMA InLogStays ==
  ASSUME TypeOK, [Next]_vars, NEW o, Holds(inbound, o)
  PROVE  Holds(inbound', o)
  <1>1. PICK k \in 1 .. Len(inbound) : inbound[k] = o
    BY DEF Holds
  <1>2. Len(inbound) \in Nat /\ Len(inbound') \in Nat
    BY LogGrows DEF TypeOK
  <1>3. k \in 1 .. Len(inbound') /\ inbound'[k] = o
    BY <1>1, <1>2, LogGrows
  <1> QED  BY <1>3 DEF Holds

LEMMA AnsweredStays ==
  ASSUME TypeOK, [Next]_vars, NEW o \in Orders, Answered(outcomes, o)
  PROVE  Answered(outcomes', o)
  <1> DEFINE p == PartOf[o]
  <1>1. p \in Partitions
    BY PipelineAssumption DEF PipelineAssumption, Orders
  <1>2. PICK k \in 1 .. Len(outcomes[p]) : outcomes[p][k] = o
    BY DEF Answered, Holds
  <1>3. Len(outcomes[p]) \in Nat /\ Len(outcomes'[p]) \in Nat
    BY <1>1, OutcomesGrow DEF TypeOK
  <1>4. k \in 1 .. Len(outcomes'[p]) /\ outcomes'[p][k] = o
    BY <1>1, <1>2, <1>3, OutcomesGrow
  <1> QED  BY <1>4 DEF Answered, Holds

-----------------------------------------------------------------------------
(* What is marked is in the log, and what is sent. *)

LEMMA PublishedKept == TypeOK /\ Published /\ Carried /\ [Next]_vars => Published'
  <1> SUFFICES ASSUME TypeOK, Published, Carried, [Next]_vars, NEW o \in marked'
               PROVE  Holds(inbound', o)
    BY DEF Published
  <1>1. CASE o \in marked
    BY <1>1, InLogStays DEF Published
  <1>2. CASE o \notin marked
    <2>1. PICK i \in Instances : RelayMark(i)
      BY <1>2 DEF Next, vars, durable, Build, Claim, Refused, Accept, Ask, RelayRead, RelaySend,
         RelayDry, Match, MatchDry, Consume, ConsumeDry, WaitReadsPartition, RoundEnds,
         WaitReadsOutbox, Checkpoint, Settle, Leave, LoopsEnd, Crash
    <2>2. sent[i] /\ o \in Range(carry[i]) /\ carry[i] \in Seq(Orders)
      BY <1>2, <2>1 DEF RelayMark, TypeOK
    <2>3. PICK k \in 1 .. Len(carry[i]) : carry[i][k] = o
      BY <2>2 DEF Range
    <2> QED  BY <2>2, <2>3, InLogStays DEF Carried
  <1> QED  BY <1>1, <1>2

LEMMA CarriedKept == TypeOK /\ Carried /\ [Next]_vars => Carried'
  <1> SUFFICES ASSUME TypeOK, Carried, [Next]_vars,
                      NEW i \in Instances, sent'[i]
               PROVE  /\ carry'[i] # <<>>
                      /\ \A k \in 1 .. Len(carry'[i]) : Holds(inbound', carry'[i][k])
    BY DEF Carried
  <1>1. CASE sent[i] /\ carry'[i] = carry[i]
    BY <1>1, InLogStays DEF Carried
  <1>2. CASE ~(sent[i] /\ carry'[i] = carry[i])
    <2>1. RelaySend(i)
      <3>1. CASE UNCHANGED <<carry, sent>>
        BY <1>2, <3>1
      <3>2. ASSUME NEW j \in Instances,
                   RelayRead(j) \/ RelayMark(j) \/ Leave(j) \/ LoopsEnd(j) \/ Crash(j)
            PROVE  FALSE
        <4>1. CASE j = i /\ RelayRead(j)
          BY <1>2, <4>1 DEF RelayRead, TypeOK, Carried
        <4>2. CASE j = i /\ ~RelayRead(j)
          BY <1>2, <3>2, <4>2 DEF RelayMark, Leave, LoopsEnd, Crash, Gone, TypeOK
        <4>3. CASE j # i
          BY <1>2, <3>2, <4>3 DEF RelayRead, RelayMark, Leave, LoopsEnd, Crash, Gone, TypeOK
        <4> QED  BY <4>1, <4>2, <4>3
      <3>3. ASSUME NEW j \in Instances, RelaySend(j) PROVE j = i
        BY <1>2, <3>3 DEF RelaySend, TypeOK
      <3> QED
        BY <3>1, <3>2, <3>3 DEF Next, vars, relaying, Build, Claim, Refused, Accept, Ask,
           RelayDry, Match, MatchDry, Consume, ConsumeDry, WaitReadsPartition, RoundEnds,
           WaitReadsOutbox, Checkpoint, Settle
    <2>2. /\ carry' = carry /\ inbound' = inbound \o carry[i]
          /\ carry[i] \in Seq(Orders) /\ inbound \in Seq(Orders)
      BY <2>1 DEF RelaySend, TypeOK
    <2>3. ASSUME NEW k \in 1 .. Len(carry[i])
          PROVE  /\ Len(inbound) + k \in 1 .. Len(inbound')
                 /\ inbound'[Len(inbound) + k] = carry[i][k]
      BY <2>2
    <2>4. carry[i] # <<>>
      BY <2>1 DEF RelaySend
    <2> QED  BY <2>2, <2>3, <2>4 DEF Holds
  <1> QED  BY <1>1, <1>2

-----------------------------------------------------------------------------
(* What a shard or a snapshot has passed is answered. *)

LEMMA MatchedKept == TypeOK /\ Matched /\ [Next]_vars => Matched'
  <1> SUFFICES ASSUME TypeOK, Matched, [Next]_vars
               PROVE  Matched'
    OBVIOUS
  <1> inbound \in Seq(Orders) /\ Len(inbound) \in Nat
    BY DEF TypeOK
  \* A record in reach of one of the old positions.
  <1>1. ASSUME NEW k \in 1 .. Len(inbound), Answered(outcomes, inbound[k])
        PROVE  Answered(outcomes', inbound'[k])
    <2>1. inbound'[k] = inbound[k] /\ inbound[k] \in Orders
      BY LogGrows, ElementOfSeq
    <2> QED  BY <1>1, <2>1, AnsweredStays
  <1>2. ASSUME NEW k \in 1 .. saved PROVE Answered(outcomes', inbound'[k])
    BY <1>1 DEF Matched, TypeOK
  <1>3. ASSUME NEW i \in Instances, NEW k \in 1 .. at[i] PROVE Answered(outcomes', inbound'[k])
    BY <1>1 DEF Matched, TypeOK
  <1>4. saved' = saved \/ \E i \in Instances : saved' = at[i]
    BY DEF Next, vars, durable, Build, Claim, Refused, Accept, Ask, RelayRead, RelaySend,
       RelayMark, RelayDry, Match, MatchDry, Consume, ConsumeDry, WaitReadsPartition, RoundEnds,
       WaitReadsOutbox, Checkpoint, Settle, Leave, LoopsEnd, Crash, Save, NextOffset
  <1>5. ASSUME NEW k \in 1 .. saved' PROVE Answered(outcomes', inbound'[k])
    BY <1>2, <1>3, <1>4
  <1>6. ASSUME NEW i \in Instances, NEW k \in 1 .. at'[i] PROVE Answered(outcomes', inbound'[k])
    <2>1. CASE at'[i] \in {0, saved, at[i]}
      BY <1>2, <1>3, <1>6, <2>1 DEF TypeOK
    <2>2. CASE at'[i] \notin {0, saved, at[i]}
      <3>1. Match(i)
        <4>1. ASSUME NEW j \in Instances,
                     Build(j) \/ Leave(j) \/ LoopsEnd(j) \/ Crash(j)
              PROVE  FALSE
          BY <2>2, <4>1 DEF Build, Leave, LoopsEnd, Crash, Gone, TypeOK
        <4>2. ASSUME NEW j \in Instances, Match(j) PROVE j = i
          BY <2>2, <4>2 DEF Match, TypeOK
        <4> QED
          BY <2>2, <4>1, <4>2 DEF Next, vars, reading, Claim, Refused, Accept, Ask, RelayRead,
             RelaySend, RelayMark, RelayDry, MatchDry, Consume, ConsumeDry, WaitReadsPartition,
             RoundEnds, WaitReadsOutbox, Checkpoint, Settle
      <3>2. at'[i] = at[i] + 1 /\ at[i] \in Nat /\ at[i] < Len(inbound)
        BY <3>1 DEF Match, TypeOK
      <3>3. CASE k <= at[i]
        BY <1>3, <3>2, <3>3
      <3>4. CASE k = at[i] + 1
        <4> DEFINE o == inbound[k]
        <4>1. o \in Orders /\ k \in 1 .. Len(inbound)
          BY <3>2, <3>4, ElementOfSeq
        <4>2. CASE o \in Seen(i)
          <5>1. PICK j \in from[i] + 1 .. at[i] : inbound[j] = o
            BY <4>2 DEF Seen
          <5>2. Answered(outcomes, o)
            BY <5>1, <3>2 DEF Matched, TypeOK
          <5> QED  BY <1>1, <4>1, <5>2
        <4>3. CASE o \notin Seen(i)
          <5> DEFINE p == PartOf[o]
          <5>1. p \in Partitions /\ outcomes[p] \in Seq(Orders) /\ <<o>> \in Seq(Orders)
            <6>1. p \in Partitions
              BY <4>1, PipelineAssumption DEF PipelineAssumption, Orders
            <6> QED  BY <4>1, <6>1 DEF TypeOK
          <5>2. outcomes'[p] = outcomes[p] \o <<o>>
            BY <3>1, <3>4, <4>3, <5>1 DEF Match, Answers, TypeOK
          <5>3. /\ Len(outcomes[p]) + 1 \in 1 .. Len(outcomes'[p])
                /\ outcomes'[p][Len(outcomes[p]) + 1] = o
            BY <5>1, <5>2
          <5>4. Answered(outcomes', o)
            BY <5>3 DEF Answered, Holds
          <5>5. inbound' = inbound
            BY <3>1 DEF Match
          <5> QED  BY <5>4, <5>5
        <4> QED  BY <4>2, <4>3
      <3> QED  BY <3>2, <3>3, <3>4
    <2> QED  BY <2>1, <2>2
  <1> QED  BY <1>5, <1>6 DEF Matched

-----------------------------------------------------------------------------
(* What a consumer or a durable offset has passed is settled. *)

LEMMA ConsumedKept == TypeOK /\ Consumed /\ [Next]_vars => Consumed'
  <1> SUFFICES ASSUME TypeOK, Consumed, [Next]_vars, NEW p \in Partitions
               PROVE  /\ \A k \in 1 .. next'[p] : outcomes'[p][k] \in settled'
                      /\ \A i \in Instances :
                           \A k \in 1 .. reader'[i][p] : outcomes'[p][k] \in settled'
    BY DEF Consumed
  <1> outcomes[p] \in Seq(Orders) /\ Len(outcomes[p]) \in Nat
    BY DEF TypeOK
  <1>1. ASSUME NEW k \in 1 .. Len(outcomes[p]), outcomes[p][k] \in settled
        PROVE  outcomes'[p][k] \in settled'
    BY <1>1, OutcomesGrow, SettledGrows
  <1>2. ASSUME NEW k \in 1 .. next[p] PROVE outcomes'[p][k] \in settled'
    BY <1>1 DEF Consumed, TypeOK
  <1>3. ASSUME NEW i \in Instances, NEW k \in 1 .. reader[i][p]
        PROVE  outcomes'[p][k] \in settled'
    <2>1. reader[i][p] \in Nat /\ reader[i][p] <= Len(outcomes[p])
      BY DEF TypeOK
    <2> QED  BY <1>1, <2>1 DEF Consumed
  <1>4. CASE \E i \in Instances : Consume(i, p)
    <2>1. PICK i \in Instances : Consume(i, p)
      BY <1>4
    <2> DEFINE n == reader[i][p] + 1
    <2>2. reader[i][p] \in Nat /\ n \in 1 .. Len(outcomes[p])
      BY <2>1 DEF Consume, TypeOK
    <2>3. /\ outcomes' = outcomes /\ outcomes[p][n] \in settled'
          /\ next'[p] = n
          /\ reader'[i][p] = n
          /\ \A j \in Instances \ {i} : reader'[j][p] = reader[j][p]
      BY <2>1 DEF Consume, TypeOK
    <2>4. \A k \in 1 .. n : outcomes'[p][k] \in settled'
      BY <1>3, <2>2, <2>3
    <2> QED  BY <1>3, <2>3, <2>4
  <1>5. CASE ~\E i \in Instances : Consume(i, p)
    <2>1. next'[p] = next[p]
      <3>1. ASSUME NEW j \in Instances, NEW q \in Partitions, Consume(j, q)
            PROVE  next'[p] = next[p]
        BY <1>5, <3>1 DEF Consume, TypeOK
      <3>2. CASE ~\E j \in Instances : \E q \in Partitions : Consume(j, q)
        BY <3>2 DEF Next, vars, durable, Build, Claim, Refused, Accept, Ask, RelayRead,
           RelaySend, RelayMark, RelayDry, Match, MatchDry, ConsumeDry, WaitReadsPartition,
           RoundEnds, WaitReadsOutbox, Checkpoint, Settle, Leave, LoopsEnd, Crash
      <3> QED  BY <3>1, <3>2
    <2>2. ASSUME NEW i \in Instances PROVE reader'[i][p] \in {0, next[p], reader[i][p]}
      <3>1. ASSUME NEW j \in Instances, Build(j) \/ Leave(j) \/ LoopsEnd(j) \/ Crash(j)
            PROVE  reader'[i][p] \in {0, next[p], reader[i][p]}
        <4>1. reader' = [reader EXCEPT ![j] = next]
              \/ reader' = [reader EXCEPT ![j] = [q \in Partitions |-> 0]]
          BY <3>1 DEF Build, Leave, LoopsEnd, Crash, Gone
        <4>2. CASE j = i
          BY <4>1, <4>2 DEF TypeOK
        <4>3. CASE j # i
          BY <4>1, <4>3 DEF TypeOK
        <4> QED  BY <4>2, <4>3
      <3>2. ASSUME NEW j \in Instances, NEW q \in Partitions, Consume(j, q)
            PROVE  reader'[i][p] = reader[i][p]
        BY <1>5, <3>2 DEF Consume, TypeOK
      <3> QED
        BY <3>1, <3>2 DEF Next, vars, reading, Claim, Refused, Accept, Ask, RelayRead,
           RelaySend, RelayMark, RelayDry, Match, MatchDry, ConsumeDry, WaitReadsPartition,
           RoundEnds, WaitReadsOutbox, Checkpoint, Settle
    <2>3. ASSUME NEW i \in Instances, NEW k \in 1 .. reader'[i][p]
          PROVE  outcomes'[p][k] \in settled'
      BY <1>2, <1>3, <2>2
    <2> QED  BY <1>2, <2>1, <2>3
  <1> QED  BY <1>4, <1>5

-----------------------------------------------------------------------------
(* What a process knows of the orders it asks for. *)

LEMMA KnownKept == IInv /\ [Next]_vars => Known'
  <1> SUFFICES ASSUME IInv, [Next]_vars,
                      NEW i \in Instances, NEW o \in 1 .. asked'[i]
               PROVE  /\ stage'[i] \in {"match", "settle", "empty", "waited"}
                           => Holds(inbound', o)
                      /\ stage'[i] = "settle" /\ ~moved'[i]
                           => /\ Answered(outcomes', o)
                              /\ PartOf[o] \notin visit'[i] => o \in settled'
                      /\ stage'[i] \in {"drained", "reported"} => o \in settled'
    BY DEF Known
  <1> TypeOK /\ TypeOK'
    BY StepTypes DEF IInv
  <1>1. o \in Orders /\ asked'[i] \in Nat
    BY PipelineAssumption DEF PipelineAssumption, TypeOK, Orders
  <1>2. CASE UNCHANGED <<stage[i], moved[i], visit[i], asked[i]>>
    BY <1>1, <1>2, InLogStays, AnsweredStays, SettledGrows DEF IInv, Known
  <1>3. CASE asked'[i] = asked[i] /\ stage'[i] = "match" /\ stage[i] = "match"
    BY <1>3, InLogStays DEF IInv, Known
  <1>4. CASE stage'[i] \notin {"match", "settle", "empty", "waited", "drained", "reported"}
    BY <1>4
  <1>5. CASE RelayDry(i) \/ WaitReadsOutbox(i)
    <2>1. /\ asked'[i] \in 0 .. accepted
          /\ accepted \in Nat /\ Waiting = {} /\ inbound' = inbound
          /\ stage'[i] \in {"match", "empty"}
      BY <1>5 DEF RelayDry, WaitReadsOutbox, Going, durable, draining, TypeOK
    <2>2. o \in marked
      BY <2>1 DEF Waiting
    <2> QED  BY <2>1, <2>2 DEF IInv, Published
  <1>6. CASE Match(i)
    BY <1>2, <1>4, <1>6, InLogStays DEF Match, ThenSettle, Going, Loops, Runs, IInv, Known, TypeOK
  <1>7. CASE MatchDry(i)
    <2>1. /\ asked'[i] = asked[i] /\ outcomes' = outcomes /\ inbound' = inbound
          /\ stage[i] = "match" /\ stage'[i] = "settle" /\ visit'[i] = Partitions
          /\ at[i] = Len(inbound)
      BY <1>7 DEF MatchDry, ThenSettle, Going, Loops, durable, TypeOK
    <2>2. Holds(inbound, o)
      BY <2>1 DEF IInv, Known
    <2>3. Answered(outcomes, o)
      BY <2>1, <2>2 DEF IInv, Matched, Holds
    <2>4. PartOf[o] \in Partitions
      BY <1>1, PipelineAssumption DEF PipelineAssumption, Orders
    <2> QED  BY <2>1, <2>2, <2>3, <2>4
  <1>8. ASSUME NEW p \in Partitions, Consume(i, p)
        PROVE  /\ asked'[i] = asked[i] /\ stage'[i] = stage[i]
               /\ stage[i] = "loops" \/ (stage[i] = "settle" /\ moved'[i])
    BY <1>8 DEF Consume, Runs, Loops, TypeOK
  <1>9. CASE \E p \in Partitions : Consume(i, p)
    BY <1>8, <1>9, InLogStays DEF IInv, Known
  <1>10. ASSUME NEW p \in Partitions, ConsumeDry(i, p)
         PROVE  PartOf[o] \notin visit'[i] /\ ~moved[i] => o \in settled
    <2>1. /\ stage[i] = "settle" /\ asked'[i] = asked[i]
          /\ visit'[i] = visit[i] \ {p} /\ reader[i][p] = Len(outcomes[p])
      BY <1>10 DEF ConsumeDry, TypeOK
    <2>2. CASE PartOf[o] = p /\ ~moved[i]
      <3>1. Holds(outcomes[p], o)
        BY <2>1, <2>2 DEF IInv, Known, Answered
      <3> QED  BY <2>1, <3>1 DEF Holds, IInv, Consumed
    <2>3. CASE PartOf[o] # p
      BY <2>1, <2>3 DEF IInv, Known
    <2> QED  BY <2>2, <2>3
  <1>11. ASSUME NEW p \in Partitions, ConsumeDry(i, p)
         PROVE  /\ Holds(inbound', o)
                /\ ~moved'[i] => /\ Answered(outcomes', o)
                                 /\ PartOf[o] \notin visit'[i] => o \in settled'
                /\ stage'[i] = "settle"
    <2>1. /\ stage[i] = "settle" /\ asked'[i] = asked[i] /\ moved'[i] = moved[i]
          /\ stage'[i] = "settle" /\ UNCHANGED durable
      BY <1>11 DEF ConsumeDry, TypeOK
    <2> QED  BY <1>10, <1>11, <2>1 DEF durable, IInv, Known
  <1>12. CASE RoundEnds(i)
    <2>1. /\ stage[i] = "settle" /\ visit[i] = {} /\ asked'[i] = asked[i]
          /\ stage'[i] = (IF ~moved[i] THEN "drained" ELSE "relay") /\ UNCHANGED durable
      BY <1>12 DEF RoundEnds, Quiet, Going, TypeOK
    <2> QED  BY <2>1 DEF durable, IInv, Known
  <1>13. ASSUME NEW p \in Partitions, WaitReadsPartition(i, p)
         PROVE  /\ stage'[i] \in {"polling", "empty", "waited"}
                /\ Holds(inbound', o)
    <2>1. stage[i] = "empty" /\ asked'[i] = asked[i] /\ inbound' = inbound
      BY <1>13 DEF WaitReadsPartition, durable
    <2>2. stage'[i] \in {"polling", "empty", "waited"}
      BY <1>13 DEF WaitReadsPartition, Going, TypeOK
    <2> QED  BY <2>1, <2>2 DEF IInv, Known
  <1>14. CASE Settle(i)
    <2>1. stage[i] = "drained" /\ stage'[i] = "reported" /\ asked' = asked /\ settled' = settled
      BY <1>14 DEF Settle, Going, draining, TypeOK
    <2> QED  BY <2>1 DEF IInv, Known
  <1>15. CASE Build(i) \/ Claim(i) \/ Refused(i) \/ Ask(i) \/ Leave(i) \/ LoopsEnd(i) \/ Crash(i)
    BY <1>4, <1>15 DEF Build, Claim, Refused, Ask, Leave, LoopsEnd, Crash, Gone, Going, TypeOK
  <1>16. CASE Accept \/ RelayRead(i) \/ RelaySend(i) \/ Checkpoint(i) \/ UNCHANGED vars
    BY <1>2, <1>16 DEF Accept, RelayRead, RelaySend, Checkpoint, draining, vars
  <1>17. CASE RelayMark(i)
    <2>1. stage'[i] \in {"relay", "loops"}
      BY <1>17 DEF RelayMark, Runs, Loops
    <2> QED  BY <1>4, <2>1
  <1>18. ASSUME NEW j \in Instances \ {i}
         PROVE  /\ (\/ Build(j) \/ Claim(j) \/ Refused(j) \/ Ask(j) \/ RelayDry(j)
                    \/ Match(j) \/ MatchDry(j) \/ RoundEnds(j) \/ WaitReadsOutbox(j)
                    \/ RelayRead(j) \/ RelaySend(j) \/ RelayMark(j))
                     => UNCHANGED <<stage[i], moved[i], visit[i], asked[i]>>
                /\ (\/ \E p \in Partitions :
                         Consume(j, p) \/ ConsumeDry(j, p) \/ WaitReadsPartition(j, p)
                    \/ Checkpoint(j) \/ Settle(j) \/ Leave(j) \/ LoopsEnd(j) \/ Crash(j))
                     => UNCHANGED <<stage[i], moved[i], visit[i], asked[i]>>
    <2> i # j
      OBVIOUS
    <2>1. (\/ Build(j) \/ Claim(j) \/ Refused(j) \/ Ask(j) \/ RelayDry(j)
           \/ RelayRead(j) \/ RelaySend(j) \/ RelayMark(j))
            => UNCHANGED <<stage[i], moved[i], visit[i], asked[i]>>
      BY DEF Build, Claim, Refused, Ask, RelayDry, RelayRead, RelaySend, RelayMark, Going,
         draining, TypeOK
    <2>2. Match(j) \/ MatchDry(j) \/ RoundEnds(j) \/ WaitReadsOutbox(j)
            => UNCHANGED <<stage[i], moved[i], visit[i], asked[i]>>
      BY DEF Match, MatchDry, ThenSettle, RoundEnds, WaitReadsOutbox, Going, TypeOK
    <2>3. ASSUME NEW p \in Partitions,
                 Consume(j, p) \/ ConsumeDry(j, p) \/ WaitReadsPartition(j, p)
          PROVE  UNCHANGED <<stage[i], moved[i], visit[i], asked[i]>>
      BY <2>3 DEF Consume, ConsumeDry, WaitReadsPartition, Going, TypeOK
    <2>4. Checkpoint(j) \/ Settle(j) \/ Leave(j) \/ LoopsEnd(j) \/ Crash(j)
            => UNCHANGED <<stage[i], moved[i], visit[i], asked[i]>>
      BY DEF Checkpoint, Settle, Leave, LoopsEnd, Crash, Gone, Going, draining, TypeOK
    <2> QED  BY <2>1, <2>2, <2>3, <2>4
  <1>19. ASSUME NEW p \in Partitions, Consume(i, p) \/ ConsumeDry(i, p) \/ WaitReadsPartition(i, p)
         PROVE  /\ stage'[i] \in {"match", "settle", "empty", "waited"} => Holds(inbound', o)
                /\ stage'[i] = "settle" /\ ~moved'[i]
                     => /\ Answered(outcomes', o)
                        /\ PartOf[o] \notin visit'[i] => o \in settled'
                /\ stage'[i] \in {"drained", "reported"} => o \in settled'
    BY <1>9, <1>11, <1>13, <1>19
  <1>20. CASE \E j \in Instances \ {i} :
                \/ Build(j) \/ Claim(j) \/ Refused(j) \/ Ask(j)
                \/ RelayRead(j) \/ RelaySend(j) \/ RelayMark(j) \/ RelayDry(j)
                \/ Match(j) \/ MatchDry(j)
                \/ \E p \in Partitions : Consume(j, p) \/ ConsumeDry(j, p) \/ WaitReadsPartition(j, p)
                \/ RoundEnds(j) \/ WaitReadsOutbox(j) \/ Checkpoint(j) \/ Settle(j)
                \/ Leave(j) \/ LoopsEnd(j) \/ Crash(j)
    BY <1>2, <1>18, <1>20
  <1>21. CASE Next /\ ~(\E j \in Instances \ {i} :
                \/ Build(j) \/ Claim(j) \/ Refused(j) \/ Ask(j)
                \/ RelayRead(j) \/ RelaySend(j) \/ RelayMark(j) \/ RelayDry(j)
                \/ Match(j) \/ MatchDry(j)
                \/ \E p \in Partitions : Consume(j, p) \/ ConsumeDry(j, p) \/ WaitReadsPartition(j, p)
                \/ RoundEnds(j) \/ WaitReadsOutbox(j) \/ Checkpoint(j) \/ Settle(j)
                \/ Leave(j) \/ LoopsEnd(j) \/ Crash(j))
    BY <1>5, <1>6, <1>7, <1>12, <1>14, <1>15, <1>16, <1>17, <1>19, <1>21 DEF Next
  <1> QED  BY <1>16, <1>20, <1>21

-----------------------------------------------------------------------------
(* The theorems. *)

LEMMA InitIInv == Init => IInv
  BY InitTypes, PipelineAssumption
  DEF PipelineAssumption, Init, IInv, Published, Carried, Matched, Consumed, Known

LEMMA StepIInv == IInv /\ [Next]_vars => IInv'
  BY StepTypes, PublishedKept, CarriedKept, MatchedKept, ConsumedKept, KnownKept DEF IInv

\* An order that is not in the outbox any more is in the log; behind the
\* snapshot it is answered, and behind the durable offset its answer is settled.
LEMMA IInvLosesNothing == IInv => NothingLost
  <1> SUFFICES ASSUME IInv, NEW o \in 1 .. accepted, o \in marked,
                      ~\E k \in saved + 1 .. Len(inbound) : inbound[k] = o
               PROVE  \/ \E k \in next[PartOf[o]] + 1 .. Len(outcomes[PartOf[o]]) :
                           outcomes[PartOf[o]][k] = o
                      \/ o \in settled
    BY DEF NothingLost
  <1> DEFINE p == PartOf[o]
  <1>1. p \in Partitions
    BY PipelineAssumption DEF PipelineAssumption, IInv, TypeOK
  <1>2. PICK k \in 1 .. Len(inbound) : inbound[k] = o
    BY DEF IInv, Published, Holds
  <1>3. k \in 1 .. saved
    BY <1>2 DEF IInv, TypeOK
  <1>4. PICK m \in 1 .. Len(outcomes[p]) : outcomes[p][m] = o
    BY <1>2, <1>3 DEF IInv, Matched, Answered, Holds
  <1>5. next[p] \in Nat /\ Len(outcomes[p]) \in Nat
    BY <1>1 DEF IInv, TypeOK
  <1>6. CASE m \in 1 .. next[p]
    BY <1>1, <1>4, <1>6 DEF IInv, Consumed
  <1>7. CASE m \in next[p] + 1 .. Len(outcomes[p])
    BY <1>4, <1>7
  <1> QED  BY <1>4, <1>5, <1>6, <1>7

LEMMA IInvReports == IInv => ReportsHold
  <1> SUFFICES ASSUME IInv, NEW i \in Instances, NEW o \in 1 .. asked[i]
               PROVE  /\ stage[i] \in {"drained", "reported"} => o \in settled
                      /\ stage[i] = "waited" => o \in Range(inbound)
    BY DEF ReportsHold
  <1>1. inbound \in Seq(Orders)
    BY DEF IInv, TypeOK
  <1>2. Holds(inbound, o) => o \in Range(inbound)
    BY <1>1 DEF Holds, Range
  <1> QED  BY <1>2 DEF IInv, Known

LEMMA Inductive == Spec => []IInv
  BY InitIInv, StepIInv, PTL DEF Spec

\* Whatever becomes of the processes, an accepted order can be found again.
THEOREM NoOrderLost == Spec => []NothingLost
  BY Inductive, IInvLosesNothing, PTL

\* What Drain and the wait for the primary report is so.
THEOREM DrainTellsTheTruth == Spec => []ReportsHold
  BY Inductive, IInvReports, PTL
=============================================================================

---------------------------- MODULE Leases_proofs ----------------------------
(***************************************************************************)
(* What the two leases guarantee, for any number of writers and instances  *)
(* and any time to live.                                                   *)
(***************************************************************************)
EXTENDS Leases, TLAPS

USE LeaseAssumption

\* What a primary knows of its lease is what the row says, as long as it has
\* not expired: nobody takes a row that is still held.
KnowsItsRow ==
    \A i \in Instances :
      role[i] = "primary" /\ own[i] >= 0 => [owner |-> i, left |-> own[i]] \in svcRow

IInv == TypeOK /\ TxUnderCurrentEpoch /\ KnowsItsRow

-----------------------------------------------------------------------------
(* The partition lease. *)

\* Acquire makes a one-row table, with an epoch that is a positive number.
LEMMA AcquireEffect ==
    ASSUME TypeOK, NEW w \in Writers, Acquire(w)
    PROVE  TypeOK' /\ TxUnderCurrentEpoch'
  <1> DEFINE row == CHOOSE r \in partRow : TRUE
             epoch == IF partRow = {} THEN 1 ELSE 1 + row.epoch
  <1>1. epoch \in Nat \ {0}
    <2>1. CASE partRow = {}
      BY <2>1
    <2>2. CASE partRow # {}
      <3>1. row \in [owner : Writers, epoch : Nat \ {0}]
        BY <2>2 DEF TypeOK
      <3> QED BY <2>2, <3>1
    <2> QED BY <2>1, <2>2
  <1>2. /\ partRow' = {[owner |-> w, epoch |-> epoch]}
        /\ claim' = [claim EXCEPT ![w] = epoch]
        /\ inTx' = {} /\ UNCHANGED svcVars
    BY DEF Acquire, Unlocked
  <1> HIDE DEF epoch
  <1>3. TypeOK'
    BY <1>1, <1>2 DEF TypeOK, svcVars
  <1> QED BY <1>2, <1>3 DEF TxUnderCurrentEpoch

\* Whatever a writer does, an open transaction stays under its epoch.
LEMMA WriterStep ==
    ASSUME IInv, NEW w \in Writers,
           Acquire(w) \/ Release(w) \/ BeginTx(w) \/ EndTx(w)
    PROVE  IInv'
  <1>1. UNCHANGED svcVars
    BY DEF Acquire, Release, BeginTx, EndTx
  <1>2. KnowsItsRow'
    BY <1>1 DEF IInv, KnowsItsRow, svcVars
  <1>3. TypeOK' /\ TxUnderCurrentEpoch'
    <2>1. CASE Acquire(w)
      BY <2>1, AcquireEffect DEF IInv
    <2>2. CASE Release(w)
      BY <2>2 DEF IInv, TypeOK, TxUnderCurrentEpoch, Release, Unlocked, svcVars
    <2>3. CASE BeginTx(w)
      BY <2>3 DEF IInv, TypeOK, TxUnderCurrentEpoch, BeginTx, svcVars
    <2>4. CASE EndTx(w)
      BY <2>4 DEF IInv, TypeOK, TxUnderCurrentEpoch, EndTx, svcVars
    <2> QED BY <2>1, <2>2, <2>3, <2>4
  <1> QED BY <1>2, <1>3 DEF IInv

-----------------------------------------------------------------------------
(* The service lease. *)

\* A countdown stays in range, and one that has not run out has not before.
LEMMA ElapsedType ==
    ASSUME NEW left \in Left
    PROVE  /\ Elapsed(left) \in Left
           /\ Elapsed(left) >= 0 => left >= 0
  BY DEF Elapsed, Left

LEMMA TickStep ==
    ASSUME IInv, Tick
    PROVE  IInv'
  <1>1. /\ partRow' = partRow /\ claim' = claim /\ inTx' = inTx
        /\ role' = role /\ driving' = driving
    BY DEF Tick, partVars
  <1>2. svcRow' = {[r EXCEPT !.left = Elapsed(@)] : r \in svcRow}
    BY DEF Tick
  <1>3. own' = [i \in Instances |-> Elapsed(own[i])]
    BY DEF Tick
  <1>4. svcRow' \subseteq [owner : Instances, left : Left]
    BY <1>2, ElapsedType DEF IInv, TypeOK
  <1>5. \A r, s \in svcRow' : r = s
    BY <1>2 DEF IInv, TypeOK
  <1>6. own' \in [Instances -> Left]
    BY <1>3, ElapsedType DEF IInv, TypeOK
  <1>7. TypeOK'
    BY <1>1, <1>4, <1>5, <1>6 DEF IInv, TypeOK
  <1>8. TxUnderCurrentEpoch'
    BY <1>1 DEF IInv, TxUnderCurrentEpoch
  <1>9. ASSUME NEW i \in Instances, role'[i] = "primary", own'[i] >= 0
        PROVE  [owner |-> i, left |-> own'[i]] \in svcRow'
    <2>1. own'[i] = Elapsed(own[i]) /\ own[i] \in Left
      BY <1>3 DEF IInv, TypeOK
    <2>2. [owner |-> i, left |-> own[i]] \in svcRow
      BY <1>1, <1>9, <2>1, ElapsedType DEF IInv, KnowsItsRow
    <2> QED BY <1>2, <2>1, <2>2
  <1> QED BY <1>7, <1>8, <1>9 DEF IInv, KnowsItsRow

\* Taking a free lease, or renewing one's own, leaves no other timely holder.
LEMMA TakeStep ==
    ASSUME IInv, NEW i \in Instances, AcquireService(i) \/ Renew(i)
    PROVE  IInv'
  <1>1. /\ UNCHANGED partVars
        /\ svcRow' = {[owner |-> i, left |-> Ttl]}
        /\ own' = [own EXCEPT ![i] = Ttl]
    BY DEF AcquireService, Renew
  <1>2. /\ role' \in [Instances -> Roles] /\ driving' \subseteq Instances
        /\ \A j \in Instances : j # i => role'[j] = role[j]
    BY DEF AcquireService, Renew, IInv, TypeOK, Roles
  <1>a. Ttl \in Left
    BY DEF Left
  <1>b. own' \in [Instances -> Left]
    BY <1>1, <1>a DEF IInv, TypeOK
  <1>c. svcRow' \subseteq [owner : Instances, left : Left] /\ \A r, s \in svcRow' : r = s
    BY <1>1, <1>a
  <1>3. TypeOK'
    BY <1>1, <1>2, <1>b, <1>c DEF IInv, TypeOK, partVars
  <1>4. TxUnderCurrentEpoch'
    BY <1>1 DEF IInv, TxUnderCurrentEpoch, partVars
  <1>5. ASSUME NEW j \in Instances, role'[j] = "primary", own'[j] >= 0
        PROVE  [owner |-> j, left |-> own'[j]] \in svcRow'
    <2>1. CASE j = i
      BY <1>1, <2>1 DEF IInv, TypeOK
    <2>2. CASE j # i
      <3>1. [owner |-> j, left |-> own[j]] \in svcRow /\ own[j] >= 0
        BY <1>1, <1>2, <1>5, <2>2 DEF IInv, TypeOK, KnowsItsRow
      <3>2. CASE AcquireService(i)
        BY <3>1, <3>2 DEF AcquireService, Free, IInv, TypeOK, Left
      <3>3. CASE Renew(i)
        BY <2>2, <3>1, <3>3 DEF Renew, IInv, TypeOK
      <3> QED BY <3>2, <3>3
    <2> QED BY <2>1, <2>2
  <1> QED BY <1>3, <1>4, <1>5 DEF IInv, KnowsItsRow

\* An instance that leaves its role gives up its own row at most.
LEMMA LeaveStep ==
    ASSUME IInv, NEW i \in Instances,
           RenewLost(i) \/ Cancel(i) \/ LoopsEnd(i) \/ Close(i) \/ Crash(i)
    PROVE  IInv'
  <1>1. /\ UNCHANGED partVars /\ own' = own
        /\ svcRow' \in {svcRow, {r \in svcRow : r.owner # i}}
        /\ driving' \subseteq driving
    BY DEF RenewLost, Cancel, LoopsEnd, Close, Crash
  <1>2. /\ role' \in [Instances -> Roles]
        /\ \A j \in Instances : role'[j] = "primary" =>
             role[j] = "primary" /\ (j = i => svcRow' = svcRow)
    BY DEF RenewLost, Cancel, LoopsEnd, Close, Crash, IInv, TypeOK, Roles
  <1>3. TypeOK'
    BY <1>1, <1>2 DEF IInv, TypeOK, partVars
  <1>4. TxUnderCurrentEpoch'
    BY <1>1 DEF IInv, TxUnderCurrentEpoch, partVars
  <1>5. KnowsItsRow'
    BY <1>1, <1>2 DEF IInv, KnowsItsRow
  <1> QED BY <1>3, <1>4, <1>5 DEF IInv

-----------------------------------------------------------------------------
LEMMA Start == Init => IInv
  BY DEF Init, IInv, TypeOK, TxUnderCurrentEpoch, KnowsItsRow, Left, Roles

LEMMA Step == IInv /\ [Next]_vars => IInv'
  <1> SUFFICES ASSUME IInv, [Next]_vars PROVE IInv'
    OBVIOUS
  <1>1. ASSUME NEW w \in Writers, Acquire(w) \/ Release(w) \/ BeginTx(w) \/ EndTx(w)
        PROVE  IInv'
    BY <1>1, WriterStep
  <1>2. CASE Tick
    BY <1>2, TickStep
  <1>3. ASSUME NEW i \in Instances, AcquireService(i) \/ Renew(i)
        PROVE  IInv'
    BY <1>3, TakeStep
  <1>4. ASSUME NEW i \in Instances,
               RenewLost(i) \/ Cancel(i) \/ LoopsEnd(i) \/ Close(i) \/ Crash(i)
        PROVE  IInv'
    BY <1>4, LeaveStep
  <1>5. CASE UNCHANGED vars
    BY <1>5 DEF vars, partVars, svcVars, IInv, TypeOK, TxUnderCurrentEpoch, KnowsItsRow
  <1> QED BY <1>1, <1>2, <1>3, <1>4, <1>5 DEF Next

\* The inductive invariant holds in every state of the lease protocol.
THEOREM Inductive == Spec => []IInv
  BY Start, Step, PTL DEF Spec

\* Every variable of the lease protocol (lease.go) keeps its kind, and each
\* lease table has one row.
THEOREM LeaseTypes == Spec => []TypeOK
  <1>1. IInv => TypeOK
    BY DEF IInv
  <1> QED BY <1>1, Inductive, PTL

\* A transaction that asserted its epoch (lease.go, assert) commits under it:
\* for any number of writers, no takeover or release slips in.
THEOREM FencedTransactions == Spec => []TxUnderCurrentEpoch
  <1>1. IInv => TxUnderCurrentEpoch
    BY DEF IInv
  <1> QED BY <1>1, Inductive, PTL

\* Two instances never both hold a service lease (AcquireService, Renew) that
\* they know not to have expired, for any number of instances and any time to
\* live.
THEOREM TimelyHoldersAgree == Spec => []OneTimelyHolder
  <1>1. IInv => OneTimelyHolder
    BY DEF IInv, TypeOK, KnowsItsRow, OneTimelyHolder
  <1> QED BY <1>1, Inductive, PTL
=============================================================================

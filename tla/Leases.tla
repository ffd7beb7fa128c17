------------------------------- MODULE Leases -------------------------------
(***************************************************************************)
(* The two leases of internal/engine/lease.go and what is done under them. *)
(*                                                                         *)
(* A partition lease is stolen: whoever asks gets it, and a writer asserts *)
(* its epoch inside each transaction.  Its expiry is recorded and never    *)
(* consulted, so time does not appear.  A writer here is one claim, with   *)
(* the owner id made for it; a process that acquires twice is two writers. *)
(*                                                                         *)
(* The service lease is refused while it has not expired, and decides who  *)
(* runs the loops of the pipeline (internal/pipeline/pipeline.go).  Time   *)
(* is what is left until a deadline, down to -1, when it has passed.       *)
(***************************************************************************)
EXTENDS Integers, FiniteSets

CONSTANTS Writers,     \* claims on one partition
          Instances,   \* processes that can drive the pipeline
          Ttl          \* ticks a service lease lasts

ASSUME LeaseAssumption == Ttl \in Nat \ {0} /\ IsFiniteSet(Writers) /\ IsFiniteSet(Instances)

VARIABLES partRow,   \* the partition_leases row, or nothing
          claim,     \* the epoch each writer believes in, 0 before it acquires
          inTx,      \* writers whose open transaction has asserted its epoch
          svcRow,    \* the service_leases row, or nothing
          own,       \* what each instance knows is left of its lease
          role,
          driving    \* instances whose loops run

partVars == <<partRow, claim, inTx>>
svcVars  == <<svcRow, own, role, driving>>
vars     == <<partVars, svcVars>>

-----------------------------------------------------------------------------
(* The partition lease. *)

\* A mutant: the assertion reads the row without locking it.
UnlockedAlways == TRUE

\* An asserted transaction holds the row FOR SHARE: whoever wants to change
\* the row waits for it.
Unlocked == inTx = {}

Acquire(w) ==
    /\ claim[w] = 0
    /\ Unlocked
    /\ LET epoch == IF partRow = {} THEN 1 ELSE 1 + (CHOOSE r \in partRow : TRUE).epoch
       IN /\ partRow' = {[owner |-> w, epoch |-> epoch]}
          /\ claim' = [claim EXCEPT ![w] = epoch]
    /\ UNCHANGED <<inTx, svcVars>>

Release(w) ==
    /\ [owner |-> w, epoch |-> claim[w]] \in partRow
    /\ Unlocked
    /\ partRow' = {}
    /\ UNCHANGED <<claim, inTx, svcVars>>

\* Only the epoch is compared, and a writer that lost its claim may still try.
BeginTx(w) ==
    /\ w \notin inTx
    /\ \E r \in partRow : r.epoch = claim[w]
    /\ inTx' = inTx \cup {w}
    /\ UNCHANGED <<partRow, claim, svcVars>>

EndTx(w) ==
    /\ w \in inTx
    /\ inTx' = inTx \ {w}
    /\ UNCHANGED <<partRow, claim, svcVars>>

-----------------------------------------------------------------------------
(* The service lease. *)

Elapsed(left) == IF left < 0 THEN left ELSE left - 1

Tick ==
    /\ svcRow' = {[r EXCEPT !.left = Elapsed(@)] : r \in svcRow}
    /\ own' = [i \in Instances |-> Elapsed(own[i])]
    /\ UNCHANGED <<partVars, role, driving>>

\* A mutant: the lease is taken at its deadline, not after it.
FreeAtDeadline == \A r \in svcRow : r.left <= 0

\* A mutant: only a released lease is taken.
FreeIfReleased == svcRow = {}

\* expires_at < now(), or there is no row.
Free == \A r \in svcRow : r.left < 0

\* At start, or at a standby's poll: the loops start with the lease.
AcquireService(i) ==
    /\ role[i] = "standby"
    /\ Free
    /\ svcRow' = {[owner |-> i, left |-> Ttl]}
    /\ own' = [own EXCEPT ![i] = Ttl]
    /\ role' = [role EXCEPT ![i] = "primary"]
    /\ driving' = driving \cup {i}
    /\ UNCHANGED partVars

\* A renewal in time, or late but before anybody else took the lease.
Renew(i) ==
    /\ role[i] = "primary"
    /\ \E r \in svcRow : r.owner = i
    /\ svcRow' = {[owner |-> i, left |-> Ttl]}
    /\ own' = [own EXCEPT ![i] = Ttl]
    /\ UNCHANGED <<partVars, role, driving>>

\* The renewer finds the lease taken, reports it and returns.  The report is
\* written to stderr; nothing stops the loops.
RenewLost(i) ==
    /\ role[i] = "primary"
    /\ \A r \in svcRow : r.owner # i
    /\ role' = [role EXCEPT ![i] = "lost"]
    /\ UNCHANGED <<partVars, svcRow, own, driving>>

Cancel(i) ==
    /\ role[i] \in {"standby", "primary", "lost"}
    /\ role' = [role EXCEPT ![i] = "closing"]
    /\ UNCHANGED <<partVars, svcRow, own, driving>>

\* The loops end when they notice, and Close does not wait for them.
LoopsEnd(i) ==
    /\ i \in driving
    /\ role[i] \in {"closing", "gone"}
    /\ driving' = driving \ {i}
    /\ UNCHANGED <<partVars, svcRow, own, role>>

Close(i) ==
    /\ role[i] = "closing"
    /\ role' = [role EXCEPT ![i] = "gone"]
    /\ svcRow' = {r \in svcRow : r.owner # i}
    /\ UNCHANGED <<partVars, own, driving>>

Crash(i) ==
    /\ role[i] # "gone"
    /\ role' = [role EXCEPT ![i] = "gone"]
    /\ driving' = driving \ {i}
    /\ UNCHANGED <<partVars, svcRow, own>>

-----------------------------------------------------------------------------
Init ==
    /\ partRow = {} /\ claim = [w \in Writers |-> 0] /\ inTx = {}
    /\ svcRow = {} /\ own = [i \in Instances |-> -1]
    /\ role = [i \in Instances |-> "standby"] /\ driving = {}

Next ==
    \/ \E w \in Writers : Acquire(w) \/ Release(w) \/ BeginTx(w) \/ EndTx(w)
    \/ Tick
    \/ \E i \in Instances : \/ AcquireService(i) \/ Renew(i) \/ RenewLost(i)
                            \/ Cancel(i) \/ LoopsEnd(i) \/ Close(i) \/ Crash(i)

Spec == Init /\ [][Next]_vars

\* Time passes, and a standby polls for as long as it runs.
Fairness == WF_vars(Tick) /\ \A i \in Instances : WF_vars(AcquireService(i))

FairSpec == Spec /\ Fairness

-----------------------------------------------------------------------------
(* What must hold. *)

Roles == {"standby", "primary", "lost", "closing", "gone"}
Left  == -1 .. Ttl

\* Every variable holds a value of its kind, and each table has one row.
TypeOK ==
    /\ partRow \subseteq [owner : Writers, epoch : Nat \ {0}] /\ \A r, s \in partRow : r = s
    /\ claim \in [Writers -> Nat]
    /\ inTx \subseteq Writers
    /\ svcRow \subseteq [owner : Instances, left : Left] /\ \A r, s \in svcRow : r = s
    /\ own \in [Instances -> Left]
    /\ role \in [Instances -> Roles]
    /\ driving \subseteq Instances

\* A transaction that passed the assertion ends under the epoch it asserted:
\* no takeover and no release slips in before it commits.
TxUnderCurrentEpoch ==
    \A w \in inTx : \E r \in partRow : r.epoch = claim[w]

\* Two instances never both hold a service lease they renewed in time.
OneTimelyHolder ==
    \A i, j \in Instances :
      role[i] = "primary" /\ own[i] >= 0 /\ role[j] = "primary" /\ own[j] >= 0 => i = j

\* A standby that keeps running takes over when nobody drives the pipeline.
StandbyTakesOver ==
    \A i \in Instances : role[i] = "standby" ~> driving # {} \/ role[i] # "standby"
=============================================================================

------------------------------ MODULE Ingester ------------------------------
(***************************************************************************)
(* The analytics ingester (internal/analytics/ingester.go): a copy of the  *)
(* outcomes in two tables of another database, written in batches by one   *)
(* goroutine that keeps its position, and what it has not written, in      *)
(* memory.                                                                 *)
(*                                                                         *)
(* The tables collapse rows with the same sort key.  For the rows of one   *)
(* record only the time differs, so a table is a set, and a record counts  *)
(* as often as it is there with different times.                           *)
(***************************************************************************)
EXTENDS OutcomeLog

CONSTANTS BatchSize,
          MaxTime,      \* bound on time
          MaxFailures,  \* bound on failed writes
          MaxLives      \* bound on starts

ASSUME IngesterAssumption == BatchSize \in Nat \ {0}

VARIABLES
    step,      \* "down", "pumping", or which table is written: "FILL", "ORDER"
    ending,    \* whether the context is cancelled: this flush is the last
    offset,    \* where the readers stand
    buffer,    \* rows not known to be written
    table,     \* rows written, of both tables
    now,
    failures,
    life,
    lost       \* history: wanted records read and thrown away in this life

ingesterVars == <<step, ending, offset, buffer, table, now, failures, life, lost>>

Row(p, k) == [part |-> p, at |-> k, kind |-> log[p][k].kind, ts |-> now, life |-> life]

\* One fetch.  What follows a record that cannot be decoded is dropped with it:
\* the reader is past the whole fetch, and the pass ends there.
Fetch(p) ==
    /\ step = "pumping" /\ ~ending
    /\ offset[p] < Len(log[p])
    /\ LET upTo == IF offset[p] + BatchSize < Len(log[p]) THEN offset[p] + BatchSize
                                                          ELSE Len(log[p])
           mine == {k \in offset[p] + 1 .. upTo : Wanted(log[p][k])}
           read == {k \in mine : \A j \in offset[p] + 1 .. k : Readable(log[p][j])}
       IN  /\ offset' = [offset EXCEPT ![p] = upTo]
           /\ buffer' = buffer \cup {Row(p, k) : k \in read}
           /\ lost' = lost \cup {<<p, k>> : k \in mine \ read}
    /\ UNCHANGED <<step, ending, table, now, failures, life>>

\* A mutant: the interval is forgotten.
DueBySize == Cardinality(buffer) >= BatchSize

\* By size or by time; the time a row may wait is left open.
FlushDue == buffer # {}

FlushBegins ==
    /\ step = "pumping" /\ FlushDue
    /\ step' = "FILL"
    /\ UNCHANGED <<ending, offset, buffer, table, now, failures, life, lost>>

Of(kind) == {r \in buffer : r.kind = kind}

\* A mutant: a row is stamped when it is written.
WrittenNow(rows) == {[r EXCEPT !.ts = now] : r \in rows}

Written(rows) == rows

\* The fills first, then the rest; only when both are there is the buffer let go.
Write(kind) ==
    /\ step = kind
    /\ table' = table \cup Written(Of(kind))
    /\ IF kind = "FILL"
       THEN step' = "ORDER" /\ buffer' = buffer
       ELSE step' = (IF ending THEN "down" ELSE "pumping") /\ buffer' = {}
    /\ UNCHANGED <<ending, offset, now, failures, life, lost>>

\* A mutant: what failed is not tried again.
KeptWithout(kind) == buffer \ Of(kind)

Kept(kind) == buffer

\* The rows may be there in spite of the error.  The whole batch is tried again,
\* unless this was the last time.
WriteFails(kind) ==
    /\ step = kind /\ Of(kind) # {}
    /\ failures < MaxFailures
    /\ failures' = failures + 1
    /\ \E landed \in {{}, Written(Of(kind))} : table' = table \cup landed
    /\ step' = (IF ending THEN "down" ELSE "pumping")
    /\ buffer' = Kept(kind)
    /\ UNCHANGED <<ending, offset, now, life, lost>>

\* Run ends with a flush.
Cancel ==
    /\ step = "pumping" /\ ~ending
    /\ ending' = TRUE
    /\ step' = IF buffer = {} THEN "down" ELSE "FILL"
    /\ UNCHANGED <<offset, buffer, table, now, failures, life, lost>>

Die ==
    /\ step # "down"
    /\ step' = "down"
    /\ UNCHANGED <<ending, offset, buffer, table, now, failures, life, lost>>

\* Recover, at the oldest record again.
Restart ==
    /\ step = "down" /\ life < MaxLives
    /\ step' = "pumping" /\ ending' = FALSE
    /\ life' = life + 1
    /\ offset' = [p \in Partitions |-> 0]
    /\ buffer' = {} /\ lost' = {}
    /\ UNCHANGED <<table, now, failures>>

Tick ==
    /\ now < MaxTime
    /\ now' = now + 1
    /\ UNCHANGED <<step, ending, offset, buffer, table, failures, life, lost>>

IngesterInit ==
    /\ step = "down" /\ ending = FALSE
    /\ offset = [p \in Partitions |-> 0]
    /\ buffer = {} /\ table = {} /\ lost = {}
    /\ now = 0 /\ failures = 0 /\ life = 0

IngesterNext ==
    \/ \E p \in Partitions : Fetch(p)
    \/ \E kind \in {"FILL", "ORDER"} : Write(kind) \/ WriteFails(kind)
    \/ FlushBegins \/ Cancel \/ Die \/ Restart \/ Tick

\* Beside a log that goes on growing.
IngesterSpec ==
    /\ LogInit /\ IngesterInit
    /\ [][\/ (\E p \in Partitions : Publish(p)) /\ UNCHANGED ingesterVars
          \/ IngesterNext /\ UNCHANGED log]_<<log, ingesterVars>>

-----------------------------------------------------------------------------
(* What must hold. *)

InTable(p, k)  == \E r \in table : r.part = p /\ r.at = k
InBuffer(p, k) == \E r \in buffer : r.part = p /\ r.at = k

\* Retries and half-failed flushes do not count a record twice.  Restarts do:
\* each life has stamps of its own.
CountedOnce ==
    \A r, s \in table :
      r.part = s.part /\ r.at = s.at /\ r.life = s.life => r.ts = s.ts

\* What was read is written, or waits for it, as long as the process lives.
NoRowForgotten ==
    step # "down" =>
      \A p \in Partitions : \A k \in 1 .. offset[p] :
        Wanted(log[p][k]) => <<p, k>> \in lost \/ InBuffer(p, k) \/ InTable(p, k)

\* An ingester that goes on running records all it can read.
EverythingRecorded ==
    <>[](\/ step = "down"
         \/ \A p \in Partitions : \A k \in 1 .. Len(log[p]) :
              Wanted(log[p][k]) => <<p, k>> \in lost \/ InTable(p, k))
=============================================================================

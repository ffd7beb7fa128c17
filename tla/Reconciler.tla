----------------------------- MODULE Reconciler -----------------------------
(***************************************************************************)
(* The checks that watch the ledgers: the verification block of one        *)
(* partition (invariants.go CheckInvariants) and the cluster's, which the  *)
(* reconciler adds up from one partition's database after another while    *)
(* fills go on settling (cluster.go Reconcile).  Each query sees one       *)
(* moment; those of one partition are taken at the same moment here, since *)
(* no two of them are compared.                                            *)
(***************************************************************************)
EXTENDS Ledger

CONSTANT Visits   \* the order the reconciler visits the partitions in

ASSUME VisitsAssumption ==
    /\ Visits \in Seq(Partitions) /\ Range(Visits) = Partitions
    /\ \A i, j \in DOMAIN Visits : Visits[i] = Visits[j] => i = j

VARIABLES old,    \* how many halves settled longer ago than the settle window
          recon   \* what the reconciler has added up so far

vars == <<accountVars, snapshotVars, audits, old, recon>>

(***************************************************************************)
(* One partition.                                                          *)
(***************************************************************************)
AccountsIn(p) == {a \in Accounts : PartOf[a] = p}
Rows(p)       == UNION {{a} \X DOMAIN txns[a] : a \in AccountsIn(p)}
HalfOf(r)     == txns[r[1]][r[2]].half
LegOf(r, kind) == txns[r[1]][r[2]].legs[kind]

SumOf(rows, kinds) ==
    SumOver([r \in rows |-> SumOver([k \in kinds |-> LegOf(r, k)], kinds)], rows)

\* Mutant: whether the partition knows of the fill.
HalvesInOnce(p, f) ==
    IF \E r \in Rows(p) : HalfOf(r) # NoHalf /\ HalfOf(r)[1] = f THEN 1 ELSE 0

\* The rows of a fill, one for each half settled in the partition.
HalvesIn(p, f) == Cardinality({r \in Rows(p) : HalfOf(r) # NoHalf /\ HalfOf(r)[1] = f})

\* Mutant: half-settled fills are not left out.
SettledRowsAll(p) == Rows(p)

\* Rows that belong to no fill, or to one with both of its halves here.
SettledRows(p) == {r \in Rows(p) : HalfOf(r) = NoHalf \/ HalvesIn(p, HalfOf(r)[1]) = 2}

\* When the partition first heard of the fill, as an index of settled.
FirstIn(p, f) ==
    Min({i \in DOMAIN settled : settled[i][1] = f /\ PartOf[Owner(settled[i])] = p})

\* A half whose twin is in another partition counts like one whose twin is
\* missing: the query sees the transactions of one database.
OrphanedFillHalves(p) ==
    {f \in Fills : HalvesIn(p, f) \notin {0, 2} /\ FirstIn(p, f) <= old}

UnbalancedTxns(p) ==
    {r \in Rows(p) : SumOf({r}, MoneyKinds) # 0 \/ SumOf({r}, ShareKinds) # 0}

UnpairedClearingUnits(p) ==
    {k \in {"CLEARING", "SHARE_CLEARING"} : SumOf(SettledRows(p), {k}) # 0}

ShareConservation(p) ==
    SumOf(SettledRows(p), {"POSITION"}) + SumOf(Rows(p), {"SHARE_EXTERNAL"})

LedgerMismatch(p) ==
    {a \in AccountsIn(p) : \/ position[a].qty # Posted(a, "POSITION")
                           \/ balance[a].cash # Posted(a, "CASH")}

NegativeCashAccounts(p) == {a \in AccountsIn(p) : balance[a].cash < 0}

\* All but OverdrawnReservations, which is about TradingCore's state.
OtherChecksOK(p) ==
    /\ UnbalancedTxns(p) = {} /\ UnpairedClearingUnits(p) = {}
    /\ SumOf(Rows(p), MoneyKinds) = 0 /\ ShareConservation(p) = 0
    /\ LedgerMismatch(p) = {} /\ NegativeCashAccounts(p) = {}

LocalOK(p) == OrphanedFillHalves(p) = {} /\ OtherChecksOK(p)

(***************************************************************************)
(* The cluster.                                                            *)
(***************************************************************************)
Asleep == [visited |-> 0]

\* began is how many halves had settled by then; no code reads it.  The
\* bound leaves out the checkpointers, which a reconciliation never meets.
BeginReconcile ==
    /\ recon = Asleep
    /\ audits = 0
    /\ audits' = MaxAudits
    /\ recon' = [visited |-> 0, began |-> Len(settled), localOK |-> TRUE,
                 halves |-> [f \in Fills |-> 0], first |-> [f \in Fills |-> {}],
                 clearing |-> 0, shareClearing |-> 0, cash |-> 0, shares |-> 0]
    /\ UNCHANGED <<accountVars, snapshotVars, old>>

\* Mutant: the last partition's number instead of the sum.
PlusLast(total, n) == n

Plus(total, n) == total + n

ReconcileSlice ==
    /\ recon # Asleep
    /\ recon.visited < Len(Visits)
    /\ LET p == Visits[recon.visited + 1] IN
       recon' = [visited |-> recon.visited + 1, began |-> recon.began,
                 localOK |-> recon.localOK /\ LocalOK(p),
                 halves |-> [f \in Fills |-> Plus(recon.halves[f], HalvesIn(p, f))],
                 first |-> [f \in Fills |->
                              IF HalvesIn(p, f) = 0 THEN recon.first[f]
                              ELSE recon.first[f] \union {FirstIn(p, f)}],
                 clearing |-> Plus(recon.clearing, SumOf(Rows(p), {"CLEARING"})),
                 shareClearing |-> Plus(recon.shareClearing, SumOf(Rows(p), {"SHARE_CLEARING"})),
                 cash |-> Plus(recon.cash, SumOf(Rows(p), MoneyKinds)),
                 shares |-> Plus(recon.shares, SumOf(Rows(p), ShareKinds))]
    /\ UNCHANGED <<accountVars, snapshotVars, audits, old>>

\* What the report names: seen, not seen twice, and first seen long ago.
OrphanedFills ==
    {f \in Fills : recon.halves[f] \notin {0, 2} /\ Min(recon.first[f]) <= old}

SumsToZero == recon.clearing = 0 /\ recon.shareClearing = 0 /\ recon.cash = 0 /\ recon.shares = 0

GlobalOK == recon.localOK /\ OrphanedFills = {} /\ SumsToZero

Report ==
    /\ recon # Asleep
    /\ recon.visited = Len(Visits)
    /\ recon' = Asleep
    /\ UNCHANGED <<accountVars, snapshotVars, audits, old>>

\* The settle window passes for the oldest half that is still inside it.
WindowPasses ==
    /\ old < Len(settled)
    /\ old' = old + 1
    /\ UNCHANGED <<accountVars, snapshotVars, audits, recon>>

Init == LedgerInit /\ old = 0 /\ recon = Asleep

Next ==
    \/ LedgerNext /\ UNCHANGED <<old, recon>>
    \/ BeginReconcile \/ ReconcileSlice \/ Report
    \/ WindowPasses

Spec == Init /\ [][Next]_vars

(***************************************************************************)
(* Properties.                                                             *)
(***************************************************************************)
Both(f, n) == {<<f, r>> : r \in Roles} \subseteq Range(SubSeq(settled, 1, n))
HalfOpen(f) == ~Both(f, Len(settled)) /\ \E r \in Roles : Contains(settled, <<f, r>>)

\* The clearing accounts of the whole cluster hold exactly what the fills
\* with one half settled have open, in money and in shares: what remains of
\* a fill between its two transactions is named by it (halfFillLegs).
ClearingNamesOpenFills ==
    LET rows == UNION {Rows(p) : p \in Partitions}
        open == {r \in rows : HalfOf(r) # NoHalf /\ HalfOpen(HalfOf(r)[1])}
        sign(r) == IF Buys(HalfOf(r)) THEN 1 ELSE -1
    IN  /\ SumOf(rows, {"CLEARING"}) =
               SumOver([r \in open |-> sign(r) * NotionalOf(HalfOf(r))], open)
        /\ SumOf(rows, {"SHARE_CLEARING"}) =
               SumOver([r \in open |-> -sign(r) * fill[HalfOf(r)[1]].qty], open)

\* A partition's own verification block calls out a fill only if the fill
\* is really half settled or its other half belongs to another partition,
\* and never fails any other check, at any moment of the settlement
\* (CheckInvariants).
OnlyOpenOrCrossingFillsAlarm ==
    \A p \in Partitions :
        /\ OtherChecksOK(p)
        /\ \A f \in OrphanedFillHalves(p) :
               HalfOpen(f) \/ PartOf[fill[f].taker] # PartOf[fill[f].maker]

\* The report names the stuck fills and no sound one: a fill half settled and
\* past the settle window when the reconciler began, and still so when it
\* ends, is named ("In flight is normal; stuck is not"); a fill with both
\* halves settled before it began is not, though it reads the databases at
\* different times and the two halves may share one database (Reconcile).
ReportNamesTheStuck ==
    [][Report => \A f \in Fills :
          /\ Both(f, recon.began) => f \notin OrphanedFills
          /\ (/\ HalfOpen(f)
              /\ \E i \in 1 .. recon.began : settled[i][1] = f /\ i <= old)
             => f \in OrphanedFills]_vars

\* When every fill had settled before the reconciler began and none has
\* settled since, every sum over the cluster is zero and no fill is named;
\* if no fill crosses partitions the cluster is reported sound (OK).
QuietReconciles ==
    [][(Report /\ recon.began = Len(settled) /\ ~\E f \in Fills : HalfOpen(f))
       => /\ SumsToZero /\ OrphanedFills = {}
          /\ (\A f \in {g \in Fills : fill[g] # NoFill} :
                 PartOf[fill[f].taker] = PartOf[fill[f].maker]) => GlobalOK]_vars
=============================================================================

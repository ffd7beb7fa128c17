------------------------------ MODULE Provision ------------------------------
(***************************************************************************)
(* How accounts come to be: by a person's first login (internal/identity   *)
(* Provision, internal/api completeLogin) and by serve, which finds or     *)
(* creates the account of its market maker (ensureParticipants).           *)
(*                                                                         *)
(* Both look, open and fund in separate transactions, and take no lock     *)
(* across them.  A login looks among the users, where a person is entered  *)
(* last and can be entered once; serve looks among the accounts, where a   *)
(* label is entered first and may be entered again.                        *)
(***************************************************************************)
EXTENDS Integers, SequencesExt

CONSTANTS Logins,        \* requests to log in
          Starts,        \* instances that start serving
          Desk,          \* the label of the maker's account
          Label,         \* [Logins \cup Starts -> labels]: a person, or Desk
          Fundings,      \* deposits and seeds each one makes: [Logins \cup Starts -> Nat]
          MaxInterrupts  \* bound on failed steps

Callers == Logins \cup Starts
People  == {Label[l] : l \in Logins}
Labels  == {Label[c] : c \in Callers}

ASSUME ProvisionAssumption ==
    /\ Logins \cap Starts = {}
    /\ \A s \in Starts : Label[s] = Desk
    /\ Desk \notin People
    /\ \A c \in Callers : Fundings[c] \in Nat
    /\ \A l, m \in Logins : Fundings[l] = Fundings[m]

VARIABLES
    accounts,   \* the table, an account being its place in it
    users,      \* identity.users: a person's account, 0 if there is no row
    at,         \* what each caller does next, "in" or "refused" at the end
    mine,       \* the account it found or opened, 0 before
    interrupts

provisionVars == <<accounts, users, at, mine, interrupts>>

Find(c, a) ==
    /\ at' = [at EXCEPT ![c] = "in"]
    /\ mine' = [mine EXCEPT ![c] = a]
    /\ UNCHANGED <<accounts, users, interrupts>>

FindNone(c) ==
    /\ at' = [at EXCEPT ![c] = "opening"]
    /\ UNCHANGED <<accounts, users, mine, interrupts>>

LookUpUser(l) ==
    /\ at[l] = "looking" /\ l \in Logins
    /\ \/ users[Label[l]] > 0 /\ Find(l, users[Label[l]])
       \/ users[Label[l]] = 0 /\ FindNone(l)

\* Engine.AccountRef: any of those with the label.
LookUpAccount(s) ==
    /\ at[s] = "looking" /\ s \in Starts
    /\ LET found == {a \in DOMAIN accounts : accounts[a].label = Desk}
       IN  \/ \E a \in found : Find(s, a)
           \/ found = {} /\ FindNone(s)

\* Whatever error the query returns counts as "no such account".
LookUpFails(s) ==
    /\ at[s] = "looking" /\ s \in Starts
    /\ interrupts < MaxInterrupts
    /\ interrupts' = interrupts + 1
    /\ at' = [at EXCEPT ![s] = "opening"]
    /\ UNCHANGED <<accounts, users, mine>>

OpenAccount(c) ==
    /\ at[c] = "opening"
    /\ accounts' = Append(accounts, [label |-> Label[c], funded |-> 0])
    /\ mine' = [mine EXCEPT ![c] = Len(accounts) + 1]
    /\ at' = [at EXCEPT ![c] = "funding"]
    /\ UNCHANGED <<users, interrupts>>

\* Deposit, and for the maker one SeedShares for each symbol.
Fund(c) ==
    /\ at[c] = "funding"
    /\ IF accounts[mine[c]].funded < Fundings[c]
       THEN accounts' = [accounts EXCEPT ![mine[c]].funded = @ + 1] /\ UNCHANGED at
       ELSE at' = [at EXCEPT ![c] = IF c \in Logins THEN "entering" ELSE "in"]
            /\ UNCHANGED accounts
    /\ UNCHANGED <<users, mine, interrupts>>

\* A mutant: the row of an earlier login is overwritten.
EnterableAlways(p) == TRUE

\* UNIQUE (provider, subject).
Enterable(p) == users[p] = 0

\* A login that finds the person entered in the meantime is answered with an error.
EnterUser(l) ==
    /\ at[l] = "entering"
    /\ IF Enterable(Label[l])
       THEN /\ users' = [users EXCEPT ![Label[l]] = mine[l]]
            /\ at' = [at EXCEPT ![l] = "in"]
       ELSE /\ at' = [at EXCEPT ![l] = "refused"]
            /\ UNCHANGED users
    /\ UNCHANGED <<accounts, mine, interrupts>>

\* A step fails, or the process dies before it.
Interrupt(c) ==
    /\ at[c] \notin {"in", "refused"}
    /\ interrupts < MaxInterrupts
    /\ interrupts' = interrupts + 1
    /\ at' = [at EXCEPT ![c] = "refused"]
    /\ UNCHANGED <<accounts, users, mine>>

\* The person tries again; the instance is started again.
Again(c) ==
    /\ at[c] = "refused"
    /\ at' = [at EXCEPT ![c] = "looking"]
    /\ mine' = [mine EXCEPT ![c] = 0]
    /\ UNCHANGED <<accounts, users, interrupts>>

ProvisionInit ==
    /\ accounts = <<>>
    /\ users = [p \in People |-> 0]
    /\ at = [c \in Callers |-> "looking"] /\ mine = [c \in Callers |-> 0]
    /\ interrupts = 0

ProvisionNext ==
    \/ \E l \in Logins : LookUpUser(l) \/ EnterUser(l)
    \/ \E s \in Starts : LookUpAccount(s) \/ LookUpFails(s)
    \/ \E c \in Callers : OpenAccount(c) \/ Fund(c) \/ Interrupt(c) \/ Again(c)

ProvisionSpec == ProvisionInit /\ [][ProvisionNext]_provisionVars

-----------------------------------------------------------------------------
(* What must hold. *)

Stages == {"looking", "opening", "funding", "entering", "in", "refused"}

TypeOK ==
    /\ accounts \in Seq([label : Labels, funded : Nat])
    /\ users \in [People -> Nat]
    /\ at \in [Callers -> Stages]
    /\ mine \in [Callers -> Nat]
    /\ interrupts \in Nat

\* Whatever logins of a person race, fail and are tried again, those that are let
\* in trade through one account, which nobody else trades through and which was
\* funded once and in full.
OneAccountEach ==
    \A l \in Logins : at[l] = "in" =>
      /\ mine[l] = users[Label[l]]
      /\ accounts[mine[l]] = [label |-> Label[l], funded |-> Fundings[l]]
=============================================================================

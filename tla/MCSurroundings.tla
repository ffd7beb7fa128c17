--------------------------- MODULE MCSurroundings ---------------------------
(***************************************************************************)
(* What surrounds the trading core: the market maker and the way accounts  *)
(* come to be, which call it, and the two readers of its outcomes.  They   *)
(* share nothing but the log, which none of them writes, so each is        *)
(* explored with the others asleep.                                        *)
(***************************************************************************)
EXTENDS Feed, Ingester, MarketMaker, Provision, TLC

CONSTANTS p1, p2, c1, c2, a1, a2,  \* partitions, clients and their accounts
          l1, l2, l3, s1, h1, h2   \* logins, an instance, people

Outcome(acct, kind) == [acct |-> acct, kind |-> kind]

\* A partition with everything in it, and a busy one next to it.
MCPublished ==
    (p1 :> {Outcome(a1, "FILL"), Outcome(a1, "ORDER"), Outcome(a1, "UNREADABLE")})
    @@ (p2 :> {Outcome(a2, "FILL")})
MCMaxRecords == (p1 :> 3) @@ (p2 :> 1)
MCAccountOf == (c1 :> a1) @@ (c2 :> a1)
MCPartOf == (a1 :> p1) @@ (a2 :> p2)

\* One person logs in twice, another once.
MCLabel == (l1 :> h1) @@ (l2 :> h1) @@ (l3 :> h2) @@ (s1 :> Desk)
MCFundings == (l1 :> 1) @@ (l2 :> 1) @@ (l3 :> 1) @@ (s1 :> 2)

VARIABLE awake

vars == <<awake, log, feedVars, ingesterVars, makerVars, provisionVars>>

Init ==
    /\ awake \in {"feed", "ingester", "maker", "accounts"}
    /\ LogInit /\ FeedInit /\ IngesterInit /\ MakerInit /\ ProvisionInit

Next ==
    /\ UNCHANGED awake
    /\ \/ /\ awake \in {"feed", "ingester"} /\ \E p \in Partitions : Publish(p)
          /\ UNCHANGED <<feedVars, ingesterVars, makerVars, provisionVars>>
       \/ /\ awake = "feed" /\ FeedNext
          /\ UNCHANGED <<log, ingesterVars, makerVars, provisionVars>>
       \/ /\ awake = "ingester" /\ IngesterNext
          /\ UNCHANGED <<log, feedVars, makerVars, provisionVars>>
       \/ /\ awake = "maker" /\ MakerNext
          /\ UNCHANGED <<log, feedVars, ingesterVars, provisionVars>>
       \/ /\ awake = "accounts" /\ ProvisionNext
          /\ UNCHANGED <<log, feedVars, ingesterVars, makerVars>>

\* The tails loop, and a handler sends what is in its channel.
FeedFairness ==
    /\ \A p \in Partitions :
         /\ WF_feedVars(awake = "feed" /\ (Seek(p) \/ SeekEnds(p)))
         /\ WF_feedVars(awake = "feed" /\ Dispatch(p))
    /\ \A c \in Clients : WF_feedVars(awake = "feed" /\ Send(c))

\* Run loops, as long as there is something to read or to write.
IngesterFairness ==
    /\ \A p \in Partitions : WF_ingesterVars(awake = "ingester" /\ Fetch(p))
    /\ WF_ingesterVars(awake = "ingester" /\ FlushBegins)
    /\ WF_ingesterVars(awake = "ingester" /\ \E kind \in {"FILL", "ORDER"} : Write(kind))

\* The maker's ticker, the shard and the consumers run; ticks, takers, failures
\* and restarts need not happen.
MakerFairness ==
    /\ WF_makerVars(awake = "maker" /\ (QuoteOnce \/ CancelQuote \/ Place \/ QuoteDone))
    /\ WF_makerVars(awake = "maker" /\ Match)
    /\ WF_makerVars(awake = "maker" /\ \E id \in Quotes : Settled(id))

Spec == Init /\ [][Next]_vars /\ FeedFairness /\ IngesterFairness /\ MakerFairness
=============================================================================

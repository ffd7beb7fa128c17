-------------------------------- MODULE Feed --------------------------------
(***************************************************************************)
(* The live fill stream of internal/api (stream.go): a tail on every       *)
(* partition, started at its end, and a buffered channel per subscriber    *)
(* that is skipped when it is full.                                        *)
(*                                                                         *)
(* Dispatch holds the hub's lock for reading and (un)subscribe for         *)
(* writing, so one record against one set of subscribers is one step.      *)
(***************************************************************************)
EXTENDS OutcomeLog

CONSTANTS Clients,
          AccountOf,   \* [Clients -> accounts]
          PartOf,      \* [accounts -> Partitions]: records are keyed by account
          Capacity,    \* of a channel
          FetchFails   \* whether a read may fail while the end is looked for

ASSUME FeedAssumption ==
    /\ Capacity \in Nat \ {0} /\ FetchFails \in BOOLEAN
    /\ \A c \in Clients : PartOf[AccountOf[c]] \in Partitions

VARIABLES
    tail,     \* of each partition: "seeking" its end, or "tailing"
    pos,      \* how many records it has passed
    session,  \* of each client: "none", "connected", "live", "gone"
    chan,     \* positions of the records in its channel
    got,      \* history: those it was sent
    missed,   \* history: those that met a full channel
    since     \* history: where its tail stood when it subscribed

feedVars == <<tail, pos, session, chan, got, missed, since>>

Home(c) == PartOf[AccountOf[c]]

\* endOf: read until there is nothing more.  A read that fails ends the search
\* wherever it is.
Seek(p) ==
    /\ tail[p] = "seeking" /\ pos[p] < Len(log[p])
    /\ pos' = [pos EXCEPT ![p] = Len(log[p])]
    /\ UNCHANGED <<tail, session, chan, got, missed, since>>

SeekEnds(p) ==
    /\ tail[p] = "seeking"
    /\ pos[p] = Len(log[p]) \/ FetchFails
    /\ tail' = [tail EXCEPT ![p] = "tailing"]
    /\ since' = [c \in Clients |-> IF Home(c) = p THEN pos[p] ELSE since[c]]
    /\ UNCHANGED <<pos, session, chan, got, missed>>

Listens(c, p, r) ==
    session[c] = "live" /\ Home(c) = p /\ AccountOf[c] = r.acct /\ Wanted(r)

\* A mutant: nobody is sent what somebody has no room for.
HasRoomIfAll(c) == \A d \in Clients : Len(chan[d]) < Capacity

HasRoom(c) == Len(chan[c]) < Capacity

\* A mutant: the tail stops at what it cannot decode.
PassesReadable(r) == Readable(r)

Passes(r) == TRUE

\* A record that cannot be decoded, or is not for clients, is passed over.
Dispatch(p) ==
    /\ tail[p] = "tailing" /\ pos[p] < Len(log[p])
    /\ Passes(log[p][pos[p] + 1])
    /\ pos' = [pos EXCEPT ![p] = @ + 1]
    /\ LET hears == {c \in Clients : Listens(c, p, log[p][pos[p] + 1])}
       IN  /\ chan' = [c \in Clients |-> IF c \in hears /\ HasRoom(c)
                                         THEN Append(chan[c], pos[p] + 1) ELSE chan[c]]
           /\ missed' = [c \in Clients |-> IF c \in hears /\ Len(chan[c]) >= Capacity
                                           THEN missed[c] \cup {pos[p] + 1} ELSE missed[c]]
    /\ UNCHANGED <<tail, session, got, since>>

\* The response is flushed before the subscription is made.
Connect(c) ==
    /\ session[c] = "none"
    /\ session' = [session EXCEPT ![c] = "connected"]
    /\ UNCHANGED <<tail, pos, chan, got, missed, since>>

Subscribe(c) ==
    /\ session[c] = "connected"
    /\ session' = [session EXCEPT ![c] = "live"]
    /\ since' = [since EXCEPT ![c] = pos[Home(c)]]
    /\ UNCHANGED <<tail, pos, chan, got, missed>>

Send(c) ==
    /\ session[c] = "live" /\ chan[c] # <<>>
    /\ got' = [got EXCEPT ![c] = Append(@, Head(chan[c]))]
    /\ chan' = [chan EXCEPT ![c] = Tail(@)]
    /\ UNCHANGED <<tail, pos, session, missed, since>>

\* The request ends; what is in the channel goes with it.
Disconnect(c) ==
    /\ session[c] \in {"connected", "live"}
    /\ session' = [session EXCEPT ![c] = "gone"]
    /\ chan' = [chan EXCEPT ![c] = <<>>]
    /\ got' = [got EXCEPT ![c] = <<>>]
    /\ missed' = [missed EXCEPT ![c] = {}]
    /\ since' = [since EXCEPT ![c] = 0]
    /\ UNCHANGED <<tail, pos>>

FeedInit ==
    /\ tail = [p \in Partitions |-> "seeking"] /\ pos = [p \in Partitions |-> 0]
    /\ session = [c \in Clients |-> "none"]
    /\ chan = [c \in Clients |-> <<>>] /\ got = [c \in Clients |-> <<>>]
    /\ missed = [c \in Clients |-> {}] /\ since = [c \in Clients |-> 0]

FeedNext ==
    \/ \E p \in Partitions : Seek(p) \/ SeekEnds(p) \/ Dispatch(p)
    \/ \E c \in Clients : Connect(c) \/ Subscribe(c) \/ Send(c) \/ Disconnect(c)

\* Beside a log that goes on growing.
FeedSpec ==
    /\ LogInit /\ FeedInit
    /\ [][\/ (\E p \in Partitions : Publish(p)) /\ UNCHANGED feedVars
          \/ FeedNext /\ UNCHANGED log]_<<log, feedVars>>

-----------------------------------------------------------------------------
(* What must hold. *)

\* The client's records among those in reach of its tail since it subscribed.
Due(c, n) == {k \in since[c] + 1 .. n : Listens(c, Home(c), log[Home(c)][k])}

\* A subscriber is sent every record of its account from then on, once and in
\* order, except those that met its own channel full; nobody else's counts.
FeedInOrder ==
    \A c \in Clients : session[c] = "live" =>
      LET sent == got[c] \o chan[c]
      IN  /\ \A j, k \in DOMAIN sent : j < k => sent[j] < sent[k]
          /\ tail[Home(c)] = "tailing"
               => Range(sent) = Due(c, pos[Home(c)]) \ missed[c]

\* And it does arrive, whatever else is in the log.
FeedArrives ==
    <>[]\A c \in Clients :
          Due(c, Len(log[Home(c)])) \subseteq Range(got[c]) \cup missed[c]
=============================================================================

------------------------ MODULE Surroundings_proofs ------------------------
(***************************************************************************)
(* The two readers of the outcomes, the way accounts come to be and the    *)
(* market maker, for any log, any clients, batches and failures, any       *)
(* logins and starts, any ladder and marks.                                *)
(*                                                                         *)
(* Feed.  What a client was sent and what is in its channel, one after the *)
(* other, are in order the records its tail has passed since it            *)
(* subscribed, but for those counted as missed; before its tail begins it  *)
(* has nothing.                                                            *)
(*                                                                         *)
(* Ingester.  A row of this life stands for a record the reader has        *)
(* passed, so what is read next is new; and the fills of a batch are in    *)
(* the table before its orders are written and the batch is let go.        *)
(*                                                                         *)
(* Provision.  An account somebody is still funding is nobody else's and   *)
(* not entered yet, so nobody is led to it before it is funded, and it is  *)
(* not funded twice.                                                       *)
(*                                                                         *)
(* Maker.  An accepted quote rests in the maker's list, waits to be taken  *)
(* back, or has slipped: a number is used once in a life, so what is       *)
(* accepted under it is the quote that is remembered.  A requote takes     *)
(* back what rests before it places anything, and what it places is on its *)
(* own side of one price, so what a quote could trade with was cancelled   *)
(* ahead of it in the log.  The book takes the log in order: the cancel    *)
(* comes first.                                                            *)
(***************************************************************************)
EXTENDS Feed, Ingester, MarketMaker, Provision, Money_proofs, SequenceTheorems

Records == UNION {Published[p] : p \in Partitions}

-----------------------------------------------------------------------------
(* The live stream. *)

\* Where the tails stand, and what the clients have.
StreamTypes ==
    /\ log \in [Partitions -> Seq(Records)]
    /\ tail \in [Partitions -> {"seeking", "tailing"}]
    /\ pos \in [Partitions -> Nat]
    /\ \A p \in Partitions : pos[p] <= Len(log[p])
    /\ session \in [Clients -> {"none", "connected", "live", "gone"}]
    /\ chan \in [Clients -> Seq(Nat)] /\ got \in [Clients -> Seq(Nat)]
    /\ missed \in [Clients -> SUBSET Nat]
    /\ since \in [Clients -> Nat]

\* What the handler of a client has taken from its channel, and what is in it.
Sent(c) == got[c] \o chan[c]

\* A client that does not listen, or whose tail has not begun, has nothing.
NothingSent ==
    \A c \in Clients : session[c] # "live" \/ tail[Home(c)] = "seeking" =>
      Sent(c) = <<>> /\ missed[c] = {}

\* One that does has, in order, what its tail has passed since it subscribed.
SentInOrder ==
    \A c \in Clients : session[c] = "live" =>
      /\ since[c] <= pos[Home(c)]
      /\ \A j, k \in 1 .. Len(Sent(c)) : j < k => Sent(c)[j] < Sent(c)[k]
      /\ missed[c] \subseteq 1 .. pos[Home(c)]
      /\ \A j \in 1 .. Len(Sent(c)) : Sent(c)[j] \in Due(c, pos[Home(c)]) \ missed[c]
      /\ tail[Home(c)] = "tailing" =>
           \A n \in Due(c, pos[Home(c)]) : n \in missed[c] \/ \E j \in 1 .. Len(Sent(c)) : Sent(c)[j] = n

FeedInv == StreamTypes /\ NothingSent /\ SentInOrder

\* What was sent is a sequence of positions.
LEMMA SentType ==
    ASSUME StreamTypes, NEW c \in Clients
    PROVE  /\ Sent(c) \in Seq(Nat) /\ Len(Sent(c)) \in Nat
           /\ Home(c) \in Partitions /\ pos[Home(c)] \in Nat
  <1>1. Sent(c) \in Seq(Nat)
    BY ConcatProperties DEF Sent, StreamTypes
  <1> QED BY <1>1, FeedAssumption DEF StreamTypes, Home

\* The records there are stay where they are when one is published.
LEMMA PublishKeepsFeed ==
    ASSUME FeedInv, NEW p \in Partitions, Publish(p), UNCHANGED feedVars
    PROVE  FeedInv'
  <1> USE DEF feedVars
  <1>1. PICK r \in Published[p] : log' = [log EXCEPT ![p] = Append(@, r)]
    BY DEF Publish
  <1>2. r \in Records
    BY DEF Records
  <1>3. log' \in [Partitions -> Seq(Records)]
    BY <1>1, <1>2 DEF FeedInv, StreamTypes
  <1>4. \A q \in Partitions : /\ Len(log'[q]) >= Len(log[q])
                              /\ \A k \in 1 .. Len(log[q]) : log'[q][k] = log[q][k]
    BY <1>1, <1>2 DEF FeedInv, StreamTypes
  <1>5. StreamTypes'
    BY <1>3, <1>4 DEF FeedInv, StreamTypes
  <1>6. \A c \in Clients : Sent(c)' = Sent(c)
    BY DEF Sent
  <1>7. NothingSent'
    BY <1>6 DEF FeedInv, NothingSent, Home
  <1>8. ASSUME NEW c \in Clients, session[c] = "live"
        PROVE  Due(c, pos[Home(c)])' = Due(c, pos[Home(c)])
    <2>1. Home(c) \in Partitions /\ pos[Home(c)] \in Nat /\ pos[Home(c)] <= Len(log[Home(c)])
          /\ Len(log[Home(c)]) \in Nat /\ since[c] \in Nat
      BY SentType DEF FeedInv, StreamTypes
    <2>2. \A k \in since[c] + 1 .. pos[Home(c)] : log'[Home(c)][k] = log[Home(c)][k]
      BY <1>4, <2>1
    <2> QED BY <2>2 DEF Due, Listens, Home
  <1>9. SentInOrder'
    BY <1>6, <1>8 DEF FeedInv, SentInOrder, Home
  <1> QED BY <1>5, <1>7, <1>9 DEF FeedInv

\* Looking for the end moves a tail that has sent nothing.
LEMMA SeekKeepsFeed ==
    ASSUME FeedInv, NEW p \in Partitions, Seek(p) \/ SeekEnds(p), UNCHANGED log
    PROVE  FeedInv'
  <1>1. StreamTypes'
    <2>1. CASE Seek(p)
      BY <2>1 DEF FeedInv, StreamTypes, Seek
    <2>2. CASE SeekEnds(p)
      <3>1. tail' \in [Partitions -> {"seeking", "tailing"}]
        BY <2>2 DEF FeedInv, StreamTypes, SeekEnds
      <3>2. since' \in [Clients -> Nat]
        BY <2>2 DEF FeedInv, StreamTypes, SeekEnds
      <3> QED BY <2>2, <3>1, <3>2 DEF FeedInv, StreamTypes, SeekEnds
    <2> QED BY <2>1, <2>2
  <1>2. /\ UNCHANGED <<session, chan, got, missed>> /\ tail[p] = "seeking"
        /\ \A c \in Clients : Sent(c)' = Sent(c)
        /\ \A c \in Clients : Home(c) # p =>
             /\ tail'[Home(c)] = tail[Home(c)] /\ pos'[Home(c)] = pos[Home(c)]
             /\ since'[c] = since[c]
    BY SentType DEF FeedInv, StreamTypes, Seek, SeekEnds, Sent
  <1>3. \A c \in Clients : Home(c)' = Home(c)
    BY DEF Home
  <1>4. \A c \in Clients : Home(c) = p => Sent(c) = <<>> /\ missed[c] = {}
    BY <1>2 DEF FeedInv, NothingSent
  <1>5. NothingSent'
    BY <1>2, <1>3, <1>4 DEF FeedInv, NothingSent
  <1>6. ASSUME NEW c \in Clients, Home(c) = p, session[c] = "live"
        PROVE  /\ since'[c] <= pos'[p]
               /\ tail'[p] = "tailing" => since'[c] = pos'[p]
    <2>1. since[c] <= pos[p] /\ since[c] \in Nat /\ pos[p] \in Nat /\ Len(log[p]) \in Nat
          /\ pos[p] <= Len(log[p])
      BY <1>6 DEF FeedInv, SentInOrder, StreamTypes
    <2>2. CASE Seek(p)
      BY <2>1, <2>2, <1>2 DEF Seek, FeedInv, StreamTypes
    <2>3. CASE SeekEnds(p)
      BY <2>1, <2>3, <1>6 DEF SeekEnds, FeedInv, StreamTypes
    <2> QED BY <2>2, <2>3
  <1>7. ASSUME NEW c \in Clients, session'[c] = "live", Home(c) = p
        PROVE  SentInOrder!(c)'
    <2>1. Sent(c)' = <<>> /\ missed'[c] = {} /\ Len(Sent(c)') = 0
      BY <1>2, <1>4, <1>7
    <2>2. since'[c] <= pos'[p] /\ (tail'[p] = "tailing" => since'[c] = pos'[p])
      BY <1>2, <1>6, <1>7
    <2>3. tail'[p] = "tailing" => Due(c, pos[Home(c)])' = {}
      <3>1. pos'[p] \in Nat
        BY <1>1 DEF StreamTypes
      <3> QED BY <1>3, <1>7, <2>2, <3>1 DEF Due
    <2> QED BY <1>3, <1>7, <2>1, <2>2, <2>3
  <1>8. ASSUME NEW c \in Clients, session'[c] = "live", Home(c) # p
        PROVE  SentInOrder!(c)'
    <2>1. /\ since'[c] = since[c] /\ pos'[Home(c)] = pos[Home(c)] /\ tail'[Home(c)] = tail[Home(c)]
          /\ missed' = missed /\ Sent(c)' = Sent(c) /\ session[c] = "live"
      BY <1>2, <1>8
    <2>2. Due(c, pos[Home(c)])' = Due(c, pos[Home(c)])
      BY <1>2, <1>3, <2>1 DEF Due, Listens
    <2> QED BY <1>3, <2>1, <2>2 DEF FeedInv, SentInOrder
  <1>9. SentInOrder'
    BY <1>2, <1>7, <1>8 DEF SentInOrder
  <1> QED BY <1>1, <1>5, <1>9 DEF FeedInv

\* What a client is sent besides.
LEMMA SentAppend ==
    ASSUME StreamTypes, NEW c \in Clients, NEW n \in Nat,
           got'[c] = got[c], chan'[c] = Append(chan[c], n)
    PROVE  /\ Len(Sent(c)') = Len(Sent(c)) + 1
           /\ \A j \in 1 .. Len(Sent(c)) : Sent(c)'[j] = Sent(c)[j]
           /\ Sent(c)'[Len(Sent(c)) + 1] = n
  <1>1. PICK g, h : g = got[c] /\ h = chan[c]
    OBVIOUS
  <1>2. g \in Seq(Nat) /\ h \in Seq(Nat) /\ Append(h, n) \in Seq(Nat) /\ Len(Append(h, n)) = Len(h) + 1
        /\ Len(g) \in Nat /\ Len(h) \in Nat
        /\ Append(h, n)[Len(h) + 1] = n /\ \A i \in 1 .. Len(h) : Append(h, n)[i] = h[i]
    BY <1>1 DEF StreamTypes
  <1>3. Sent(c) = g \o h /\ Sent(c)' = g \o Append(h, n)
    BY <1>1 DEF Sent
  <1>4. PICK e : e = Append(h, n)
    OBVIOUS
  <1>5. /\ Len(g \o h) = Len(g) + Len(h) /\ Len(g \o e) = Len(g) + Len(h) + 1
        /\ \A i \in 1 .. Len(g) + Len(h) : (g \o h)[i] = IF i <= Len(g) THEN g[i] ELSE h[i - Len(g)]
        /\ \A i \in 1 .. Len(g) + Len(h) + 1 : (g \o e)[i] = IF i <= Len(g) THEN g[i] ELSE e[i - Len(g)]
    <2>1. e \in Seq(Nat) /\ Len(e) = Len(h) + 1
      BY <1>2, <1>4
    <2>2. Len(g) + Len(e) = Len(g) + Len(h) + 1
      BY <1>2, <2>1
    <2>3. /\ Len(g \o h) = Len(g) + Len(h)
          /\ \A i \in 1 .. Len(g) + Len(h) : (g \o h)[i] = IF i <= Len(g) THEN g[i] ELSE h[i - Len(g)]
      BY <1>2, ConcatProperties
    <2>4. /\ Len(g \o e) = Len(g) + Len(e)
          /\ \A i \in 1 .. Len(g) + Len(e) : (g \o e)[i] = IF i <= Len(g) THEN g[i] ELSE e[i - Len(g)]
      BY <1>2, <2>1, ConcatProperties
    <2> QED BY <2>2, <2>3, <2>4
  <1>6. \A i \in 1 .. Len(g) + Len(h) : (g \o e)[i] = (g \o h)[i]
    BY <1>2, <1>4, <1>5
  <1>7. (g \o e)[Len(g) + Len(h) + 1] = n
    <2>1. Len(g) + Len(h) + 1 \in 1 .. Len(g) + Len(h) + 1 /\ ~(Len(g) + Len(h) + 1 <= Len(g))
          /\ (Len(g) + Len(h) + 1) - Len(g) = Len(h) + 1
      BY <1>2
    <2> QED BY <1>2, <1>4, <1>5, <2>1
  <1> QED BY <1>3, <1>4, <1>5, <1>6, <1>7

\* Taking from the channel sends nothing new.
LEMMA SentTaken ==
    ASSUME StreamTypes, NEW c \in Clients, chan[c] # <<>>,
           got'[c] = Append(got[c], Head(chan[c])), chan'[c] = Tail(chan[c])
    PROVE  Sent(c)' = Sent(c)
  <1>1. PICK g, h : g = got[c] /\ h = chan[c]
    OBVIOUS
  <1>2. g \in Seq(Nat) /\ h \in Seq(Nat) /\ h # <<>>
    BY <1>1 DEF StreamTypes
  <1>3. h = <<Head(h)>> \o Tail(h) /\ Append(g, Head(h)) = g \o <<Head(h)>>
        /\ <<Head(h)>> \in Seq(Nat) /\ Tail(h) \in Seq(Nat)
    <2>1. Head(h) \in Nat /\ Tail(h) \in Seq(Nat)
      BY <1>2, HeadTailProperties
    <2> QED BY <1>2, <2>1
  <1>4. (g \o <<Head(h)>>) \o Tail(h) = g \o (<<Head(h)>> \o Tail(h))
    BY <1>2, <1>3, ConcatAssociative
  <1> QED BY <1>1, <1>3, <1>4 DEF Sent

\* A dispatched record goes to those who listen, or counts as missed.
LEMMA DispatchKeepsFeed ==
    ASSUME FeedInv, NEW p \in Partitions, Dispatch(p), UNCHANGED log
    PROVE  FeedInv'
  <1> DEFINE n == pos[p] + 1
             hears == {c \in Clients : Listens(c, p, log[p][n])}
  <1>1. /\ tail[p] = "tailing" /\ n \in Nat /\ n <= Len(log[p]) /\ n > pos[p] /\ pos[p] \in Nat
        /\ pos' = [pos EXCEPT ![p] = n]
        /\ chan' = [c \in Clients |-> IF c \in hears /\ HasRoom(c) THEN Append(chan[c], n) ELSE chan[c]]
        /\ missed' = [c \in Clients |-> IF c \in hears /\ Len(chan[c]) >= Capacity
                                        THEN missed[c] \cup {n} ELSE missed[c]]
        /\ UNCHANGED <<tail, session, got, since>>
    BY DEF Dispatch, FeedInv, StreamTypes
  <1>2. \A c \in Clients : c \in hears <=> session[c] = "live" /\ Home(c) = p /\ Listens(c, p, log[p][n])
    BY DEF Listens
  <1>3. \A c \in Clients : ~(Len(chan[c]) >= Capacity) <=> HasRoom(c)
    BY FeedAssumption DEF HasRoom, FeedInv, StreamTypes
  <1> HIDE DEF n, hears
  <1>4. StreamTypes'
    <2>1. chan' \in [Clients -> Seq(Nat)] /\ missed' \in [Clients -> SUBSET Nat]
      BY <1>1 DEF FeedInv, StreamTypes
    <2> QED BY <1>1, <2>1 DEF FeedInv, StreamTypes
  <1>5. \A c \in Clients : Home(c)' = Home(c)
    BY DEF Home
  <1>6. ASSUME NEW c \in Clients, c \notin hears
        PROVE  Sent(c)' = Sent(c) /\ missed'[c] = missed[c]
    BY <1>1, <1>6 DEF Sent
  <1>7. NothingSent'
    <2>1. \A c \in hears : session[c] = "live" /\ tail[Home(c)] # "seeking"
      BY <1>1, <1>2 DEF hears
    <2> QED BY <1>1, <1>5, <1>6, <2>1 DEF FeedInv, NothingSent
  <1>8. ASSUME NEW c \in Clients, session'[c] = "live"
        PROVE  SentInOrder!(c)'
    <2>1. session[c] = "live" /\ SentInOrder!(c)
      BY <1>1, <1>8 DEF FeedInv, SentInOrder
    <2>2. CASE Home(c) # p
      <3>1. pos'[Home(c)] = pos[Home(c)] /\ c \notin hears
        BY <1>1, <1>2, <2>2, SentType DEF FeedInv, StreamTypes
      <3>2. Due(c, pos[Home(c)])' = Due(c, pos[Home(c)])
        BY <1>1, <1>5, <3>1 DEF Due, Listens
      <3> QED BY <1>1, <1>5, <1>6, <2>1, <3>1, <3>2
    <2>3. CASE Home(c) = p
      <3>1. pos'[Home(c)] = n /\ pos[Home(c)] = pos[p] /\ since[c] \in Nat /\ since[c] <= pos[p]
        BY <1>1, <2>1, <2>3 DEF FeedInv, StreamTypes
      <3>2. /\ n \notin Due(c, pos[Home(c)])
            /\ Due(c, pos[Home(c)])' = Due(c, pos[Home(c)]) \cup (IF c \in hears THEN {n} ELSE {})
        BY <1>1, <1>2, <1>5, <2>1, <2>3, <3>1 DEF Due, Listens, n
      <3>3. n \notin missed[c]
        BY <1>1, <2>1, <3>1
      <3>4. PICK due : due = Due(c, pos[Home(c)])
        OBVIOUS
      <3>5. PICK s, len : s = Sent(c) /\ len = Len(Sent(c))
        OBVIOUS
      <3>6. /\ len \in Nat /\ \A j, k \in 1 .. len : j < k => s[j] < s[k]
            /\ \A j \in 1 .. len : s[j] \in due \ missed[c] /\ s[j] < n
            /\ \A k \in due : k \in missed[c] \/ \E j \in 1 .. len : s[j] = k
        <4>1. \A k \in due : k < n
          BY <1>1, <3>1, <3>4 DEF Due
        <4> QED BY <1>1, <2>1, <2>3, <3>4, <3>5, <4>1, SentType DEF FeedInv
      <3>7. CASE c \notin hears
        <4>1. Due(c, pos[Home(c)])' = due /\ Sent(c)' = s /\ missed'[c] = missed[c]
          BY <1>6, <3>2, <3>4, <3>5, <3>7
        <4> QED BY <1>1, <1>5, <2>1, <3>1, <3>4, <3>5, <3>6, <4>1
      <3>8. CASE c \in hears /\ ~HasRoom(c)
        <4>1. Due(c, pos[Home(c)])' = due \cup {n} /\ Sent(c)' = s /\ missed'[c] = missed[c] \cup {n}
          BY <1>1, <1>3, <3>2, <3>4, <3>5, <3>8 DEF Sent
        <4>2. \A j \in 1 .. len : s[j] \in (due \cup {n}) \ (missed[c] \cup {n})
          BY <1>1, <3>6, SentType, <3>5 DEF FeedInv
        <4> QED BY <1>1, <1>5, <2>1, <3>1, <3>3, <3>5, <3>6, <4>1, <4>2
      <3>9. CASE c \in hears /\ HasRoom(c)
        <4>1. chan'[c] = Append(chan[c], n) /\ missed'[c] = missed[c]
          BY <1>1, <1>3, <3>9
        <4>2. PICK t : t = Sent(c)'
          OBVIOUS
        <4>3. Len(t) = len + 1 /\ t[len + 1] = n /\ \A j \in 1 .. len : t[j] = s[j]
          BY <1>1, <3>5, <4>1, <4>2, SentAppend DEF FeedInv
        <4>4. Due(c, pos[Home(c)])' = due \cup {n}
          BY <3>2, <3>4, <3>9
        <4>5. \A j \in 1 .. len + 1 : j \in 1 .. len \/ j = len + 1
          BY <3>6
        <4>6. \A j, k \in 1 .. len + 1 : j < k => t[j] < t[k]
          <5> SUFFICES ASSUME NEW j \in 1 .. len + 1, NEW k \in 1 .. len + 1, j < k PROVE t[j] < t[k]
            OBVIOUS
          <5>1. j \in 1 .. len
            BY <3>6
          <5> QED BY <3>6, <4>3, <4>5, <5>1
        <4>7. \A j \in 1 .. len + 1 : t[j] \in (due \cup {n}) \ missed[c]
          BY <3>3, <3>6, <4>3, <4>5
        <4>8. \A k \in due \cup {n} : k \in missed[c] \/ \E j \in 1 .. len + 1 : t[j] = k
          <5>1. len + 1 \in 1 .. len + 1 /\ \A j \in 1 .. len : j \in 1 .. len + 1
            BY <3>6
          <5> QED BY <3>6, <4>3, <5>1
        <4>9. since[c] <= n /\ missed[c] \subseteq 1 .. n
          BY <1>1, <2>1, <3>1
        <4> QED BY <1>1, <1>5, <3>1, <4>1, <4>2, <4>3, <4>4, <4>6, <4>7, <4>8, <4>9
      <3> QED BY <3>7, <3>8, <3>9
    <2> QED BY <2>2, <2>3
  <1> QED BY <1>4, <1>7, <1>8 DEF FeedInv, SentInOrder

\* A client that comes begins with nothing, and one that goes leaves nothing.
LEMMA ClientKeepsFeed ==
    ASSUME FeedInv, NEW c \in Clients, Connect(c) \/ Subscribe(c) \/ Send(c) \/ Disconnect(c),
           UNCHANGED log
    PROVE  FeedInv'
  <1>1. /\ UNCHANGED <<tail, pos>>
        /\ \A d \in Clients \ {c} : /\ session'[d] = session[d] /\ Sent(d)' = Sent(d)
                                    /\ missed'[d] = missed[d] /\ since'[d] = since[d]
        /\ \A d \in Clients : Home(d)' = Home(d)
    BY DEF FeedInv, StreamTypes, Connect, Subscribe, Send, Disconnect, Sent, Home
  <1>2. StreamTypes'
    <2>1. CASE Send(c)
      <3>1. Head(chan[c]) \in Nat /\ Tail(chan[c]) \in Seq(Nat) /\ got[c] \in Seq(Nat)
        BY <2>1, HeadTailProperties DEF Send, FeedInv, StreamTypes
      <3>2. got' \in [Clients -> Seq(Nat)] /\ chan' \in [Clients -> Seq(Nat)]
        BY <2>1, <3>1 DEF Send, FeedInv, StreamTypes
      <3> QED BY <2>1, <3>2 DEF Send, FeedInv, StreamTypes
    <2>2. CASE Subscribe(c)
      BY <2>2, SentType DEF Subscribe, FeedInv, StreamTypes
    <2>3. CASE Connect(c)
      BY <2>3 DEF Connect, FeedInv, StreamTypes
    <2>4. CASE Disconnect(c)
      <3>1. /\ session' \in [Clients -> {"none", "connected", "live", "gone"}]
            /\ chan' \in [Clients -> Seq(Nat)] /\ got' \in [Clients -> Seq(Nat)]
        BY <2>4 DEF Disconnect, FeedInv, StreamTypes
      <3>2. missed' \in [Clients -> SUBSET Nat] /\ since' \in [Clients -> Nat]
        BY <2>4 DEF Disconnect, FeedInv, StreamTypes
      <3> QED BY <2>4, <3>1, <3>2 DEF Disconnect, FeedInv, StreamTypes
    <2> QED BY <2>1, <2>2, <2>3, <2>4
  <1>3. \A d \in Clients \ {c} : NothingSent!(d)' /\ (session'[d] = "live" => SentInOrder!(d)')
    <2>1. \A d \in Clients \ {c} : Due(d, pos[Home(d)])' = Due(d, pos[Home(d)])
      BY <1>1 DEF Due, Listens
    <2> QED BY <1>1, <2>1 DEF FeedInv, NothingSent, SentInOrder
  <1>4. NothingSent!(c)' /\ (session'[c] = "live" => SentInOrder!(c)')
    <2>1. CASE Connect(c)
      BY <1>1, <2>1 DEF Connect, FeedInv, StreamTypes, NothingSent, Sent
    <2>2. CASE Disconnect(c)
      BY <1>1, <2>2 DEF Disconnect, FeedInv, StreamTypes, Sent
    <2>3. CASE Subscribe(c)
      <3>1. session[c] = "connected" /\ session'[c] = "live" /\ since'[c] = pos[Home(c)]
            /\ UNCHANGED <<chan, got, missed>>
        BY <2>3 DEF Subscribe, FeedInv, StreamTypes
      <3>2. Sent(c)' = <<>> /\ missed'[c] = {} /\ Len(Sent(c)') = 0
        <4>1. Sent(c) = <<>> /\ missed[c] = {}
          BY <3>1 DEF FeedInv, NothingSent
        <4>2. Sent(c)' = Sent(c)
          BY <3>1 DEF Sent
        <4> QED BY <3>1, <4>1, <4>2
      <3>3. Due(c, pos[Home(c)])' = {}
        BY <1>1, <3>1, SentType DEF FeedInv, Due
      <3>4. since'[c] <= pos'[Home(c)']
        BY <1>1, <3>1, SentType DEF FeedInv
      <3> QED BY <1>1, <3>2, <3>3, <3>4
    <2>4. CASE Send(c)
      <3>1. Sent(c)' = Sent(c)
        BY <2>4, SentTaken DEF Send, FeedInv, StreamTypes
      <3>2. Due(c, pos[Home(c)])' = Due(c, pos[Home(c)])
        BY <1>1, <2>4 DEF Due, Listens, Send
      <3> QED BY <1>1, <2>4, <3>1, <3>2 DEF Send, FeedInv, NothingSent, SentInOrder
    <2> QED BY <2>1, <2>2, <2>3, <2>4
  <1>5. NothingSent' /\ SentInOrder'
    BY <1>3, <1>4 DEF NothingSent, SentInOrder
  <1> QED BY <1>2, <1>5 DEF FeedInv

\* At the start nobody listens.
LEMMA FeedStarts == LogInit /\ FeedInit => FeedInv
  <1> SUFFICES ASSUME LogInit, FeedInit PROVE FeedInv
    OBVIOUS
  <1>1. StreamTypes
    BY DEF LogInit, FeedInit, StreamTypes
  <1>2. NothingSent /\ SentInOrder
    BY DEF FeedInit, NothingSent, SentInOrder, Sent
  <1> QED BY <1>1, <1>2 DEF FeedInv

\* What the invariant says in the words of the property.
LEMMA FeedInvImplies == FeedInv => FeedInOrder
  <1> SUFFICES ASSUME FeedInv, NEW c \in Clients, session[c] = "live"
               PROVE  LET sent == got[c] \o chan[c]
                      IN  /\ \A j, k \in DOMAIN sent : j < k => sent[j] < sent[k]
                          /\ tail[Home(c)] = "tailing"
                               => Range(sent) = Due(c, pos[Home(c)]) \ missed[c]
    BY DEF FeedInOrder
  <1>1. PICK s : s = Sent(c)
    OBVIOUS
  <1>2. DOMAIN s = 1 .. Len(s)
    BY <1>1, SentType DEF FeedInv
  <1>3. SentInOrder!(c)
    BY DEF FeedInv, SentInOrder
  <1>4. ASSUME tail[Home(c)] = "tailing"
        PROVE  {s[j] : j \in 1 .. Len(s)} = Due(c, pos[Home(c)]) \ missed[c]
    BY <1>1, <1>3, <1>4
  <1> QED BY <1>1, <1>2, <1>3, <1>4 DEF Sent, Range

\* A live subscriber has been sent, or finds in its channel, each record of its
\* account that its tail has passed since it subscribed, once and in order, apart
\* from those that met its own channel full (stream.go, dispatch and handleStream).
THEOREM StreamInOrder == FeedSpec => []FeedInOrder
  <1>1. FeedInv /\ [\/ (\E p \in Partitions : Publish(p)) /\ UNCHANGED feedVars
                    \/ FeedNext /\ UNCHANGED log]_<<log, feedVars>> => FeedInv'
    <2> SUFFICES ASSUME FeedInv, [\/ (\E p \in Partitions : Publish(p)) /\ UNCHANGED feedVars
                                  \/ FeedNext /\ UNCHANGED log]_<<log, feedVars>>
                 PROVE  FeedInv'
      OBVIOUS
    <2>1. CASE UNCHANGED <<log, feedVars>>
      BY <2>1 DEF feedVars, FeedInv, StreamTypes, NothingSent, SentInOrder, Sent, Due, Listens, Home
    <2> QED BY <2>1, PublishKeepsFeed, SeekKeepsFeed, DispatchKeepsFeed, ClientKeepsFeed DEF FeedNext
  <1> QED BY <1>1, FeedStarts, FeedInvImplies, PTL DEF FeedSpec

-----------------------------------------------------------------------------
(* The ingester. *)

ingesterAll == <<log, ingesterVars>>

IngesterStep ==
    \/ (\E p \in Partitions : Publish(p)) /\ UNCHANGED ingesterVars
    \/ IngesterNext /\ UNCHANGED log

\* The readers are inside the log.
ReadersPlaced ==
    /\ log \in [Partitions -> Seq(Records)]
    /\ offset \in [Partitions -> Nat]
    /\ life \in Nat
    /\ \A p \in Partitions : offset[p] <= Len(log[p])

\* Every row is of a record that was passed, in this life or in an earlier one.
RowsPassed ==
    /\ \A r \in table \cup buffer :
         /\ r.part \in Partitions /\ r.at \in Nat /\ r.life \in Nat
         /\ r.life <= life
         /\ r.life = life => r.at <= offset[r.part]
    /\ \A r \in buffer : r.life = life /\ r.kind \in {"FILL", "ORDER"}

\* One row of a record in each life.
OneRowEach ==
    \A r, s \in table \cup buffer :
      r.part = s.part /\ r.at = s.at /\ r.life = s.life => r.ts = s.ts

\* When the orders are written the fills are.
FillsFirst == step = "ORDER" => \A r \in buffer : r.kind = "FILL" => r \in table

IngesterInv == ReadersPlaced /\ RowsPassed /\ OneRowEach /\ FillsFirst /\ NoRowForgotten

\* Nothing is read or written at the start.
LEMMA IngesterStarts == LogInit /\ IngesterInit => IngesterInv
  <1> SUFFICES ASSUME LogInit, IngesterInit PROVE IngesterInv
    OBVIOUS
  <1>1. ReadersPlaced
    BY DEF LogInit, IngesterInit, ReadersPlaced
  <1>2. RowsPassed /\ OneRowEach /\ FillsFirst /\ NoRowForgotten
    BY DEF IngesterInit, RowsPassed, OneRowEach, FillsFirst, NoRowForgotten
  <1> QED  BY <1>1, <1>2 DEF IngesterInv

\* A log that grows keeps what was read.
LEMMA PublishKeepsRows ==
  ASSUME IngesterInv, NEW p \in Partitions, Publish(p), UNCHANGED ingesterVars
  PROVE  IngesterInv'
  <1> USE DEF IngesterInv, ingesterVars
  <1>1. PICK r \in Published[p] : log' = [log EXCEPT ![p] = Append(@, r)]
    BY DEF Publish
  <1>2. r \in Records
    BY DEF Records
  <1>3. log' \in [Partitions -> Seq(Records)]
    BY <1>1, <1>2 DEF ReadersPlaced
  <1>4. \A q \in Partitions : /\ Len(log'[q]) >= Len(log[q])
                              /\ \A k \in 1 .. Len(log[q]) : log'[q][k] = log[q][k]
    BY <1>1, <1>2 DEF ReadersPlaced
  <1>5. ReadersPlaced'
    BY <1>3, <1>4 DEF ReadersPlaced
  <1>6. RowsPassed' /\ OneRowEach' /\ FillsFirst'
    BY DEF RowsPassed, OneRowEach, FillsFirst
  <1>7. NoRowForgotten'
    <2>1. \A q \in Partitions : \A k \in 1 .. offset[q] : log'[q][k] = log[q][k]
      BY <1>4 DEF ReadersPlaced
    <2> QED  BY <2>1 DEF NoRowForgotten, InTable, InBuffer
  <1> QED  BY <1>5, <1>6, <1>7

\* What is fetched was not passed before: its rows are new.
LEMMA FetchKeepsRows ==
  ASSUME IngesterInv, NEW p \in Partitions, Fetch(p), UNCHANGED log
  PROVE  IngesterInv'
  <1> USE DEF IngesterInv
  <1> DEFINE upTo == IF offset[p] + BatchSize < Len(log[p]) THEN offset[p] + BatchSize
                                                            ELSE Len(log[p])
             want == {k \in offset[p] + 1 .. upTo : Wanted(log[p][k])}
             read == {k \in want : \A j \in offset[p] + 1 .. k : Readable(log[p][j])}
             new  == {Row(p, k) : k \in read}
  <1>1. /\ step = "pumping"
        /\ offset' = [offset EXCEPT ![p] = upTo]
        /\ buffer' = buffer \cup new
        /\ lost' = lost \cup {<<p, k>> : k \in want \ read}
        /\ UNCHANGED <<step, table, life>>
    BY DEF Fetch
  <1>2. upTo \in Nat /\ upTo >= offset[p] /\ upTo <= Len(log[p])
    BY IngesterAssumption DEF IngesterAssumption, ReadersPlaced
  <1>3. \A r \in new : /\ r.part = p /\ r.at \in offset[p] + 1 .. upTo
                       /\ r.life = life /\ r.ts = now /\ r.kind \in {"FILL", "ORDER"}
    BY DEF Row, Wanted
  <1>4. \A k \in want : k \in read => \E r \in new : r.part = p /\ r.at = k
    <2> SUFFICES ASSUME NEW k \in read PROVE \E r \in new : r.part = p /\ r.at = k
      OBVIOUS
    <2>1. Row(p, k) \in new
      OBVIOUS
    <2>2. Row(p, k).part = p /\ Row(p, k).at = k
      BY DEF Row
    <2> QED  BY <2>1, <2>2
  <1> HIDE DEF upTo, new
  <1>5. ReadersPlaced'
    BY <1>1, <1>2 DEF ReadersPlaced
  <1>6. RowsPassed'
    BY <1>1, <1>2, <1>3 DEF RowsPassed, ReadersPlaced
  <1>7. OneRowEach'
    <2>1. \A r \in table \cup buffer, s \in new :
            ~(r.part = s.part /\ r.at = s.at /\ r.life = s.life)
      BY <1>3 DEF RowsPassed, ReadersPlaced
    <2>2. \A r, s \in new : r.ts = s.ts
      BY <1>3
    <2> QED  BY <1>1, <2>1, <2>2 DEF OneRowEach
  <1>8. FillsFirst'
    BY <1>1 DEF FillsFirst
  <1>9. NoRowForgotten'
    <2> SUFFICES ASSUME NEW q \in Partitions, NEW k \in 1 .. offset'[q], Wanted(log[q][k])
                 PROVE  <<q, k>> \in lost' \/ InBuffer(q, k)' \/ InTable(q, k)'
      BY DEF NoRowForgotten
    <2>1. CASE k \in 1 .. offset[q]
      BY <1>1, <2>1 DEF NoRowForgotten, InBuffer, InTable
    <2>2. CASE k \notin 1 .. offset[q]
      <3>1. q = p /\ k \in want
        BY <1>1, <1>2, <2>2 DEF ReadersPlaced
      <3> QED  BY <1>1, <1>4, <3>1 DEF InBuffer
    <2> QED  BY <2>1, <2>2
  <1> QED  BY <1>5, <1>6, <1>7, <1>8, <1>9

\* The fills land before the orders, and the batch is let go when both are there.
LEMMA WriteKeepsRows ==
  ASSUME IngesterInv, NEW kind \in {"FILL", "ORDER"}, Write(kind), UNCHANGED log
  PROVE  IngesterInv'
  <1> USE DEF IngesterInv
  <1>1. /\ step = kind
        /\ table' = table \cup Of(kind)
        /\ Of(kind) \subseteq buffer
        /\ UNCHANGED <<offset, life, lost>>
    BY DEF Write, Written, Of
  <1>2. ReadersPlaced'
    BY <1>1 DEF ReadersPlaced
  <1>3. CASE kind = "FILL"
    <2>1. buffer' = buffer /\ step' = "ORDER"
      BY <1>3 DEF Write
    <2>2. table' \cup buffer' = table \cup buffer
      BY <1>1, <2>1
    <2>3. RowsPassed' /\ OneRowEach'
      BY <1>1, <2>1, <2>2 DEF RowsPassed, OneRowEach
    <2>4. FillsFirst'
      BY <1>1, <1>3, <2>1 DEF FillsFirst, Of
    <2>5. NoRowForgotten'
      BY <1>1, <1>3, <2>1 DEF NoRowForgotten, InBuffer, InTable
    <2> QED  BY <1>2, <2>3, <2>4, <2>5
  <1>4. CASE kind = "ORDER"
    <2>1. buffer' = {} /\ step' # "ORDER"
      BY <1>4 DEF Write
    <2>2. buffer \subseteq table'
      BY <1>1, <1>4 DEF FillsFirst, RowsPassed, Of
    <2>3. table' \cup buffer' = table \cup buffer
      BY <1>1, <2>1, <2>2
    <2>4. RowsPassed' /\ OneRowEach'
      BY <1>1, <2>1, <2>3 DEF RowsPassed, OneRowEach
    <2>5. FillsFirst'
      BY <2>1 DEF FillsFirst
    <2>6. NoRowForgotten'
      BY <1>1, <1>4, <2>2 DEF NoRowForgotten, InBuffer, InTable
    <2> QED  BY <1>2, <2>4, <2>5, <2>6
  <1> QED  BY <1>3, <1>4

\* What landed in spite of the error is in the buffer still.
LEMMA FailedWriteKeepsRows ==
  ASSUME IngesterInv, NEW kind \in {"FILL", "ORDER"}, WriteFails(kind), UNCHANGED log
  PROVE  IngesterInv'
  <1> USE DEF IngesterInv
  <1>1. /\ step = kind /\ step' # "ORDER"
        /\ table \subseteq table' /\ table' \cup buffer' = table \cup buffer
        /\ UNCHANGED <<buffer, offset, life, lost>>
    BY DEF WriteFails, Kept, Written, Of
  <1>2. ReadersPlaced' /\ RowsPassed' /\ OneRowEach' /\ FillsFirst'
    BY <1>1 DEF ReadersPlaced, RowsPassed, OneRowEach, FillsFirst
  <1>3. NoRowForgotten'
    BY <1>1 DEF NoRowForgotten, InBuffer, InTable
  <1> QED  BY <1>2, <1>3

\* A new life reads from the start, under a number of its own.
LEMMA RestartKeepsRows ==
  ASSUME IngesterInv, Restart, UNCHANGED log
  PROVE  IngesterInv'
  <1> USE DEF IngesterInv
  <1>1. /\ step' = "pumping" /\ life' = life + 1 /\ buffer' = {}
        /\ offset' = [p \in Partitions |-> 0]
        /\ UNCHANGED table
    BY DEF Restart
  <1>2. ReadersPlaced'
    BY <1>1 DEF ReadersPlaced
  <1>3. RowsPassed'
    BY <1>1 DEF RowsPassed, ReadersPlaced
  <1>4. OneRowEach' /\ FillsFirst'
    BY <1>1 DEF OneRowEach, FillsFirst
  <1>5. NoRowForgotten'
    BY <1>1 DEF NoRowForgotten
  <1> QED  BY <1>2, <1>3, <1>4, <1>5

\* The steps that move no row and no reader.
LEMMA RestKeepsRows ==
  ASSUME IngesterInv, UNCHANGED <<log, offset, buffer, table, life, lost>>,
         step' # "ORDER" \/ step' = step, step' # "down" => step # "down"
  PROVE  IngesterInv'
  BY DEF IngesterInv, ReadersPlaced, RowsPassed, OneRowEach, FillsFirst, NoRowForgotten, InBuffer, InTable

\* Every step keeps the invariant.
LEMMA IngesterStepHolds == IngesterInv /\ [IngesterStep]_ingesterAll => IngesterInv'
  <1> SUFFICES ASSUME IngesterInv, [IngesterStep]_ingesterAll PROVE IngesterInv'
    OBVIOUS
  <1>1. ASSUME NEW p \in Partitions, Publish(p), UNCHANGED ingesterVars PROVE IngesterInv'
    BY <1>1, PublishKeepsRows
  <1>2. ASSUME NEW p \in Partitions, Fetch(p), UNCHANGED log PROVE IngesterInv'
    BY <1>2, FetchKeepsRows
  <1>3. ASSUME NEW kind \in {"FILL", "ORDER"}, Write(kind), UNCHANGED log PROVE IngesterInv'
    BY <1>3, WriteKeepsRows
  <1>4. ASSUME NEW kind \in {"FILL", "ORDER"}, WriteFails(kind), UNCHANGED log PROVE IngesterInv'
    BY <1>4, FailedWriteKeepsRows
  <1>5. CASE Restart /\ UNCHANGED log
    BY <1>5, RestartKeepsRows
  <1>6. CASE (FlushBegins \/ Cancel \/ Die \/ Tick) /\ UNCHANGED log
    BY <1>6, RestKeepsRows DEF FlushBegins, Cancel, Die, Tick
  <1>7. CASE UNCHANGED ingesterAll
    BY <1>7, RestKeepsRows DEF ingesterAll, ingesterVars
  <1> QED  BY <1>1, <1>2, <1>3, <1>4, <1>5, <1>6, <1>7 DEF IngesterStep, IngesterNext

\* The invariant holds throughout.
LEMMA IngesterHolds == IngesterSpec => []IngesterInv
  <1>1. IngesterSpec => LogInit /\ IngesterInit /\ [][IngesterStep]_ingesterAll
    BY PTL DEF IngesterSpec, IngesterStep, ingesterAll
  <1> QED  BY <1>1, IngesterStarts, IngesterStepHolds, PTL

\* However flushes fail halfway and are tried again, a record has one row in the
\* tables for each life of the process.
THEOREM RowsCountedOnce == IngesterSpec => []CountedOnce
  <1>1. IngesterInv => CountedOnce
    BY DEF IngesterInv, OneRowEach, CountedOnce
  <1> QED  BY <1>1, IngesterHolds, PTL

\* Whatever fails, what a living process has read is written or kept.
THEOREM RowsNotForgotten == IngesterSpec => []NoRowForgotten
  <1>1. IngesterInv => NoRowForgotten
    BY DEF IngesterInv
  <1> QED  BY <1>1, IngesterHolds, PTL

-----------------------------------------------------------------------------
(* Accounts. *)

AtWork(c) == at[c] \in {"funding", "entering"}

\* What a caller is making is an account of its label, funded so far as it says.
Making ==
    \A c \in Callers : AtWork(c) =>
      /\ mine[c] \in 1 .. Len(accounts)
      /\ accounts[mine[c]].label = Label[c]
      /\ accounts[mine[c]].funded <= Fundings[c]
      /\ at[c] = "entering" => c \in Logins /\ accounts[mine[c]].funded = Fundings[c]

\* It is nobody else's, and not entered.
Private ==
    \A c \in Callers : AtWork(c) =>
      /\ \A d \in Callers \ {c} : AtWork(d) => mine[d] # mine[c]
      /\ \A p \in People : users[p] # mine[c]

\* What is entered is the person's own, and funded in full.
Entered ==
    \A l \in Logins : users[Label[l]] > 0 =>
      /\ users[Label[l]] \in 1 .. Len(accounts)
      /\ accounts[users[Label[l]]] = [label |-> Label[l], funded |-> Fundings[l]]

LetIn == \A l \in Logins : at[l] = "in" => mine[l] = users[Label[l]] /\ mine[l] > 0

ProvisionInv == TypeOK /\ Making /\ Private /\ Entered /\ LetIn

\* Types hold at the start.
LEMMA ProvisionTypesStart == ProvisionInit => TypeOK
  BY DEF ProvisionInit, TypeOK, Stages

\* Every step keeps the types.
LEMMA ProvisionTypesStep == TypeOK /\ Making /\ [ProvisionNext]_provisionVars => TypeOK'
  <1> SUFFICES ASSUME TypeOK, Making, [ProvisionNext]_provisionVars PROVE TypeOK'
    OBVIOUS
  <1> USE DEF TypeOK, Stages, Callers, People
  <1>1. ASSUME NEW l \in Logins, LookUpUser(l) PROVE TypeOK'
    BY <1>1 DEF LookUpUser, Find, FindNone
  <1>2. ASSUME NEW l \in Logins, EnterUser(l) PROVE TypeOK'
    BY <1>2 DEF EnterUser, Enterable
  <1>3. ASSUME NEW s \in Starts, LookUpAccount(s) PROVE TypeOK'
    <2>1. DOMAIN accounts \subseteq Nat
      OBVIOUS
    <2>2. ASSUME NEW a \in Nat, Find(s, a) PROVE TypeOK'
      BY <2>2 DEF Find
    <2>3. CASE FindNone(s)
      BY <2>3 DEF FindNone
    <2> QED  BY <1>3, <2>1, <2>2, <2>3 DEF LookUpAccount
  <1>4. ASSUME NEW c \in Callers, OpenAccount(c) PROVE TypeOK'
    BY <1>4 DEF OpenAccount, Labels
  <1>5. ASSUME NEW c \in Callers, Fund(c) PROVE TypeOK'
    <2>1. at[c] = "funding" /\ mine[c] \in 1 .. Len(accounts)
      BY <1>5 DEF Fund, Making, AtWork
    <2>2. CASE accounts' = [accounts EXCEPT ![mine[c]].funded = @ + 1]
      <3>1. accounts[mine[c]] \in [label : Labels, funded : Nat]
        BY <2>1, ElementOfSeq
      <3>2. [accounts[mine[c]] EXCEPT !.funded = @ + 1] \in [label : Labels, funded : Nat]
        BY <3>1
      <3>3. accounts' \in Seq([label : Labels, funded : Nat])
        BY <2>1, <2>2, <3>2
      <3> QED  BY <1>5, <2>1, <3>3 DEF Fund
    <2>3. CASE accounts' = accounts
      BY <1>5, <2>3 DEF Fund
    <2> QED  BY <1>5, <2>2, <2>3 DEF Fund
  <1>6. ASSUME NEW c \in Callers, Interrupt(c) PROVE TypeOK'
    BY <1>6 DEF Interrupt
  <1>7. ASSUME NEW c \in Callers, Again(c) PROVE TypeOK'
    BY <1>7 DEF Again
  <1>8. ASSUME NEW s \in Starts, LookUpFails(s) PROVE TypeOK'
    BY <1>8 DEF LookUpFails
  <1>9. CASE UNCHANGED provisionVars
    BY <1>9 DEF provisionVars
  <1> QED  BY <1>1, <1>2, <1>3, <1>4, <1>5, <1>6, <1>7, <1>8, <1>9 DEF ProvisionNext

\* Nobody has an account at the start.
LEMMA ProvisionStarts == ProvisionInit => ProvisionInv
  <1> SUFFICES ASSUME ProvisionInit PROVE ProvisionInv
    OBVIOUS
  <1>1. Making /\ Private /\ LetIn
    BY DEF ProvisionInit, Making, Private, LetIn, AtWork, Callers
  <1>2. Entered
    BY DEF ProvisionInit, Entered, People
  <1> QED  BY <1>1, <1>2, ProvisionTypesStart DEF ProvisionInv

\* A step after which nobody works on an account who did not before, and which
\* leaves the tables alone, disturbs only who is let in.
LEMMA TablesKept ==
  ASSUME ProvisionInv, UNCHANGED <<accounts, users>>,
         \A c \in Callers : AtWork(c)' => AtWork(c) /\ at'[c] = at[c] /\ mine'[c] = mine[c]
  PROVE  Making' /\ Private' /\ Entered'
  <1>1. Making'
    BY DEF ProvisionInv, Making, AtWork
  <1>2. Private'
    BY DEF ProvisionInv, Private
  <1>3. Entered'
    BY DEF ProvisionInv, Entered
  <1> QED  BY <1>1, <1>2, <1>3

\* Who finds an account is let in to it.
LEMMA FindStep ==
  ASSUME ProvisionInv, NEW c \in Callers, at[c] = "looking", NEW a \in Nat, Find(c, a),
         c \in Logins => a = users[Label[c]] /\ a > 0
  PROVE  Making' /\ Private' /\ Entered' /\ LetIn'
  <1> USE DEF ProvisionInv, TypeOK
  <1>1. \A d \in Callers \ {c} : at'[d] = at[d] /\ mine'[d] = mine[d]
    BY DEF Find
  <1>2. at'[c] = "in" /\ mine'[c] = a /\ UNCHANGED <<accounts, users>>
    BY DEF Find
  <1>3. Making' /\ Private' /\ Entered'
    BY <1>1, <1>2, TablesKept DEF AtWork
  <1>4. LetIn'
    BY <1>1, <1>2 DEF LetIn, Callers
  <1> QED  BY <1>3, <1>4

\* Who gives up, or begins again, works on no account.
LEMMA StopStep ==
  ASSUME ProvisionInv, NEW c \in Callers, UNCHANGED <<accounts, users>>,
         \A d \in Callers \ {c} : at'[d] = at[d] /\ mine'[d] = mine[d],
         at'[c] \in {"looking", "opening", "refused"}
  PROVE  Making' /\ Private' /\ Entered' /\ LetIn'
  <1>1. Making' /\ Private' /\ Entered'
    BY TablesKept DEF AtWork
  <1>2. LetIn'
    BY DEF LetIn, ProvisionInv, Callers
  <1> QED  BY <1>1, <1>2

\* An account that is opened is new, and so nobody else's.
LEMMA OpenStep ==
  ASSUME ProvisionInv, NEW c \in Callers, OpenAccount(c)
  PROVE  Making' /\ Private' /\ Entered' /\ LetIn'
  <1> USE DEF ProvisionInv, TypeOK
  <1> DEFINE n == Len(accounts) + 1
  <1>1. /\ n \in Nat /\ n > 0
        /\ Len(accounts') = n
        /\ accounts'[n] = [label |-> Label[c], funded |-> 0]
        /\ \A a \in 1 .. Len(accounts) : accounts'[a] = accounts[a]
    BY DEF OpenAccount
  <1>2. /\ at'[c] = "funding" /\ mine'[c] = n /\ UNCHANGED users
        /\ \A d \in Callers \ {c} : at'[d] = at[d] /\ mine'[d] = mine[d]
    BY DEF OpenAccount
  <1> HIDE DEF n
  <1>3. Len(accounts) \in Nat /\ n = Len(accounts) + 1
    BY DEF n
  <1>4. Making'
    BY <1>1, <1>2, <1>3, ProvisionAssumption DEF Making, AtWork, ProvisionAssumption
  <1>5. ASSUME NEW l \in Logins, users[Label[l]] > 0
        PROVE  users[Label[l]] \in 1 .. Len(accounts) /\ users[Label[l]] # n
    <2>1. users[Label[l]] \in 1 .. Len(accounts)
      BY <1>5 DEF Entered
    <2> QED  BY <1>3, <2>1
  <1>6. \A p \in People : users[p] # n
    BY <1>1, <1>5 DEF People
  <1>7. Private'
    <2>1. \A d \in Callers \ {c} : AtWork(d) => mine[d] # n
      BY <1>3 DEF Making
    <2> QED  BY <1>2, <1>6, <2>1 DEF Private, AtWork
  <1>8. Entered'
    <2> SUFFICES ASSUME NEW l \in Logins, users[Label[l]] > 0
                 PROVE  /\ users[Label[l]] \in 1 .. n
                        /\ accounts'[users[Label[l]]]
                             = [label |-> Label[l], funded |-> Fundings[l]]
      BY <1>1, <1>2 DEF Entered
    <2>1. accounts[users[Label[l]]] = [label |-> Label[l], funded |-> Fundings[l]]
      BY DEF Entered
    <2> QED  BY <1>1, <1>3, <1>5, <2>1
  <1>9. LetIn'
    BY <1>2 DEF LetIn, Callers
  <1> QED  BY <1>4, <1>7, <1>8, <1>9

\* A deposit or a seed.
LEMMA FundStep ==
  ASSUME ProvisionInv, NEW c \in Callers, Fund(c), accounts[mine[c]].funded < Fundings[c]
  PROVE  Making' /\ Private' /\ Entered' /\ LetIn'
  <1> USE DEF ProvisionInv, TypeOK
  <1>1. /\ at[c] = "funding" /\ mine[c] \in 1 .. Len(accounts)
        /\ accounts[mine[c]].label = Label[c]
        /\ accounts' = [accounts EXCEPT ![mine[c]].funded = @ + 1]
        /\ UNCHANGED <<at, users, mine>>
    BY DEF Fund, Making, AtWork
  <1>2. accounts[mine[c]] \in [label : Labels, funded : Nat]
    BY <1>1, ElementOfSeq
  <1>3. /\ Len(accounts') = Len(accounts)
        /\ \A a \in 1 .. Len(accounts) : a # mine[c] => accounts'[a] = accounts[a]
        /\ accounts'[mine[c]].label = Label[c]
        /\ accounts'[mine[c]].funded = accounts[mine[c]].funded + 1
    BY <1>1, <1>2
  <1>4. Fundings[c] \in Nat
    BY ProvisionAssumption DEF ProvisionAssumption
  <1>5. Making'
    <2> SUFFICES ASSUME NEW d \in Callers, AtWork(d)
                 PROVE  /\ mine[d] \in 1 .. Len(accounts)
                        /\ accounts'[mine[d]].label = Label[d]
                        /\ accounts'[mine[d]].funded <= Fundings[d]
                        /\ at[d] = "entering"
                             => d \in Logins /\ accounts'[mine[d]].funded = Fundings[d]
      BY <1>1, <1>3 DEF Making, AtWork
    <2>1. CASE d = c
      BY <1>1, <1>2, <1>3, <1>4, <2>1
    <2>2. CASE d # c
      <3>1. mine[d] \in 1 .. Len(accounts) /\ mine[d] # mine[c]
        BY <1>1, <2>2 DEF Private, Making, AtWork
      <3> QED  BY <1>3, <3>1 DEF Making
    <2> QED  BY <2>1, <2>2
  <1>6. Private'
    BY <1>1 DEF Private, AtWork
  <1>7. Entered'
    <2> SUFFICES ASSUME NEW l \in Logins, users[Label[l]] > 0
                 PROVE  /\ users[Label[l]] \in 1 .. Len(accounts)
                        /\ accounts'[users[Label[l]]]
                             = [label |-> Label[l], funded |-> Fundings[l]]
      BY <1>1, <1>3 DEF Entered
    <2>1. users[Label[l]] # mine[c]
      BY <1>1 DEF Private, AtWork, People
    <2> QED  BY <1>3, <2>1 DEF Entered
  <1>8. LetIn'
    BY <1>1 DEF LetIn
  <1> QED  BY <1>5, <1>6, <1>7, <1>8

\* The account has what it is to have.
LEMMA FundedStep ==
  ASSUME ProvisionInv, NEW c \in Callers, Fund(c), ~(accounts[mine[c]].funded < Fundings[c])
  PROVE  Making' /\ Private' /\ Entered' /\ LetIn'
  <1> USE DEF ProvisionInv, TypeOK
  <1>1. /\ at[c] = "funding" /\ mine[c] \in 1 .. Len(accounts)
        /\ accounts[mine[c]].funded <= Fundings[c]
        /\ UNCHANGED <<accounts, users, mine>>
        /\ \A d \in Callers \ {c} : at'[d] = at[d]
        /\ at'[c] = IF c \in Logins THEN "entering" ELSE "in"
    BY DEF Fund, Making, AtWork
  <1>2. accounts[mine[c]] \in [label : Labels, funded : Nat]
    BY <1>1, ElementOfSeq
  <1>3. accounts[mine[c]].funded = Fundings[c]
    BY <1>1, <1>2, ProvisionAssumption DEF ProvisionAssumption
  <1>4. \A d \in Callers : AtWork(d)' => AtWork(d)
    BY <1>1 DEF AtWork
  <1>5. Making'
    BY <1>1, <1>3, <1>4 DEF Making, AtWork
  <1>6. Private'
    BY <1>1, <1>4 DEF Private
  <1>7. Entered'
    BY <1>1 DEF Entered
  <1>8. LetIn'
    BY <1>1 DEF LetIn, Callers
  <1> QED  BY <1>5, <1>6, <1>7, <1>8

\* The first who enters an account for a person is let in, any other refused.
LEMMA EnterStep ==
  ASSUME ProvisionInv, NEW l \in Logins, EnterUser(l)
  PROVE  Making' /\ Private' /\ Entered' /\ LetIn'
  <1> USE DEF ProvisionInv, TypeOK
  <1>1. /\ at[l] = "entering" /\ l \in Callers
        /\ UNCHANGED <<accounts, mine>>
        /\ \A d \in Callers \ {l} : at'[d] = at[d]
        /\ at'[l] \in {"in", "refused"}
    BY DEF EnterUser, Callers
  <1>2. /\ mine[l] \in 1 .. Len(accounts)
        /\ accounts[mine[l]].label = Label[l] /\ accounts[mine[l]].funded = Fundings[l]
    BY <1>1 DEF Making, AtWork
  <1>3. accounts[mine[l]] \in [label : Labels, funded : Nat]
    BY <1>2, ElementOfSeq
  <1>4. accounts[mine[l]] = [label |-> Label[l], funded |-> Fundings[l]]
    BY <1>2, <1>3
  <1>5. \A d \in Callers : AtWork(d)' => AtWork(d) /\ d # l /\ at'[d] = at[d]
    BY <1>1 DEF AtWork
  <1>6. Making'
    BY <1>1, <1>5 DEF Making
  <1>0. users[Label[l]] \in Nat
    BY DEF People
  <1>7. CASE users[Label[l]] > 0
    <2>1. UNCHANGED users /\ at'[l] = "refused"
      BY <1>0, <1>1, <1>7 DEF EnterUser, Enterable
    <2> QED  BY <1>1, <1>5, <1>6, <2>1 DEF Private, Entered, LetIn, Callers
  <1>8. CASE users[Label[l]] = 0
    <2>1. users' = [users EXCEPT ![Label[l]] = mine[l]] /\ at'[l] = "in"
      BY <1>1, <1>8 DEF EnterUser, Enterable
    <2>2. /\ users'[Label[l]] = mine[l]
          /\ \A p \in People : p # Label[l] => users'[p] = users[p]
      BY <2>1 DEF People
    <2>3. Private'
      BY <1>1, <1>5, <2>2 DEF Private, AtWork
    <2>4. Entered'
      <3> SUFFICES ASSUME NEW m \in Logins, users'[Label[m]] > 0
                   PROVE  /\ users'[Label[m]] \in 1 .. Len(accounts)
                          /\ accounts[users'[Label[m]]]
                               = [label |-> Label[m], funded |-> Fundings[m]]
        BY <1>1 DEF Entered
      <3>1. CASE Label[m] = Label[l]
        BY <1>2, <1>4, <2>2, <3>1, ProvisionAssumption DEF ProvisionAssumption
      <3>2. CASE Label[m] # Label[l]
        BY <2>2, <3>2 DEF Entered, People
      <3> QED  BY <3>1, <3>2
    <2>5. LetIn'
      <3> SUFFICES ASSUME NEW m \in Logins, at'[m] = "in"
                   PROVE  mine[m] = users'[Label[m]] /\ mine[m] > 0
        BY <1>1 DEF LetIn
      <3>1. CASE m = l
        BY <1>2, <2>2, <3>1
      <3>2. CASE m # l
        <4>1. mine[m] = users[Label[m]] /\ mine[m] > 0
          BY <1>1, <3>2 DEF LetIn, Callers
        <4>2. Label[m] # Label[l]
          BY <1>8, <4>1
        <4> QED  BY <2>2, <4>1, <4>2 DEF People
      <3> QED  BY <3>1, <3>2
    <2> QED  BY <1>6, <2>3, <2>4, <2>5
  <1> QED  BY <1>0, <1>7, <1>8

\* Every step keeps the invariant.
LEMMA ProvisionStepHolds == ProvisionInv /\ [ProvisionNext]_provisionVars => ProvisionInv'
  <1> SUFFICES ASSUME ProvisionInv, [ProvisionNext]_provisionVars
               PROVE  Making' /\ Private' /\ Entered' /\ LetIn'
    BY ProvisionTypesStep DEF ProvisionInv
  <1>0. Logins \subseteq Callers /\ Starts \subseteq Callers /\ TypeOK
    BY DEF Callers, ProvisionInv
  <1>1. ASSUME NEW l \in Logins, LookUpUser(l) PROVE Making' /\ Private' /\ Entered' /\ LetIn'
    <2>1. users[Label[l]] \in Nat
      BY <1>0 DEF TypeOK, People
    <2>2. CASE users[Label[l]] > 0 /\ Find(l, users[Label[l]])
      BY <1>0, <1>1, <2>1, <2>2, FindStep DEF LookUpUser
    <2>3. CASE FindNone(l)
      BY <1>0, <2>3, StopStep DEF FindNone, TypeOK
    <2> QED  BY <1>1, <2>2, <2>3 DEF LookUpUser
  <1>2. ASSUME NEW l \in Logins, EnterUser(l) PROVE Making' /\ Private' /\ Entered' /\ LetIn'
    BY <1>2, EnterStep
  <1>3. ASSUME NEW s \in Starts, LookUpAccount(s)
        PROVE  Making' /\ Private' /\ Entered' /\ LetIn'
    <2>1. DOMAIN accounts \subseteq Nat /\ s \notin Logins
      BY <1>0, ProvisionAssumption DEF TypeOK, ProvisionAssumption
    <2>2. ASSUME NEW a \in Nat, Find(s, a) PROVE Making' /\ Private' /\ Entered' /\ LetIn'
      BY <1>0, <1>3, <2>1, <2>2, FindStep DEF LookUpAccount
    <2>3. CASE FindNone(s)
      BY <1>0, <2>3, StopStep DEF FindNone, TypeOK
    <2> QED  BY <1>3, <2>1, <2>2, <2>3 DEF LookUpAccount
  <1>4. ASSUME NEW c \in Callers, OpenAccount(c) PROVE Making' /\ Private' /\ Entered' /\ LetIn'
    BY <1>4, OpenStep
  <1>5. ASSUME NEW c \in Callers, Fund(c) PROVE Making' /\ Private' /\ Entered' /\ LetIn'
    BY <1>5, FundStep, FundedStep
  <1>6. ASSUME NEW c \in Callers, Interrupt(c) PROVE Making' /\ Private' /\ Entered' /\ LetIn'
    BY <1>0, <1>6, StopStep DEF Interrupt, TypeOK
  <1>7. ASSUME NEW c \in Callers, Again(c) PROVE Making' /\ Private' /\ Entered' /\ LetIn'
    BY <1>0, <1>7, StopStep DEF Again, TypeOK
  <1>8. ASSUME NEW s \in Starts, LookUpFails(s)
        PROVE  Making' /\ Private' /\ Entered' /\ LetIn'
    <2>1. s \notin Logins
      BY ProvisionAssumption DEF ProvisionAssumption
    <2> QED  BY <1>0, <1>8, <2>1, StopStep DEF LookUpFails, TypeOK
  <1>9. CASE UNCHANGED provisionVars
    BY <1>9 DEF provisionVars, ProvisionInv, Making, Private, Entered, LetIn, AtWork
  <1> QED  BY <1>1, <1>2, <1>3, <1>4, <1>5, <1>6, <1>7, <1>8, <1>9 DEF ProvisionNext

\* Types, and that callers are where the code can be.
THEOREM ProvisionTypes == ProvisionSpec => []TypeOK
  <1>1. ProvisionInv => TypeOK
    BY DEF ProvisionInv
  <1> QED  BY <1>1, ProvisionStarts, ProvisionStepHolds, PTL DEF ProvisionSpec

\* However many logins of a person race, fail and are repeated, whoever is let in
\* has the one account of that person, funded once.
THEOREM LetInOnce == ProvisionSpec => []OneAccountEach
  <1>1. ProvisionInv => OneAccountEach
    BY DEF ProvisionInv, OneAccountEach, LetIn, Entered
  <1> QED  BY <1>1, ProvisionStarts, ProvisionStepHolds, PTL DEF ProvisionSpec

-----------------------------------------------------------------------------
(* The market maker. *)

CancelCalls == [op : {"CANCEL"}, id : Quotes]
PlaceCalls  == [op : {"PLACE"}, side : Sides, at : Int]
VenueRecords     == [op : {"PLACE", "CANCEL"}, id : Quotes]
Statuses    == {"NONE", "ACCEPTED", "REJECTED", "PENDING_CANCEL", "DONE"}

MakerTypes ==
    /\ mark \in Nat /\ ref \in Nat /\ seq \in Nat
    /\ resting \in Seq(Quotes)
    /\ calls \in Seq(CancelCalls \cup PlaceCalls)
    /\ status \in [Quotes -> Statuses] /\ price \in [Quotes -> Int]
    /\ inbound \in Seq(VenueRecords)
    /\ book \subseteq Quotes /\ gone \subseteq Quotes

IsPlace(i, q)  == inbound[i] = [op |-> "PLACE", id |-> q]
IsCancel(i, q) == inbound[i] = [op |-> "CANCEL", id |-> q]

\* Calls are made for a price, and quotes are taken back before others are placed.
CallsOK ==
    /\ ref = 0 => calls = <<>>
    /\ \A i, j \in 1 .. Len(calls) : i < j /\ calls[i].op = "PLACE" => calls[j].op = "PLACE"

\* A quote of this life has a number that was used.
NumbersOK == \A q \in Quotes : status[q] = "ACCEPTED" => q[2] <= seq \/ q \in slipped

\* A quote enters the log and the book once, after which it is gone; a cancel
\* follows the quote it cancels, and a quote that is not gone is live or has its
\* cancel on the way.
VenueOK ==
    /\ \A q \in Quotes : status[q] \in {"NONE", "REJECTED"} =>
         q \notin book \cup gone /\ \A i \in 1 .. Len(inbound) : inbound[i].id # q
    /\ book \cap gone = {}
    /\ \A q \in Quotes : \A i \in 1 .. Len(inbound) : IsPlace(i, q) =>
         /\ q \notin book \cup gone
         /\ \A j \in 1 .. Len(inbound) : IsPlace(j, q) => i = j
         /\ \A j \in 1 .. i : ~IsCancel(j, q)
         /\ status[q] = "ACCEPTED" \/ \E j \in 1 .. Len(inbound) : IsCancel(j, q)
    /\ \A q \in book : status[q] = "ACCEPTED" \/ \E j \in 1 .. Len(inbound) : IsCancel(j, q)

\* EveryQuoteWatched, place by place.
WatchedOK ==
    \A q \in Quotes : status[q] = "ACCEPTED" =>
      \/ \E i \in 1 .. Len(resting) : resting[i] = q
      \/ \E i \in 1 .. Len(calls) : calls[i].op = "CANCEL" /\ calls[i].id = q
      \/ q \in slipped

WatchInv == MakerTypes /\ CallsOK /\ NumbersOK /\ VenueOK /\ WatchedOK

\* A price on its side's side of another.
Beside(side, spot, p) == IF side = "BUY" THEN spot < p ELSE spot > p

\* Whether the one would trade with the other.
Meets(id, q) ==
    \/ id[1] = "BUY" /\ q[1] = "SELL" /\ price[q] <= price[id]
    \/ id[1] = "SELL" /\ q[1] = "BUY" /\ price[q] >= price[id]

\* What is to be placed, and what rests, is quoted around one price.
AroundOK ==
    /\ \A i \in 1 .. Len(calls) : calls[i].op = "PLACE" => Beside(calls[i].side, calls[i].at, ref)
    /\ ref > 0 => \A i \in 1 .. Len(resting) :
         resting[i] \in slipped \/ Beside(resting[i][1], price[resting[i]], ref)

\* Whatever a quote would meet is cancelled ahead of it.
ApartOK ==
    \A id \in Quotes \ slipped : \A i \in 1 .. Len(inbound) : IsPlace(i, id) =>
      \A q \in Quotes \ slipped :
        Meets(id, q) /\ (q \in book \/ \E k \in 1 .. i : IsPlace(k, q))
          => \E j \in 1 .. i : IsCancel(j, q)

MeetInv == WatchInv /\ AroundOK /\ ApartOK /\ OwnQuotesNeverMeet

-----------------------------------------------------------------------------
\* The ladder is made of quotes, each on its side's side of the price if there is
\* a spread.
LEMMA LadderType ==
    ASSUME NEW p \in Nat \ {0}
    PROVE  /\ Ladder(p) \in Seq(PlaceCalls)
           /\ SpreadBps > 0 => \A k \in 1 .. Len(Ladder(p)) :
                Beside(Ladder(p)[k].side, Ladder(p)[k].at, p)
  <1> USE MarketMakerAssumption DEF MarketMakerAssumption
  <1>1. ASSUME NEW i \in Nat \ {0}
        PROVE  /\ Bid(p, i) \in PlaceCalls /\ Ask(p, i) \in PlaceCalls
               /\ SpreadBps > 0 => Bid(p, i).at < p /\ Ask(p, i).at > p
               /\ Bid(p, i).side = "BUY" /\ Ask(p, i).side = "SELL"
    <2>1. PICK o : o = Offset(i)
      OBVIOUS
    <2>2. o \in Nat /\ o >= SpreadBps
      <3>1. (i - 1) * LevelStep \in Nat
        OBVIOUS
      <3> QED BY <2>1, <3>1 DEF Offset
    <2>3. FeeBps(p, o) \in Nat
      BY <2>2, FeeType
    <2>4. o > 0 => FeeBps(p, o) >= 1
      BY <2>2, FeePositive
    <2> QED BY <2>1, <2>2, <2>3, <2>4 DEF Bid, Ask, PlaceCalls, Sides, SubBps, ApplyBps
  <1> DEFINE bids == Cardinality({i \in 1 .. Levels : Bid(p, i).at > 0})
  <1>2. bids \in Nat
    <2>1. IsFiniteSet(1 .. Levels) /\ {i \in 1 .. Levels : Bid(p, i).at > 0} \in SUBSET (1 .. Levels)
      <3>1. Levels \in Int /\ 1 \in Int
        OBVIOUS
      <3>2. IsFiniteSet(1 .. Levels)
        BY <3>1, FS_Interval
      <3> QED BY <3>2
    <2> QED BY <2>1, FS_Subset, FS_CardinalityType
  <1>3. /\ Ladder(p) = [k \in 1 .. Levels + bids |->
                IF k > 2 * bids THEN Ask(p, k - bids)
                ELSE IF k % 2 = 1 THEN Bid(p, (k + 1) \div 2) ELSE Ask(p, k \div 2)]
    BY DEF Ladder
  <1> HIDE DEF bids
  <1>4. ASSUME NEW k \in 1 .. Levels + bids
        PROVE  \E i \in Nat \ {0} : Ladder(p)[k] \in {Bid(p, i), Ask(p, i)}
    <2>1. k > 2 * bids => k - bids \in Nat \ {0}
      BY <1>2
    <2>2. (k + 1) \div 2 \in Nat \ {0} /\ (k % 2 # 1 => k \div 2 \in Nat \ {0})
      BY <1>2
    <2> QED BY <1>3, <2>1, <2>2
  <1>5. \A k \in 1 .. Levels + bids : Ladder(p)[k] \in PlaceCalls
    BY <1>1, <1>4
  <1>6. Ladder(p) \in Seq(PlaceCalls) /\ Len(Ladder(p)) = Levels + bids
    BY <1>2, <1>3, <1>5
  <1>7. ASSUME SpreadBps > 0, NEW k \in 1 .. Levels + bids
        PROVE  Beside(Ladder(p)[k].side, Ladder(p)[k].at, p)
    <2>1. PICK i \in Nat \ {0} : Ladder(p)[k] \in {Bid(p, i), Ask(p, i)}
      BY <1>4
    <2> QED BY <1>1, <1>7, <2>1 DEF Beside
  <1> QED BY <1>6, <1>7

\* A requote takes back what rests, then places the ladder.
LEMMA RequoteType ==
    ASSUME MakerTypes, NEW p \in Nat \ {0}
    PROVE  /\ Requote(p) \in Seq(CancelCalls \cup PlaceCalls)
           /\ Len(Requote(p)) = Len(resting) + Len(Ladder(p))
           /\ Len(resting) \in Nat /\ Len(Ladder(p)) \in Nat
           /\ \A i \in 1 .. Len(resting) : Requote(p)[i].op = "CANCEL" /\ Requote(p)[i].id = resting[i]
           /\ \A i \in Len(resting) + 1 .. Len(resting) + Len(Ladder(p)) :
                Requote(p)[i].op = "PLACE" /\ Requote(p)[i] = Ladder(p)[i - Len(resting)]
  <1>1. PICK c, l, n : c = Cancels(resting) /\ l = Ladder(p) /\ n = Len(resting)
    OBVIOUS
  <1>2. n \in Nat /\ DOMAIN resting = 1 .. n /\ \A i \in 1 .. n : resting[i] \in Quotes
    BY <1>1 DEF MakerTypes
  <1>3. /\ c \in Seq(CancelCalls \cup PlaceCalls) /\ Len(c) = n
        /\ \A i \in 1 .. n : c[i].op = "CANCEL" /\ c[i].id = resting[i]
    <2>1. c = [i \in 1 .. n |-> [op |-> "CANCEL", id |-> resting[i]]]
      BY <1>1, <1>2 DEF Cancels
    <2>2. \A i \in 1 .. n : [op |-> "CANCEL", id |-> resting[i]] \in CancelCalls \cup PlaceCalls
      BY <1>2 DEF CancelCalls
    <2> QED BY <1>2, <2>1, <2>2
  <1>4. l \in Seq(CancelCalls \cup PlaceCalls) /\ Len(l) \in Nat /\ \A i \in 1 .. Len(l) : l[i].op = "PLACE"
    <2>1. l \in Seq(PlaceCalls)
      BY <1>1, LadderType
    <2>2. \A i \in 1 .. Len(l) : l[i] \in PlaceCalls
      BY <2>1
    <2> QED BY <2>1, <2>2, SeqMonotonic DEF PlaceCalls
  <1>5. /\ c \o l \in Seq(CancelCalls \cup PlaceCalls) /\ Len(c \o l) = n + Len(l)
        /\ \A i \in 1 .. n + Len(l) : (c \o l)[i] = IF i <= n THEN c[i] ELSE l[i - n]
    BY <1>3, <1>4, ConcatProperties
  <1>6. Requote(p) = c \o l
    BY <1>1 DEF Requote
  <1>7. PICK r : r = Requote(p)
    OBVIOUS
  <1>8. \A i \in 1 .. n : r[i].op = "CANCEL" /\ r[i].id = resting[i]
    BY <1>2, <1>3, <1>4, <1>5, <1>6, <1>7
  <1>9. \A i \in n + 1 .. n + Len(l) : r[i] = l[i - n] /\ r[i].op = "PLACE"
    <2>1. \A i \in n + 1 .. n + Len(l) : i \in 1 .. n + Len(l) /\ ~(i <= n) /\ i - n \in 1 .. Len(l)
      BY <1>2, <1>4
    <2> QED BY <1>4, <1>5, <1>6, <1>7, <2>1
  <1> QED BY <1>1, <1>2, <1>4, <1>5, <1>6, <1>7, <1>8, <1>9

\* The next call is made, whatever comes of it.
LEMMA NextCall ==
    ASSUME MakerTypes, CallsOK, calls # <<>>, calls' = Tail(calls), ref' = ref
    PROVE  /\ Head(calls) = calls[1] /\ Len(calls) \in Nat \ {0} /\ ref > 0
           /\ Head(calls) \in CancelCalls \cup PlaceCalls
           /\ calls' \in Seq(CancelCalls \cup PlaceCalls) /\ CallsOK'
           /\ Len(calls') = Len(calls) - 1
           /\ \A i \in 1 .. Len(calls') : i + 1 \in 1 .. Len(calls) /\ calls'[i] = calls[i + 1]
           /\ \A i \in 1 .. Len(calls) : i = 1 \/ (i - 1 \in 1 .. Len(calls') /\ calls'[i - 1] = calls[i])
           /\ Head(calls).op = "PLACE" => \A i \in 1 .. Len(calls) : calls[i].op = "PLACE"
  <1>1. /\ Head(calls) = calls[1] /\ Len(calls) \in Nat \ {0}
        /\ Head(calls) \in CancelCalls \cup PlaceCalls
    BY DEF MakerTypes
  <1>2. /\ calls' \in Seq(CancelCalls \cup PlaceCalls) /\ Len(calls') = Len(calls) - 1
        /\ \A i \in 1 .. Len(calls') : calls'[i] = calls[i + 1]
    BY HeadTailProperties DEF MakerTypes
  <1>3. ref > 0
    BY DEF CallsOK, MakerTypes
  <1>4. \A i \in 1 .. Len(calls') : i + 1 \in 1 .. Len(calls)
    BY <1>1, <1>2
  <1>5. ASSUME NEW i \in 1 .. Len(calls), i # 1
        PROVE  i - 1 \in 1 .. Len(calls') /\ calls'[i - 1] = calls[i]
    <2>1. i - 1 \in 1 .. Len(calls') /\ (i - 1) + 1 = i
      BY <1>1, <1>2, <1>5
    <2> QED BY <1>2, <2>1
  <1>6. CallsOK'
    <2>1. ASSUME NEW i \in 1 .. Len(calls'), NEW j \in 1 .. Len(calls'), i < j, calls'[i].op = "PLACE"
          PROVE  calls'[j].op = "PLACE"
      <3>1. i + 1 \in 1 .. Len(calls) /\ j + 1 \in 1 .. Len(calls) /\ i + 1 < j + 1
        BY <1>4, <2>1
      <3> QED BY <1>2, <2>1, <3>1 DEF CallsOK
    <2>2. ref' # 0
      BY <1>3
    <2> QED BY <2>1, <2>2 DEF CallsOK
  <1>7. Head(calls).op = "PLACE" => \A i \in 1 .. Len(calls) : calls[i].op = "PLACE"
    <2> SUFFICES ASSUME Head(calls).op = "PLACE", NEW i \in 1 .. Len(calls), i # 1
                 PROVE  calls[i].op = "PLACE"
      BY <1>1
    <2>1. 1 \in 1 .. Len(calls) /\ 1 < i
      BY <1>1
    <2> QED BY <1>1, <2>1 DEF CallsOK
  <1> QED BY <1>1, <1>2, <1>3, <1>4, <1>5, <1>6, <1>7

\* The venue's part hangs on the orders and the book alone.
LEMMA VenueSame ==
    ASSUME VenueOK, UNCHANGED <<status, inbound, book, gone>>
    PROVE  VenueOK'
  BY DEF VenueOK, IsPlace, IsCancel

\* A tick, a requote and its end touch no order.
LEMMA QuoteWatch ==
    ASSUME WatchInv, PublishMark \/ QuoteOnce \/ QuoteDone
    PROVE  WatchInv'
  <1> USE DEF WatchInv
  <1>1. UNCHANGED <<seq, status, price, inbound, book, gone, slipped>>
    BY DEF PublishMark, QuoteOnce, QuoteDone, orderVars, venueVars, faultVars, deskVars
  <1>2. VenueOK' /\ NumbersOK'
    BY <1>1, VenueSame DEF NumbersOK
  <1>3. CASE PublishMark
    <2>1. UNCHANGED <<resting, calls, ref>> /\ mark' \in Nat
      BY <1>3, MarketMakerAssumption DEF PublishMark, deskVars, MarketMakerAssumption
    <2> QED BY <1>1, <1>2, <2>1 DEF MakerTypes, CallsOK, WatchedOK
  <1>4. CASE QuoteDone
    <2>1. UNCHANGED <<mark, resting, calls>> /\ ref' = 0 /\ calls = <<>>
      BY <1>4 DEF QuoteDone
    <2> QED BY <1>1, <1>2, <2>1 DEF MakerTypes, CallsOK, WatchedOK
  <1>5. CASE QuoteOnce
    <2>1. /\ mark \in Nat \ {0} /\ ref = 0 /\ mark' = mark /\ ref' = mark
          /\ calls' = Requote(mark) /\ resting' = <<>>
      BY <1>5 DEF QuoteOnce, MakerTypes
    <2>2. /\ calls' \in Seq(CancelCalls \cup PlaceCalls)
          /\ Len(calls') = Len(resting) + Len(Ladder(mark))
          /\ Len(resting) \in Nat /\ Len(Ladder(mark)) \in Nat
          /\ \A i \in 1 .. Len(resting) : calls'[i].op = "CANCEL" /\ calls'[i].id = resting[i]
          /\ \A i \in Len(resting) + 1 .. Len(resting) + Len(Ladder(mark)) : calls'[i].op = "PLACE"
      BY <2>1, RequoteType
    <2>4. MakerTypes'
      BY <1>1, <2>1, <2>2 DEF MakerTypes
    <2>5. CallsOK'
      BY <2>1, <2>2 DEF CallsOK
    <2>6. WatchedOK'
      <3> SUFFICES ASSUME NEW q \in Quotes, status[q] = "ACCEPTED", q \notin slipped
                   PROVE  \E i \in 1 .. Len(calls') : calls'[i].op = "CANCEL" /\ calls'[i].id = q
        BY <1>1 DEF WatchedOK
      <3>1. Len(calls) = 0
        BY <2>1 DEF CallsOK
      <3>2. PICK i \in 1 .. Len(resting) : resting[i] = q
        BY <3>1 DEF WatchedOK
      <3>3. i \in 1 .. Len(calls')
        BY <2>2
      <3> QED BY <2>2, <3>2, <3>3
    <2> QED BY <1>2, <2>4, <2>5, <2>6
  <1> QED BY <1>3, <1>4, <1>5

\* A cancel of an accepted quote goes to the end of the log.
LEMMA CancelVenue ==
    ASSUME MakerTypes, VenueOK, NEW id \in Quotes, status[id] = "ACCEPTED",
           status' = [status EXCEPT ![id] = "PENDING_CANCEL"],
           Len(inbound) \in Nat, Len(inbound') = Len(inbound) + 1,
           \A i \in 1 .. Len(inbound) : inbound'[i] = inbound[i],
           inbound'[Len(inbound) + 1] = [op |-> "CANCEL", id |-> id],
           UNCHANGED <<book, gone>>
    PROVE  VenueOK'
  <1>1. PICK n : n = Len(inbound) + 1
    OBVIOUS
  <1>2. n \in Nat /\ Len(inbound') = n /\ \A i \in 1 .. n : i \in 1 .. Len(inbound) \/ i = n
    BY <1>1
  <1>3. \A i \in 1 .. Len(inbound) : i \in 1 .. n
    BY <1>1
  <1>4. IsCancel(n, id)' /\ \A q : ~IsPlace(n, q)'
    BY <1>1 DEF IsCancel, IsPlace
  <1>5. \A i \in 1 .. Len(inbound) : \A q : (IsPlace(i, q)' <=> IsPlace(i, q)) /\ (IsCancel(i, q)' <=> IsCancel(i, q))
    BY DEF IsPlace, IsCancel
  <1>6. \A q \in Quotes : status'[q] = IF q = id THEN "PENDING_CANCEL" ELSE status[q]
    BY DEF MakerTypes
  <1>7. \A q \in Quotes : q # id => (status[q] = "ACCEPTED" => status'[q] = "ACCEPTED")
    BY <1>6
  <1>8. n \in 1 .. n
    BY <1>2
  <1>9. ASSUME NEW q \in Quotes, status'[q] \in {"NONE", "REJECTED"}
        PROVE  q \notin book' \cup gone' /\ \A i \in 1 .. n : inbound'[i].id # q
    <2>1. q # id /\ status[q] \in {"NONE", "REJECTED"}
      BY <1>6, <1>9
    <2> QED BY <1>1, <1>2, <2>1 DEF VenueOK
  <1>10. ASSUME NEW q \in Quotes, NEW i \in 1 .. n, IsPlace(i, q)'
         PROVE  /\ q \notin book' \cup gone'
                /\ \A j \in 1 .. n : IsPlace(j, q)' => i = j
                /\ \A j \in 1 .. i : ~IsCancel(j, q)'
                /\ status'[q] = "ACCEPTED" \/ \E j \in 1 .. n : IsCancel(j, q)'
    <2>1. i \in 1 .. Len(inbound) /\ IsPlace(i, q)
      BY <1>2, <1>4, <1>5, <1>10
    <2>2. \A j \in 1 .. i : j \in 1 .. Len(inbound)
      BY <2>1
    <2>3. \A j \in 1 .. n : IsPlace(j, q)' => i = j
      BY <1>2, <1>4, <1>5, <2>1 DEF VenueOK
    <2>4. \A j \in 1 .. i : ~IsCancel(j, q)'
      BY <1>5, <2>1, <2>2 DEF VenueOK
    <2>5. status'[q] = "ACCEPTED" \/ \E j \in 1 .. n : IsCancel(j, q)'
      <3>1. CASE q = id
        BY <1>4, <1>8, <3>1
      <3>2. CASE q # id
        <4>1. status[q] = "ACCEPTED" \/ \E j \in 1 .. Len(inbound) : IsCancel(j, q)
          BY <2>1 DEF VenueOK
        <4> QED BY <1>3, <1>5, <1>7, <3>2, <4>1
      <3> QED BY <3>1, <3>2
    <2> QED BY <2>1, <2>3, <2>4, <2>5 DEF VenueOK
  <1>11. ASSUME NEW q \in book'
         PROVE  status'[q] = "ACCEPTED" \/ \E j \in 1 .. n : IsCancel(j, q)'
    <2>1. CASE q = id
      BY <1>4, <1>8, <2>1
    <2>2. CASE q # id
      <3>1. q \in Quotes /\ q \in book /\ (status[q] = "ACCEPTED" \/ \E j \in 1 .. Len(inbound) : IsCancel(j, q))
        BY DEF VenueOK, MakerTypes
      <3> QED BY <1>3, <1>5, <1>7, <2>2, <3>1
    <2> QED BY <2>1, <2>2
  <1> QED BY <1>2, <1>9, <1>10, <1>11 DEF VenueOK

\* A cancel that is asked for is on its way; one that fails lets the quote slip.
LEMMA CancelWatch ==
    ASSUME WatchInv, CancelQuote \/ CancelFails
    PROVE  WatchInv'
  <1> USE DEF WatchInv
  <1>1. /\ calls # <<>> /\ Head(calls).op = "CANCEL" /\ calls' = Tail(calls)
        /\ UNCHANGED <<mark, seq, resting, ref, price, book, gone>>
    BY DEF CancelQuote, CancelFails, Calling, orderVars, venueVars
  <1>2. PICK id : id = Head(calls).id
    OBVIOUS
  <1>3. id \in Quotes /\ Head(calls) = calls[1] /\ CallsOK'
        /\ calls' \in Seq(CancelCalls \cup PlaceCalls)
        /\ \A i \in 1 .. Len(calls) : i = 1 \/ (i - 1 \in 1 .. Len(calls') /\ calls'[i - 1] = calls[i])
    BY <1>1, <1>2, NextCall DEF CancelCalls, PlaceCalls
  <1>4. ASSUME NEW q \in Quotes, q # id, NEW i \in 1 .. Len(calls), calls[i].op = "CANCEL", calls[i].id = q
        PROVE  \E j \in 1 .. Len(calls') : calls'[j].op = "CANCEL" /\ calls'[j].id = q
    BY <1>2, <1>3, <1>4
  <1>5. CASE CancelFails
    <2>1. UNCHANGED <<status, inbound>> /\ slipped' = slipped \cup {id}
      BY <1>2, <1>5 DEF CancelFails, orderVars
    <2>2. MakerTypes'
      BY <1>1, <1>3, <2>1 DEF MakerTypes
    <2>3. VenueOK' /\ NumbersOK'
      BY <1>1, <2>1, VenueSame DEF NumbersOK
    <2>4. WatchedOK'
      BY <1>1, <1>4, <2>1 DEF WatchedOK
    <2> QED BY <1>3, <2>2, <2>3, <2>4
  <1>6. CASE CancelQuote /\ status[id] # "ACCEPTED"
    <2>1. UNCHANGED <<status, inbound, slipped>>
      BY <1>2, <1>6 DEF CancelQuote, faultVars
    <2>2. MakerTypes'
      BY <1>1, <1>3, <2>1 DEF MakerTypes
    <2>3. VenueOK' /\ NumbersOK'
      BY <1>1, <2>1, VenueSame DEF NumbersOK
    <2>4. WatchedOK'
      BY <1>1, <1>4, <1>6, <2>1 DEF WatchedOK
    <2> QED BY <1>3, <2>2, <2>3, <2>4
  <1>7. CASE CancelQuote /\ status[id] = "ACCEPTED"
    <2>1. /\ status' = [status EXCEPT ![id] = "PENDING_CANCEL"]
          /\ inbound' = Append(inbound, [op |-> "CANCEL", id |-> id]) /\ slipped' = slipped
      BY <1>2, <1>7 DEF CancelQuote, faultVars
    <2>2. status' \in [Quotes -> Statuses] /\ inbound' \in Seq(VenueRecords)
      BY <1>3, <2>1 DEF MakerTypes, Statuses, VenueRecords
    <2>3. MakerTypes'
      BY <1>1, <1>3, <2>2 DEF MakerTypes
    <2>4. /\ Len(inbound) \in Nat /\ Len(inbound') = Len(inbound) + 1
          /\ \A i \in 1 .. Len(inbound) : inbound'[i] = inbound[i]
          /\ inbound'[Len(inbound) + 1] = [op |-> "CANCEL", id |-> id]
      BY <1>3, <2>1 DEF MakerTypes, VenueRecords
    <2>5. NumbersOK'
      BY <1>1, <2>1 DEF NumbersOK, MakerTypes
    <2>6. WatchedOK'
      BY <1>1, <1>4, <2>1 DEF WatchedOK, MakerTypes
    <2>7. VenueOK'
      BY <1>1, <1>3, <1>7, <2>1, <2>4, CancelVenue
    <2> QED BY <1>3, <2>3, <2>5, <2>6, <2>7
  <1> QED BY <1>5, <1>6, <1>7

\* A quote that is accepted goes to the end of the log; one that is refused, or
\* whose number was used before, changes nothing there.
LEMMA SubmittedVenue ==
    ASSUME MakerTypes, VenueOK, NEW id \in Quotes, NEW spot \in Int, Submitted(id, spot),
           UNCHANGED <<book, gone>>
    PROVE  /\ VenueOK'
           /\ status' \in [Quotes -> Statuses] /\ price' \in [Quotes -> Int] /\ inbound' \in Seq(VenueRecords)
           /\ \A q \in Quotes : q # id \/ status[q] # "NONE" =>
                status'[q] = status[q] /\ price'[q] = price[q]
           /\ status[id] = "NONE" => price'[id] = spot
           /\ \/ inbound' = inbound
              \/ status[id] = "NONE" /\ inbound' = Append(inbound, [op |-> "PLACE", id |-> id])
  <1>1. CASE status[id] # "NONE"
    BY <1>1, VenueSame DEF Submitted, orderVars, MakerTypes
  <1>2. CASE status[id] = "NONE" /\ inbound' = inbound /\ status' = [status EXCEPT ![id] = "REJECTED"]
    <2>1. price' = [price EXCEPT ![id] = spot]
      BY <1>2 DEF Submitted
    <2>2. status' \in [Quotes -> Statuses] /\ price' \in [Quotes -> Int] /\ inbound' \in Seq(VenueRecords)
      BY <1>2, <2>1 DEF MakerTypes, Statuses
    <2>3. \A q \in Quotes : /\ status[q] # "NONE" => status'[q] = status[q] /\ price'[q] = price[q]
                            /\ q # id => status'[q] = status[q] /\ price'[q] = price[q]
                            /\ status'[q] \in {"NONE", "REJECTED"} => status[q] \in {"NONE", "REJECTED"}
                            /\ status[q] = "ACCEPTED" => status'[q] = "ACCEPTED"
      BY <1>2, <2>1 DEF MakerTypes
    <2>4. VenueOK'
      BY <1>2, <2>3 DEF VenueOK, IsPlace, IsCancel, MakerTypes
    <2> QED BY <1>2, <2>1, <2>2, <2>3, <2>4 DEF MakerTypes
  <1>3. CASE /\ status[id] = "NONE" /\ status' = [status EXCEPT ![id] = "ACCEPTED"]
             /\ inbound' = Append(inbound, [op |-> "PLACE", id |-> id])
    <2>1. price' = [price EXCEPT ![id] = spot]
      BY <1>3 DEF Submitted
    <2>2. [op |-> "PLACE", id |-> id] \in VenueRecords
      BY DEF VenueRecords
    <2>3. status' \in [Quotes -> Statuses] /\ price' \in [Quotes -> Int] /\ inbound' \in Seq(VenueRecords)
      BY <1>3, <2>1, <2>2 DEF MakerTypes, Statuses
    <2>4. PICK n : n = Len(inbound) + 1
      OBVIOUS
    <2>5. /\ n \in Nat /\ Len(inbound') = n /\ n \in 1 .. n /\ n \notin 1 .. Len(inbound)
          /\ \A i \in 1 .. n : i \in 1 .. Len(inbound) \/ i = n
          /\ \A i \in 1 .. Len(inbound) : i \in 1 .. n
          /\ \A i \in 1 .. Len(inbound) : inbound'[i] = inbound[i]
          /\ inbound'[n] = [op |-> "PLACE", id |-> id]
      BY <1>3, <2>2, <2>4 DEF MakerTypes
    <2>6. inbound'[n].id = id /\ IsPlace(n, id)' /\ (\A q : ~IsCancel(n, q)')
          /\ (\A q : IsPlace(n, q)' => q = id)
      BY <2>5 DEF IsPlace, IsCancel
    <2>7. \A i \in 1 .. Len(inbound) : \A q : (IsPlace(i, q)' <=> IsPlace(i, q)) /\ (IsCancel(i, q)' <=> IsCancel(i, q))
      BY <2>5 DEF IsPlace, IsCancel
    <2>8. \A q \in Quotes : status'[q] = (IF q = id THEN "ACCEPTED" ELSE status[q])
                            /\ (q # id => price'[q] = price[q]) /\ price'[id] = spot
      BY <1>3, <2>1 DEF MakerTypes
    <2>9. id \notin book \cup gone /\ \A i \in 1 .. Len(inbound) : inbound[i].id # id
      BY <1>3 DEF VenueOK
    <2>10. \A i \in 1 .. Len(inbound) : ~IsPlace(i, id) /\ ~IsCancel(i, id)
      BY <2>9 DEF IsPlace, IsCancel
    <2>11. ASSUME NEW q \in Quotes, status'[q] \in {"NONE", "REJECTED"}
           PROVE  q \notin book' \cup gone' /\ \A i \in 1 .. n : inbound'[i].id # q
      <3>1. q # id /\ status[q] \in {"NONE", "REJECTED"}
        BY <2>8, <2>11
      <3> QED BY <2>5, <2>6, <3>1 DEF VenueOK
    <2>12. ASSUME NEW q \in Quotes, NEW i \in 1 .. n, IsPlace(i, q)'
           PROVE  /\ q \notin book' \cup gone'
                  /\ \A j \in 1 .. n : IsPlace(j, q)' => i = j
                  /\ \A j \in 1 .. i : ~IsCancel(j, q)'
                  /\ status'[q] = "ACCEPTED" \/ \E j \in 1 .. n : IsCancel(j, q)'
      <3>1. CASE i = n
        <4>1. q = id
          BY <2>6, <2>12, <3>1
        <4>2. \A j \in 1 .. i : ~IsCancel(j, q)'
          BY <2>5, <2>6, <2>7, <2>10, <3>1, <4>1
        <4>3. \A j \in 1 .. n : IsPlace(j, q)' => i = j
          BY <2>5, <2>7, <2>10, <3>1, <4>1
        <4> QED BY <2>8, <2>9, <4>1, <4>2, <4>3
      <3>2. CASE i # n
        <4>1. i \in 1 .. Len(inbound) /\ IsPlace(i, q)
          BY <2>5, <2>7, <2>12, <3>2
        <4>2. q # id
          BY <2>10, <4>1
        <4>3. \A j \in 1 .. i : j \in 1 .. Len(inbound)
          BY <4>1
        <4>4. \A j \in 1 .. n : IsPlace(j, q)' => i = j
          BY <2>5, <2>6, <2>7, <4>1, <4>2 DEF VenueOK
        <4>5. \A j \in 1 .. i : ~IsCancel(j, q)'
          BY <2>7, <4>1, <4>3 DEF VenueOK
        <4>6. status'[q] = "ACCEPTED" \/ \E j \in 1 .. n : IsCancel(j, q)'
          <5>1. status[q] = "ACCEPTED" \/ \E j \in 1 .. Len(inbound) : IsCancel(j, q)
            BY <4>1 DEF VenueOK
          <5> QED BY <2>5, <2>7, <2>8, <5>1
        <4> QED BY <4>1, <4>4, <4>5, <4>6 DEF VenueOK
      <3> QED BY <3>1, <3>2
    <2>13. ASSUME NEW q \in book'
           PROVE  status'[q] = "ACCEPTED" \/ \E j \in 1 .. n : IsCancel(j, q)'
      <3>1. q \in Quotes /\ (status[q] = "ACCEPTED" \/ \E j \in 1 .. Len(inbound) : IsCancel(j, q))
        BY DEF VenueOK, MakerTypes
      <3> QED BY <2>5, <2>7, <2>8, <3>1
    <2>14. VenueOK'
      BY <2>5, <2>11, <2>12, <2>13 DEF VenueOK
    <2> QED BY <1>3, <2>3, <2>8, <2>14
  <1> QED BY <1>1, <1>2, <1>3 DEF Submitted

\* A quote that is placed is watched, or slips if the answer is lost.
LEMMA PlaceWatch ==
    ASSUME WatchInv, Place \/ PlaceFails
    PROVE  WatchInv'
  <1> USE DEF WatchInv
  <1>1. /\ calls # <<>> /\ Head(calls).op = "PLACE" /\ calls' = Tail(calls) /\ seq' = seq + 1
        /\ seq < MaxSeq /\ UNCHANGED <<mark, ref, book, gone>> /\ slipped \subseteq slipped'
    BY DEF Place, PlaceFails, Calling, venueVars, faultVars
  <1>2. PICK id, spot : id = NextId /\ spot = Head(calls).at
    OBVIOUS
  <1>3. /\ Head(calls) \in PlaceCalls /\ CallsOK'
        /\ calls' \in Seq(CancelCalls \cup PlaceCalls)
        /\ \A i \in 1 .. Len(calls) : calls[i].op = "PLACE"
    BY <1>1, NextCall DEF CancelCalls
  <1>4. id \in Quotes /\ id[2] = seq + 1 /\ spot \in Int
    <2>1. seq + 1 \in 1 .. MaxSeq
      BY <1>1, MarketMakerAssumption DEF MakerTypes, MarketMakerAssumption
    <2> QED BY <1>2, <1>3, <2>1 DEF NextId, Quotes, PlaceCalls
  <1>5. \A q \in Quotes : status[q] = "ACCEPTED" =>
          q \in slipped \/ \E i \in 1 .. Len(resting) : resting[i] = q
    BY <1>3 DEF WatchedOK
  <1>6. CASE UNCHANGED <<status, price, inbound, resting>> /\ PlaceFails
    <2>1. MakerTypes'
      BY <1>1, <1>3, <1>6 DEF MakerTypes
    <2>2. NumbersOK'
      BY <1>1, <1>6 DEF NumbersOK, MakerTypes, Quotes
    <2>3. VenueOK'
      BY <1>1, <1>6, VenueSame
    <2>4. WatchedOK'
      BY <1>1, <1>5, <1>6 DEF WatchedOK
    <2> QED BY <1>3, <2>1, <2>2, <2>3, <2>4
  <1>7. CASE Submitted(id, spot) /\ (Place \/ (id \in slipped' /\ resting' = resting))
    <2>1. /\ VenueOK'
          /\ status' \in [Quotes -> Statuses] /\ price' \in [Quotes -> Int] /\ inbound' \in Seq(VenueRecords)
          /\ \A q \in Quotes : q # id => status'[q] = status[q]
      BY <1>1, <1>4, <1>7, SubmittedVenue
    <2>2. /\ resting' \in Seq(Quotes) /\ Len(resting) \in Nat
          /\ \A i \in 1 .. Len(resting) : i \in 1 .. Len(resting') /\ resting'[i] = resting[i]
          /\ status'[id] = "ACCEPTED" => id \in slipped' \/ \E i \in 1 .. Len(resting') : resting'[i] = id
      <3>1. CASE resting' = resting /\ (Place => status'[id] # "ACCEPTED")
        BY <1>7, <3>1 DEF MakerTypes
      <3>2. CASE Place /\ resting' = Append(resting, id)
        <4>1. /\ Append(resting, id) \in Seq(Quotes) /\ Len(Append(resting, id)) = Len(resting) + 1
              /\ Len(resting) \in Nat /\ Append(resting, id)[Len(resting) + 1] = id
              /\ \A i \in 1 .. Len(resting) : Append(resting, id)[i] = resting[i]
          BY <1>4 DEF MakerTypes
        <4>2. Len(resting) + 1 \in 1 .. Len(resting) + 1
          BY <4>1
        <4> QED BY <3>2, <4>1, <4>2
      <3>3. Place => resting' = (IF status'[id] = "ACCEPTED" THEN Append(resting, id) ELSE resting)
        BY <1>2 DEF Place, Remembered
      <3> QED BY <1>7, <3>1, <3>2, <3>3
    <2>3. MakerTypes'
      BY <1>1, <1>3, <2>1, <2>2 DEF MakerTypes
    <2>4. NumbersOK'
      <3>1. \A q \in Quotes : q[2] <= seq => q[2] <= seq + 1
        BY DEF MakerTypes, Quotes
      <3>2. id[2] <= seq + 1
        BY <1>4 DEF MakerTypes
      <3> QED BY <1>1, <1>4, <2>1, <3>1, <3>2 DEF NumbersOK
    <2>5. WatchedOK'
      <3> SUFFICES ASSUME NEW q \in Quotes, status'[q] = "ACCEPTED", q \notin slipped'
                   PROVE  \E i \in 1 .. Len(resting') : resting'[i] = q
        BY DEF WatchedOK
      <3>1. CASE q = id
        BY <2>2, <3>1
      <3>2. CASE q # id
        <4>1. status[q] = "ACCEPTED" /\ q \notin slipped
          BY <1>1, <2>1, <3>2
        <4> QED BY <1>5, <2>2, <4>1
      <3> QED BY <3>1, <3>2
    <2> QED BY <1>3, <2>1, <2>3, <2>4, <2>5
  <1>8. Place => Submitted(id, spot)
    BY <1>2 DEF Place
  <1>9. PlaceFails => /\ resting' = resting
                      /\ \/ UNCHANGED <<status, price, inbound>>
                         \/ Submitted(id, spot) /\ id \in slipped'
    BY <1>2 DEF PlaceFails, orderVars
  <1> QED BY <1>6, <1>7, <1>8, <1>9

\* The head of the log is taken off.
LEMMA LogTail ==
    ASSUME MakerTypes, inbound # <<>>, inbound' = Tail(inbound)
    PROVE  /\ inbound' \in Seq(VenueRecords) /\ Head(inbound) = inbound[1] /\ Head(inbound) \in VenueRecords
           /\ Len(inbound) \in Nat \ {0} /\ Len(inbound') = Len(inbound) - 1
           /\ \A i \in 1 .. Len(inbound') : i + 1 \in 1 .. Len(inbound) /\ inbound'[i] = inbound[i + 1]
           /\ \A i \in 1 .. Len(inbound) : i = 1 \/ (i - 1 \in 1 .. Len(inbound') /\ inbound'[i - 1] = inbound[i])
  <1>1. /\ Head(inbound) = inbound[1] /\ Head(inbound) \in VenueRecords /\ Len(inbound) \in Nat \ {0}
    BY DEF MakerTypes
  <1>2. /\ inbound' \in Seq(VenueRecords) /\ Len(inbound') = Len(inbound) - 1
        /\ \A i \in 1 .. Len(inbound') : inbound'[i] = inbound[i + 1]
    BY HeadTailProperties DEF MakerTypes
  <1>3. \A i \in 1 .. Len(inbound') : i + 1 \in 1 .. Len(inbound)
    BY <1>1, <1>2
  <1>4. ASSUME NEW i \in 1 .. Len(inbound), i # 1
        PROVE  i - 1 \in 1 .. Len(inbound') /\ inbound'[i - 1] = inbound[i]
    <2>1. i - 1 \in 1 .. Len(inbound') /\ (i - 1) + 1 = i
      BY <1>1, <1>2, <1>4
    <2> QED BY <1>2, <2>1
  <1> QED BY <1>1, <1>2, <1>3, <1>4

\* What the book may do with the quote at the head of the log: cancel it, let it
\* rest, or let it meet another; and what is in the book may be taken.
MovesOn(id) ==
    \/ Head(inbound).op = "CANCEL" /\ book' = book \ {id} /\ gone' = gone \cup {id}
    \/ Head(inbound).op = "PLACE" /\ book' = book \cup {id} /\ gone' = gone
    \/ Head(inbound).op = "PLACE" /\ \E q \in book : book' = book \ {q} /\ gone' = gone \cup {id, q}

\* However the book takes it, it enters once.
LEMMA MatchVenue ==
    ASSUME MakerTypes, VenueOK, inbound # <<>>, inbound' = Tail(inbound), status' = status,
           NEW id, id = Head(inbound).id, MovesOn(id)
    PROVE  VenueOK'
  <1>1. /\ inbound' \in Seq(VenueRecords) /\ id \in Quotes
        /\ Len(inbound) \in Nat \ {0} /\ Len(inbound') = Len(inbound) - 1
        /\ inbound[1].id = id /\ 1 \in 1 .. Len(inbound)
        /\ \A i \in 1 .. Len(inbound') : i + 1 \in 1 .. Len(inbound) /\ inbound'[i] = inbound[i + 1]
        /\ \A i \in 1 .. Len(inbound) : i = 1 \/ (i - 1 \in 1 .. Len(inbound') /\ inbound'[i - 1] = inbound[i])
    BY LogTail DEF VenueRecords
  <1>2. IF Head(inbound).op = "CANCEL" THEN IsCancel(1, id) ELSE IsPlace(1, id)
    <2>1. Head(inbound) \in VenueRecords /\ Head(inbound) = inbound[1]
      BY LogTail
    <2>2. Head(inbound) = [op |-> Head(inbound).op, id |-> id]
      BY <2>1 DEF VenueRecords
    <2> QED BY <2>1, <2>2 DEF VenueRecords, IsCancel, IsPlace
  <1>3. \A q : IsCancel(1, q) \/ IsPlace(1, q) => q = id
    BY <1>1 DEF IsCancel, IsPlace
  <1>4. \A i \in 1 .. Len(inbound') : \A q : (IsPlace(i, q)' <=> IsPlace(i + 1, q)) /\ (IsCancel(i, q)' <=> IsCancel(i + 1, q))
    BY <1>1 DEF IsPlace, IsCancel
  <1>5. status[id] \notin {"NONE", "REJECTED"}
    BY <1>1 DEF VenueOK
  <1>6. \A i \in 1 .. Len(inbound') : ~IsPlace(i, id)'
    <2> SUFFICES ASSUME NEW i \in 1 .. Len(inbound'), IsPlace(i + 1, id)
                 PROVE  FALSE
      BY <1>4
    <2>1. i + 1 \in 1 .. Len(inbound) /\ 1 \in 1 .. i + 1 /\ i + 1 # 1
      BY <1>1
    <2> QED BY <1>1, <1>2, <2>1 DEF VenueOK
  <1>7. book \cup gone \subseteq Quotes
    BY DEF MakerTypes
  <1>8. ASSUME NEW q \in Quotes, status'[q] \in {"NONE", "REJECTED"}
        PROVE  q \notin book' \cup gone' /\ \A i \in 1 .. Len(inbound') : inbound'[i].id # q
    <2>1. q \notin book \cup gone /\ \A i \in 1 .. Len(inbound) : inbound[i].id # q
      BY <1>8 DEF VenueOK
    <2>2. q # id
      BY <1>5, <1>8
    <2> QED BY <1>1, <2>1, <2>2 DEF MovesOn
  <1>9. book' \cap gone' = {}
    <2>1. Head(inbound).op = "PLACE" => id \notin book \cup gone
      BY <1>1, <1>2 DEF VenueOK
    <2> QED BY <2>1 DEF MovesOn, VenueOK
  <1>10. ASSUME NEW q \in Quotes, q # id,
                (q \in book /\ q \in book') \/ \E i \in 1 .. Len(inbound') : IsPlace(i, q)'
         PROVE  status'[q] = "ACCEPTED" \/ \E j \in 1 .. Len(inbound') : IsCancel(j, q)'
    <2>1. status[q] = "ACCEPTED" \/ \E j \in 1 .. Len(inbound) : IsCancel(j, q)
      BY <1>1, <1>4, <1>10 DEF VenueOK
    <2>2. CASE \E j \in 1 .. Len(inbound) : IsCancel(j, q)
      <3>1. PICK j \in 1 .. Len(inbound) : IsCancel(j, q)
        BY <2>2
      <3>2. j # 1
        BY <1>3, <1>10, <3>1
      <3>3. j - 1 \in 1 .. Len(inbound') /\ IsCancel(j - 1, q)'
        BY <1>1, <3>1, <3>2 DEF IsCancel
      <3> QED BY <3>3
    <2> QED BY <2>1, <2>2
  <1>11. ASSUME NEW q \in Quotes, NEW i \in 1 .. Len(inbound'), IsPlace(i, q)'
         PROVE  /\ q \notin book' \cup gone'
                /\ \A j \in 1 .. Len(inbound') : IsPlace(j, q)' => i = j
                /\ \A j \in 1 .. i : ~IsCancel(j, q)'
                /\ status'[q] = "ACCEPTED" \/ \E j \in 1 .. Len(inbound') : IsCancel(j, q)'
    <2>1. q # id
      BY <1>6, <1>11
    <2>2. i + 1 \in 1 .. Len(inbound) /\ IsPlace(i + 1, q)
      BY <1>1, <1>4, <1>11
    <2>3. q \notin book \cup gone
      BY <2>2 DEF VenueOK
    <2>4. q \notin book' \cup gone'
      BY <2>1, <2>3 DEF MovesOn
    <2>5. \A j \in 1 .. Len(inbound') : IsPlace(j, q)' => i = j
      <3> SUFFICES ASSUME NEW j \in 1 .. Len(inbound'), IsPlace(j, q)' PROVE i = j
        OBVIOUS
      <3>1. j + 1 \in 1 .. Len(inbound) /\ IsPlace(j + 1, q)
        BY <1>1, <1>4
      <3>2. i + 1 = j + 1
        BY <2>2, <3>1 DEF VenueOK
      <3> QED BY <3>2
    <2>6. \A j \in 1 .. i : ~IsCancel(j, q)'
      <3> SUFFICES ASSUME NEW j \in 1 .. i PROVE ~IsCancel(j, q)'
        OBVIOUS
      <3>1. j \in 1 .. Len(inbound') /\ j + 1 \in 1 .. i + 1
        BY <1>1
      <3>2. ~IsCancel(j + 1, q)
        BY <2>2, <3>1 DEF VenueOK
      <3> QED BY <1>4, <3>1, <3>2
    <2> QED BY <1>10, <1>11, <2>1, <2>4, <2>5, <2>6
  <1>12. ASSUME NEW q \in book'
         PROVE  status'[q] = "ACCEPTED" \/ \E j \in 1 .. Len(inbound') : IsCancel(j, q)'
    <2>1. CASE q = id
      <3>1. Head(inbound).op = "PLACE"
        BY <1>12, <2>1 DEF MovesOn
      <3>2. IsPlace(1, id)
        BY <1>2, <3>1
      <3>3. status[id] = "ACCEPTED" \/ \E j \in 1 .. Len(inbound) : IsCancel(j, id)
        BY <1>1, <3>2 DEF VenueOK
      <3>4. ~IsCancel(1, id)
        BY <3>2 DEF IsPlace, IsCancel
      <3>5. ASSUME NEW j \in 1 .. Len(inbound), IsCancel(j, id)
            PROVE  j - 1 \in 1 .. Len(inbound') /\ IsCancel(j - 1, id)'
        BY <1>1, <3>4, <3>5 DEF IsCancel
      <3> QED BY <2>1, <3>3, <3>5
    <2>2. CASE q # id
      <3>1. q \in book /\ q \in Quotes
        BY <1>7, <1>12, <2>2 DEF MovesOn
      <3> QED BY <1>10, <1>12, <2>2, <3>1
    <2> QED BY <2>1, <2>2
  <1> QED BY <1>8, <1>9, <1>11, <1>12 DEF VenueOK

\* The book takes what reaches it, others take from it, and outcomes settle.
LEMMA BookWatch ==
    ASSUME WatchInv, Match \/ \E id \in Quotes : Taken(id) \/ Settled(id)
    PROVE  WatchInv'
  <1> USE DEF WatchInv
  <1>1. UNCHANGED <<mark, seq, resting, calls, ref, price, slipped>>
    BY DEF Match, Taken, Settled, deskVars, faultVars, orderVars
  <1>2. CallsOK'
    BY <1>1 DEF CallsOK
  <1>3. CASE Match
    <2>1. PICK id : id = Head(inbound).id
      OBVIOUS
    <2>2. /\ inbound # <<>> /\ inbound' = Tail(inbound) /\ status' = status
          /\ MovesOn(id)
      BY <1>3, <2>1 DEF Match, MovesOn, Crossing
    <2>3. VenueOK'
      BY <2>1, <2>2, MatchVenue
    <2>4. inbound' \in Seq(VenueRecords) /\ id \in Quotes
      BY <2>1, <2>2, LogTail DEF VenueRecords
    <2>5. book' \subseteq Quotes /\ gone' \subseteq Quotes
      BY <2>2, <2>4 DEF MovesOn, MakerTypes
    <2>6. MakerTypes'
      BY <1>1, <2>2, <2>4, <2>5 DEF MakerTypes
    <2> QED BY <1>1, <1>2, <2>2, <2>3, <2>6 DEF NumbersOK, WatchedOK
  <1>4. ASSUME NEW id \in Quotes, Taken(id)
        PROVE  WatchInv'
    <2>1. /\ UNCHANGED <<status, inbound>> /\ id \in book
          /\ book' = book \ {id} /\ gone' = gone \cup {id}
      BY <1>4 DEF Taken, orderVars
    <2>2. MakerTypes'
      BY <1>1, <2>1 DEF MakerTypes
    <2>3. VenueOK'
      BY <2>1 DEF VenueOK, IsPlace, IsCancel
    <2> QED BY <1>1, <1>2, <2>1, <2>2, <2>3 DEF NumbersOK, WatchedOK
  <1>5. ASSUME NEW id \in Quotes, Settled(id)
        PROVE  WatchInv'
    <2>1. /\ UNCHANGED <<inbound, book, gone>> /\ id \in gone
          /\ status' = [status EXCEPT ![id] = "DONE"]
      BY <1>5 DEF Settled, venueVars
    <2>2. MakerTypes'
      BY <1>1, <2>1 DEF MakerTypes, Statuses
    <2>3. \A q \in Quotes : status'[q] = IF q = id THEN "DONE" ELSE status[q]
      BY <2>1 DEF MakerTypes
    <2>4. id \notin book /\ \A i \in 1 .. Len(inbound) : ~IsPlace(i, id)
      BY <2>1 DEF VenueOK
    <2>5. VenueOK'
      BY <2>1, <2>3, <2>4 DEF VenueOK, IsPlace, IsCancel, MakerTypes
    <2> QED BY <1>1, <1>2, <2>2, <2>3, <2>5 DEF NumbersOK, WatchedOK
  <1> QED BY <1>3, <1>4, <1>5

\* What was live when the maker forgot everything has slipped.
LEMMA RestartWatch ==
    ASSUME WatchInv, RestartMaker
    PROVE  WatchInv'
  <1> USE DEF WatchInv
  <1>1. /\ seq' = 0 /\ resting' = <<>> /\ ref' = 0 /\ calls' = <<>>
        /\ UNCHANGED <<mark, status, price, inbound, book, gone>>
        /\ \A q \in Quotes : status[q] = "ACCEPTED" => q \in slipped'
    BY DEF RestartMaker, orderVars, venueVars
  <1>2. MakerTypes' /\ CallsOK'
    BY <1>1 DEF MakerTypes, CallsOK
  <1>3. VenueOK'
    BY <1>1, VenueSame
  <1> QED BY <1>1, <1>2, <1>3 DEF NumbersOK, WatchedOK

\* Every step keeps the quotes watched.
LEMMA StepWatch == WatchInv /\ [MakerNext]_makerVars => WatchInv'
  <1> SUFFICES ASSUME WatchInv, [MakerNext]_makerVars PROVE WatchInv'
    OBVIOUS
  <1>1. CASE UNCHANGED makerVars
    BY <1>1, VenueSame DEF makerVars, WatchInv, MakerTypes, CallsOK, NumbersOK, WatchedOK
  <1> QED BY <1>1, QuoteWatch, CancelWatch, PlaceWatch, BookWatch, RestartWatch DEF MakerNext

\* Nothing is placed at the start.
LEMMA WatchStarts == MakerInit => WatchInv
  <1> SUFFICES ASSUME MakerInit PROVE WatchInv
    OBVIOUS
  <1>1. MakerTypes
    BY DEF MakerInit, MakerTypes, Statuses
  <1>2. CallsOK /\ NumbersOK /\ VenueOK /\ WatchedOK
    BY DEF MakerInit, CallsOK, NumbersOK, VenueOK, WatchedOK
  <1> QED BY <1>1, <1>2 DEF WatchInv

\* The invariant holds throughout.
LEMMA Watching == MakerSpec => []WatchInv
  BY WatchStarts, StepWatch, PTL DEF MakerSpec

\* Every quote that is live is one the maker will take back at its next requote,
\* is taking back now, or has lost track of in a failed call or a restart; for any
\* ladder, any marks and any number of ticks and failures (mm.go, QuoteOnce and place).
THEOREM QuotesWatched == MakerSpec => []EveryQuoteWatched
  <1>1. WatchInv => EveryQuoteWatched
    <2> SUFFICES ASSUME WatchInv, NEW q \in Quotes, status[q] = "ACCEPTED"
                 PROVE  q \in Range(resting) \cup ToCancel \cup slipped
      BY DEF EveryQuoteWatched
    <2>1. DOMAIN resting = 1 .. Len(resting) /\ DOMAIN calls = 1 .. Len(calls)
      BY DEF WatchInv, MakerTypes
    <2> QED BY <2>1 DEF WatchInv, WatchedOK, Range, ToCancel
  <1> QED BY <1>1, Watching, PTL

-----------------------------------------------------------------------------
\* Nothing is appended to the log, no price that matters changes, the book only
\* shrinks: what is apart stays apart.
LEMMA ApartSame ==
    ASSUME ApartOK, UNCHANGED <<price, inbound>>, book' \subseteq book, slipped \subseteq slipped'
    PROVE  ApartOK'
  <1>1. \A x, q : Meets(x, q)' <=> Meets(x, q)
    BY DEF Meets
  <1>2. \A i, q : (IsPlace(i, q)' <=> IsPlace(i, q)) /\ (IsCancel(i, q)' <=> IsCancel(i, q))
    BY DEF IsPlace, IsCancel
  <1> QED BY <1>1, <1>2 DEF ApartOK

\* A tick and the two ends of a requote: the ladder is quoted around the mark.
LEMMA QuoteMeet ==
    ASSUME SpreadBps > 0, MeetInv, PublishMark \/ QuoteOnce \/ QuoteDone
    PROVE  AroundOK' /\ ApartOK' /\ OwnQuotesNeverMeet'
  <1> USE DEF MeetInv
  <1>1. UNCHANGED <<price, inbound, book, slipped, met>>
    BY DEF PublishMark, QuoteOnce, QuoteDone, orderVars, venueVars, faultVars, deskVars
  <1>2. ApartOK' /\ OwnQuotesNeverMeet'
    BY <1>1, ApartSame DEF OwnQuotesNeverMeet
  <1>3. CASE PublishMark
    BY <1>1, <1>2, <1>3 DEF AroundOK, PublishMark, deskVars
  <1>4. CASE QuoteDone
    <2>1. ref' = 0 /\ calls' = <<>>
      BY <1>4 DEF QuoteDone
    <2> QED BY <1>2, <2>1 DEF AroundOK
  <1>5. CASE QuoteOnce
    <2>1. /\ mark \in Nat \ {0} /\ ref' = mark /\ calls' = Requote(mark) /\ resting' = <<>> /\ MakerTypes
      BY <1>5 DEF QuoteOnce, MakerTypes, WatchInv
    <2>2. PICK m, n, l : m = Len(resting) /\ l = Ladder(mark) /\ n = Len(l)
      OBVIOUS
    <2>3. /\ m \in Nat /\ n \in Nat /\ Len(calls') = m + n
          /\ \A i \in 1 .. m : calls'[i].op = "CANCEL"
          /\ \A i \in m + 1 .. m + n : calls'[i] = l[i - m]
      BY <2>1, <2>2, RequoteType
    <2>4. \A k \in 1 .. n : Beside(l[k].side, l[k].at, mark)
      BY <2>1, <2>2, LadderType
    <2>5. ASSUME NEW i \in 1 .. m + n, calls'[i].op = "PLACE"
          PROVE  Beside(calls'[i].side, calls'[i].at, mark)
      <3>1. i \in m + 1 .. m + n /\ i - m \in 1 .. n
        BY <2>3, <2>5
      <3> QED BY <2>3, <2>4, <3>1
    <2>6. Len(resting') = 0
      BY <2>1
    <2> QED BY <1>2, <2>1, <2>3, <2>5, <2>6 DEF AroundOK
  <1> QED BY <1>3, <1>4, <1>5

\* A cancel comes behind everything that is on its way.
LEMMA CancelMeet ==
    ASSUME MeetInv, CancelQuote \/ CancelFails
    PROVE  AroundOK' /\ ApartOK' /\ OwnQuotesNeverMeet'
  <1> USE DEF MeetInv, WatchInv
  <1>1. /\ calls # <<>> /\ Head(calls).op = "CANCEL" /\ calls' = Tail(calls)
        /\ UNCHANGED <<resting, ref, price, book, met>> /\ slipped \subseteq slipped'
    BY DEF CancelQuote, CancelFails, Calling, orderVars, venueVars, faultVars
  <1>2. OwnQuotesNeverMeet'
    BY <1>1 DEF OwnQuotesNeverMeet
  <1>3. AroundOK'
    <2>1. \A i \in 1 .. Len(calls') : i + 1 \in 1 .. Len(calls) /\ calls'[i] = calls[i + 1]
      BY <1>1, NextCall
    <2>2. \A i \in 1 .. Len(calls') : calls'[i].op = "PLACE" => Beside(calls'[i].side, calls'[i].at, ref)
      BY <2>1 DEF AroundOK
    <2>3. ref > 0 => \A i \in 1 .. Len(resting) :
            resting[i] \in slipped' \/ Beside(resting[i][1], price[resting[i]], ref)
      BY <1>1 DEF AroundOK
    <2> QED BY <1>1, <2>2, <2>3 DEF AroundOK
  <1>4. CASE inbound' = inbound
    BY <1>1, <1>2, <1>3, <1>4, ApartSame
  <1>5. ASSUME NEW c \in Quotes, inbound' = Append(inbound, [op |-> "CANCEL", id |-> c])
        PROVE  ApartOK'
    <2>1. [op |-> "CANCEL", id |-> c] \in VenueRecords
      BY DEF VenueRecords
    <2>2. PICK n : n = Len(inbound)
      OBVIOUS
    <2>3. /\ n \in Nat /\ Len(inbound') = n + 1 /\ \A i \in 1 .. n : inbound'[i] = inbound[i]
          /\ inbound'[n + 1] = [op |-> "CANCEL", id |-> c]
      BY <1>5, <2>1, <2>2 DEF MakerTypes
    <2>4. \A i \in 1 .. n : \A q : (IsPlace(i, q)' <=> IsPlace(i, q)) /\ (IsCancel(i, q)' <=> IsCancel(i, q))
      BY <2>3 DEF IsPlace, IsCancel
    <2>5. \A i \in 1 .. n + 1 : \A q : IsPlace(i, q)' => i \in 1 .. n
      <3>1. \A q : ~IsPlace(n + 1, q)'
        BY <2>3 DEF IsPlace
      <3>2. \A i \in 1 .. n + 1 : i = n + 1 \/ i \in 1 .. n
        BY <2>3
      <3> QED BY <3>1, <3>2
    <2>6. ASSUME NEW x \in Quotes \ slipped, NEW i \in 1 .. n, IsPlace(i, x),
                 NEW q \in Quotes \ slipped, Meets(x, q),
                 q \in book \/ \E k \in 1 .. i : IsPlace(k, q)'
          PROVE  \E j \in 1 .. i : IsCancel(j, q)'
      <3>1. \A k \in 1 .. i : k \in 1 .. n
        BY <2>3
      <3>2. q \in book \/ \E k \in 1 .. i : IsPlace(k, q)
        BY <2>4, <2>6, <3>1
      <3>3. \E j \in 1 .. i : IsCancel(j, q)
        BY <2>2, <2>6, <3>2 DEF ApartOK
      <3> QED BY <2>4, <3>1, <3>3
    <2>7. \A x, q : Meets(x, q)' <=> Meets(x, q)
      BY <1>1 DEF Meets
    <2> QED BY <1>1, <2>3, <2>4, <2>5, <2>6, <2>7 DEF ApartOK
  <1>6. inbound' = inbound \/ inbound' = Append(inbound, [op |-> "CANCEL", id |-> Head(calls).id])
    BY DEF CancelQuote, CancelFails, orderVars
  <1>7. Head(calls).id \in Quotes
    BY <1>1, NextCall DEF CancelCalls, PlaceCalls
  <1> QED BY <1>2, <1>3, <1>4, <1>5, <1>6, <1>7

\* What a quote that is placed would meet is live, and then it is one that rests
\* on the other side of the price, or has its cancel on the way.
LEMMA PlaceMeet ==
    ASSUME MeetInv, Place \/ PlaceFails
    PROVE  AroundOK' /\ ApartOK' /\ OwnQuotesNeverMeet'
  <1> USE DEF MeetInv, WatchInv
  <1>1. /\ calls # <<>> /\ Head(calls).op = "PLACE" /\ calls' = Tail(calls)
        /\ seq < MaxSeq /\ UNCHANGED <<ref, book, gone, met>> /\ slipped \subseteq slipped'
    BY DEF Place, PlaceFails, Calling, venueVars, faultVars
  <1>2. OwnQuotesNeverMeet'
    BY <1>1 DEF OwnQuotesNeverMeet
  <1>3. PICK id, spot : id = NextId /\ spot = Head(calls).at
    OBVIOUS
  <1>4. /\ Head(calls) \in PlaceCalls /\ Head(calls) = calls[1] /\ Len(calls) \in Nat \ {0} /\ ref > 0
        /\ \A i \in 1 .. Len(calls') : i + 1 \in 1 .. Len(calls) /\ calls'[i] = calls[i + 1]
        /\ \A i \in 1 .. Len(calls) : calls[i].op = "PLACE"
    BY <1>1, NextCall DEF CancelCalls
  <1>5. id \in Quotes /\ id[2] = seq + 1 /\ spot \in Int /\ id[1] = Head(calls).side
    <2>1. seq + 1 \in 1 .. MaxSeq
      BY <1>1, MarketMakerAssumption DEF MakerTypes, MarketMakerAssumption
    <2> QED BY <1>3, <1>4, <2>1 DEF NextId, Quotes, PlaceCalls
  <1>6. Beside(id[1], spot, ref)
    <2>1. 1 \in 1 .. Len(calls)
      BY <1>4
    <2> QED BY <1>1, <1>3, <1>4, <1>5, <2>1 DEF AroundOK
  <1>7. \A i \in 1 .. Len(calls') : calls'[i].op = "PLACE" => Beside(calls'[i].side, calls'[i].at, ref)
    BY <1>4 DEF AroundOK
  <1>8. CASE UNCHANGED <<price, inbound, resting>>
    <2>1. AroundOK'
      BY <1>1, <1>7, <1>8 DEF AroundOK
    <2> QED BY <1>1, <1>2, <1>8, <2>1, ApartSame
  <1>9. CASE Submitted(id, spot) /\ (Place \/ (id \in slipped' /\ resting' = resting))
    <2>1. /\ status' \in [Quotes -> Statuses] /\ price' \in [Quotes -> Int]
          /\ \A q \in Quotes : q # id \/ status[q] # "NONE" =>
                status'[q] = status[q] /\ price'[q] = price[q]
          /\ status[id] = "NONE" => price'[id] = spot
          /\ \/ inbound' = inbound
             \/ status[id] = "NONE" /\ inbound' = Append(inbound, [op |-> "PLACE", id |-> id])
      BY <1>1, <1>5, <1>9, SubmittedVenue
    <2>2. \A q \in Quotes : Beside(q[1], price[q], ref) => Beside(q[1], price'[q], ref)
      BY <1>6, <2>1
    <2>3. status'[id] = "ACCEPTED" => id \in slipped' \/ Beside(id[1], price'[id], ref)
      <3>1. status[id] = "ACCEPTED" => id \in slipped
        BY <1>5 DEF NumbersOK, MakerTypes
      <3> QED BY <1>1, <1>5, <1>6, <2>1, <3>1
    <2>4. AroundOK'
      <3>1. \A i \in 1 .. Len(resting) : resting[i] \in Quotes
        BY DEF MakerTypes
      <3>2. \A i \in 1 .. Len(resting) : resting[i] \in slipped' \/ Beside(resting[i][1], price'[resting[i]], ref)
        BY <1>1, <1>4, <2>2, <3>1 DEF AroundOK
      <3>3. \/ resting' = resting
            \/ status'[id] = "ACCEPTED" /\ resting' = Append(resting, id)
        BY <1>3, <1>9 DEF Place, Remembered
      <3>4. CASE resting' = resting
        BY <1>1, <1>7, <3>2, <3>4 DEF AroundOK
      <3>5. CASE status'[id] = "ACCEPTED" /\ resting' = Append(resting, id)
        <4>1. PICK n : n = Len(resting)
          OBVIOUS
        <4>2. /\ n \in Nat /\ Len(resting') = n + 1 /\ resting'[n + 1] = id
              /\ \A i \in 1 .. n : resting'[i] = resting[i]
          BY <1>5, <3>5, <4>1 DEF MakerTypes
        <4>3. \A i \in 1 .. n + 1 : i \in 1 .. n \/ i = n + 1
          BY <4>2
        <4>4. \A i \in 1 .. n + 1 : resting'[i] \in slipped' \/ Beside(resting'[i][1], price'[resting'[i]], ref)
          BY <2>3, <3>2, <3>5, <4>1, <4>2, <4>3
        <4> QED BY <1>1, <1>7, <4>2, <4>4 DEF AroundOK
      <3> QED BY <3>3, <3>4, <3>5
    <2>5. status[id] = "NONE" => /\ id \notin book
                                 /\ \A i \in 1 .. Len(inbound) : ~IsPlace(i, id)
      BY <1>5 DEF VenueOK, IsPlace
    <2>6. ASSUME NEW x \in Quotes, NEW q \in Quotes, NEW i \in 1 .. Len(inbound), IsPlace(i, x),
                 q \in book \/ \E k \in 1 .. i : IsPlace(k, q)
          PROVE  Meets(x, q)' <=> Meets(x, q)
      <3>1. \A k \in 1 .. i : k \in 1 .. Len(inbound)
        OBVIOUS
      <3>2. (x # id \/ status[x] # "NONE") /\ (q # id \/ status[q] # "NONE")
        BY <2>5, <2>6, <3>1
      <3>3. price'[x] = price[x] /\ price'[q] = price[q]
        BY <2>1, <3>2
      <3> QED BY <3>3 DEF Meets
    <2>7. CASE inbound' = inbound
      <3>1. \A i : \A q : (IsPlace(i, q)' <=> IsPlace(i, q)) /\ (IsCancel(i, q)' <=> IsCancel(i, q))
        BY <2>7 DEF IsPlace, IsCancel
      <3>2. ApartOK'
        BY <1>1, <2>6, <2>7, <3>1 DEF ApartOK
      <3> QED BY <1>2, <2>4, <3>2
    <2>8. CASE status[id] = "NONE" /\ inbound' = Append(inbound, [op |-> "PLACE", id |-> id])
      <3>1. [op |-> "PLACE", id |-> id] \in VenueRecords
        BY <1>5 DEF VenueRecords
      <3>2. PICK n : n = Len(inbound)
        OBVIOUS
      <3>3. /\ n \in Nat /\ Len(inbound') = n + 1 /\ \A i \in 1 .. n : inbound'[i] = inbound[i]
            /\ inbound'[n + 1] = [op |-> "PLACE", id |-> id]
        BY <2>8, <3>1, <3>2 DEF MakerTypes
      <3>4. \A i \in 1 .. n : \A q : (IsPlace(i, q)' <=> IsPlace(i, q)) /\ (IsCancel(i, q)' <=> IsCancel(i, q))
        BY <3>3 DEF IsPlace, IsCancel
      <3>5. \A q : IsPlace(n + 1, q)' => q = id
        BY <3>3 DEF IsPlace
      <3>6. \A i \in 1 .. n + 1 : i = n + 1 \/ i \in 1 .. n
        BY <3>3
      <3>7. ASSUME NEW x \in Quotes \ slipped, NEW i \in 1 .. n, IsPlace(i, x)',
                   NEW q \in Quotes \ slipped, Meets(x, q)',
                   q \in book \/ \E k \in 1 .. i : IsPlace(k, q)'
            PROVE  \E j \in 1 .. i : IsCancel(j, q)'
        <4>1. \A k \in 1 .. i : k \in 1 .. n
          BY <3>3
        <4>2. IsPlace(i, x) /\ (q \in book \/ \E k \in 1 .. i : IsPlace(k, q))
          BY <3>4, <3>7, <4>1
        <4>3. Meets(x, q)
          BY <2>6, <3>2, <3>7, <4>2
        <4>4. \E j \in 1 .. i : IsCancel(j, q)
          BY <3>2, <4>2, <4>3 DEF ApartOK
        <4> QED BY <3>4, <4>1, <4>4
      <3>8. ASSUME NEW q \in Quotes \ slipped, Meets(id, q)',
                   q \in book \/ \E k \in 1 .. n + 1 : IsPlace(k, q)'
            PROVE  \E j \in 1 .. n + 1 : IsCancel(j, q)'
        <4>1. q # id
          BY <3>8 DEF Meets
        <4>2. q \in book \/ \E k \in 1 .. n : IsPlace(k, q)
          BY <3>4, <3>5, <3>6, <3>8, <4>1
        <4>3. status[q] = "ACCEPTED" \/ \E j \in 1 .. n : IsCancel(j, q)
          BY <3>2, <4>2 DEF VenueOK
        <4>4. status[q] # "ACCEPTED"
          <5> SUFFICES ASSUME status[q] = "ACCEPTED" PROVE FALSE
            OBVIOUS
          <5>1. PICK i \in 1 .. Len(resting) : resting[i] = q
            BY <1>4 DEF WatchedOK
          <5>2. Beside(q[1], price[q], ref)
            BY <1>4, <5>1 DEF AroundOK
          <5>3. price'[q] = price[q] /\ price'[id] = spot /\ price[q] \in Int
            BY <2>1, <2>8, <4>1 DEF MakerTypes
          <5>4. ref \in Int
            BY DEF MakerTypes
          <5> QED BY <1>5, <1>6, <3>8, <5>2, <5>3, <5>4 DEF Meets, Beside
        <4>5. \A j \in 1 .. n : j \in 1 .. n + 1
          BY <3>3
        <4> QED BY <3>4, <4>3, <4>4, <4>5
      <3>9. ASSUME NEW x \in Quotes \ slipped', NEW i \in 1 .. n + 1, IsPlace(i, x)',
                   NEW q \in Quotes \ slipped', Meets(x, q)',
                   q \in book \/ \E k \in 1 .. i : IsPlace(k, q)'
            PROVE  \E j \in 1 .. i : IsCancel(j, q)'
        <4>1. x \in Quotes \ slipped /\ q \in Quotes \ slipped
          BY <1>1
        <4>2. CASE i \in 1 .. n
          BY <3>7, <3>9, <4>1, <4>2
        <4>3. CASE i = n + 1
          <5>1. x = id
            BY <3>5, <3>9, <4>3
          <5> QED BY <3>8, <3>9, <4>1, <4>3, <5>1
        <4> QED BY <3>6, <4>2, <4>3
      <3>10. ApartOK'
        BY <1>1, <3>3, <3>9 DEF ApartOK
      <3> QED BY <1>2, <2>4, <3>10
    <2> QED BY <2>1, <2>7, <2>8
  <1>10. Place => Submitted(id, spot)
    BY <1>3 DEF Place
  <1>11. PlaceFails => /\ resting' = resting
                       /\ \/ UNCHANGED <<price, inbound>>
                          \/ Submitted(id, spot) /\ id \in slipped'
    BY <1>3 DEF PlaceFails, orderVars
  <1> QED BY <1>8, <1>9, <1>10, <1>11

\* What meets the quote that is placed was cancelled ahead of it, and so is not in
\* the book; what is left behind it keeps its cancels.
LEMMA BookMeet ==
    ASSUME MeetInv, Match \/ \E id \in Quotes : Taken(id) \/ Settled(id)
    PROVE  AroundOK' /\ ApartOK' /\ OwnQuotesNeverMeet'
  <1> USE DEF MeetInv, WatchInv
  <1>1. UNCHANGED <<resting, calls, ref, price, slipped>>
    BY DEF Match, Taken, Settled, deskVars, faultVars, orderVars
  <1>2. AroundOK'
    BY <1>1 DEF AroundOK
  <1>3. CASE \E id \in Quotes : Taken(id) \/ Settled(id)
    <2>1. UNCHANGED <<inbound, met>> /\ book' \subseteq book
      BY <1>3 DEF Taken, Settled, orderVars, venueVars
    <2> QED BY <1>1, <1>2, <2>1, ApartSame DEF OwnQuotesNeverMeet
  <1>4. CASE Match
    <2>1. PICK id : id = Head(inbound).id
      OBVIOUS
    <2>2. inbound # <<>> /\ inbound' = Tail(inbound)
      BY <1>4 DEF Match
    <2>3. /\ Head(inbound) = inbound[1] /\ id \in Quotes /\ 1 \in 1 .. Len(inbound)
          /\ \A i \in 1 .. Len(inbound') : i + 1 \in 1 .. Len(inbound) /\ inbound'[i] = inbound[i + 1]
          /\ Len(inbound) \in Nat /\ Len(inbound') \in Nat
      BY <2>1, <2>2, LogTail DEF VenueRecords
    <2>4. IF Head(inbound).op = "CANCEL" THEN IsCancel(1, id) ELSE IsPlace(1, id)
      <3>1. Head(inbound) \in VenueRecords
        BY <2>2, LogTail
      <3>2. Head(inbound) = [op |-> Head(inbound).op, id |-> id]
        BY <2>1, <3>1 DEF VenueRecords
      <3> QED BY <2>3, <3>1, <3>2 DEF VenueRecords, IsCancel, IsPlace
    <2>5. \A i \in 1 .. Len(inbound') : \A q : (IsPlace(i, q)' <=> IsPlace(i + 1, q)) /\ (IsCancel(i, q)' <=> IsCancel(i + 1, q))
      BY <2>3 DEF IsPlace, IsCancel
    <2>6. /\ \A q \in book' : q \in book \/ (q = id /\ Head(inbound).op = "PLACE")
          /\ Head(inbound).op = "CANCEL" => id \notin book'
      BY <1>4, <2>1 DEF Match
    <2>7. OwnQuotesNeverMeet'
      <3> SUFFICES ASSUME NEW pair \in met', pair \notin met
                   PROVE  pair \cap slipped # {}
        BY <1>1 DEF OwnQuotesNeverMeet
      <3>1. PICK q \in Crossing(id) : pair = {id, q} /\ Head(inbound).op = "PLACE"
        BY <1>4, <2>1 DEF Match
      <3>2. q \in book /\ q \in Quotes /\ Meets(id, q)
        BY <3>1 DEF Crossing, Meets, MakerTypes
      <3>3. IsPlace(1, id)
        BY <2>4, <3>1
      <3>4. \A j \in 1 .. 1 : ~IsCancel(j, q)
        BY <3>3 DEF IsPlace, IsCancel
      <3> QED BY <2>3, <3>1, <3>2, <3>3, <3>4 DEF ApartOK
    <2>8. ASSUME NEW x \in Quotes \ slipped, NEW i \in 1 .. Len(inbound'), IsPlace(i, x)',
                 NEW q \in Quotes \ slipped, Meets(x, q),
                 q \in book' \/ \E k \in 1 .. i : IsPlace(k, q)'
          PROVE  \E j \in 1 .. i : IsCancel(j, q)'
      <3>1. i + 1 \in 1 .. Len(inbound) /\ IsPlace(i + 1, x)
        BY <2>3, <2>5, <2>8
      <3>2. 1 \in 1 .. i + 1 /\ \A k \in 1 .. i : k + 1 \in 1 .. i + 1 /\ k \in 1 .. Len(inbound')
        BY <2>3
      <3>3. q \in book \/ \E k \in 1 .. i + 1 : IsPlace(k, q)
        <4>1. CASE q \in book'
          BY <2>4, <2>6, <3>2, <4>1
        <4>2. CASE \E k \in 1 .. i : IsPlace(k, q)'
          BY <2>5, <3>2, <4>2
        <4> QED BY <2>8, <4>1, <4>2
      <3>4. PICK j \in 1 .. i + 1 : IsCancel(j, q)
        BY <2>8, <3>1, <3>3 DEF ApartOK
      <3>5. j # 1
        <4> SUFFICES ASSUME IsCancel(1, q) PROVE FALSE
          BY <3>4
        <4>1. q = id /\ Head(inbound).op = "CANCEL"
          BY <2>1, <2>3 DEF IsCancel
        <4>2. PICK k \in 1 .. i : IsPlace(k, q)'
          BY <2>6, <2>8, <4>1
        <4>3. k + 1 \in 1 .. Len(inbound) /\ IsPlace(k + 1, q) /\ 1 \in 1 .. k + 1
          BY <2>3, <2>5, <3>2, <4>2
        <4> QED BY <4>3 DEF VenueOK
      <3>6. j - 1 \in 1 .. i /\ (j - 1) + 1 = j
        BY <2>3, <3>4, <3>5
      <3>7. IsCancel(j - 1, q)'
        BY <2>5, <3>2, <3>4, <3>6
      <3> QED BY <3>6, <3>7
    <2>9. \A x, q : Meets(x, q)' <=> Meets(x, q)
      BY <1>1 DEF Meets
    <2>10. ApartOK'
      BY <1>1, <2>8, <2>9 DEF ApartOK
    <2> QED BY <1>2, <2>7, <2>10
  <1> QED BY <1>3, <1>4

\* Every step keeps the maker's own quotes apart.
LEMMA StepMeet ==
    ASSUME SpreadBps > 0, MeetInv, [MakerNext]_makerVars
    PROVE  MeetInv'
  <1>1. WatchInv'
    BY StepWatch DEF MeetInv
  <1>2. CASE UNCHANGED makerVars
    <2>1. UNCHANGED <<price, inbound, book, slipped, met, calls, resting, ref>>
      BY <1>2 DEF makerVars
    <2> QED BY <1>1, <2>1, ApartSame DEF MeetInv, AroundOK, OwnQuotesNeverMeet
  <1>3. CASE RestartMaker
    <2>1. /\ UNCHANGED <<price, inbound, book, met>> /\ slipped \subseteq slipped'
          /\ ref' = 0 /\ calls' = <<>>
      BY <1>3 DEF RestartMaker, orderVars, venueVars
    <2>2. AroundOK' /\ OwnQuotesNeverMeet'
      BY <2>1 DEF AroundOK, OwnQuotesNeverMeet, MeetInv
    <2> QED BY <1>1, <2>1, <2>2, ApartSame DEF MeetInv
  <1> QED BY <1>1, <1>2, <1>3, QuoteMeet, CancelMeet, PlaceMeet, BookMeet DEF MakerNext, MeetInv

\* As long as there is a spread, two of the maker's own quotes trade with each
\* other only if one of them is a quote it lost track of: at a requote the old ones
\* are out of the book before the new ones are in, whatever the mark does between
\* (mm.go, QuoteOnce).
THEOREM QuotesApart ==
    ASSUME SpreadBps > 0
    PROVE  MakerSpec => []OwnQuotesNeverMeet
  <1>1. MakerInit => MeetInv
    <2> SUFFICES ASSUME MakerInit PROVE MeetInv
      OBVIOUS
    <2>1. WatchInv
      BY WatchStarts
    <2> QED BY <2>1 DEF MakerInit, MeetInv, AroundOK, ApartOK, OwnQuotesNeverMeet
  <1>2. MeetInv /\ [MakerNext]_makerVars => MeetInv'
    BY StepMeet
  <1>3. MeetInv => OwnQuotesNeverMeet
    BY DEF MeetInv
  <1> QED BY <1>1, <1>2, <1>3, PTL DEF MakerSpec
=============================================================================

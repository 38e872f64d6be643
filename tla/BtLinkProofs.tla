----------------------------- MODULE BtLinkProofs -----------------------------
(***************************************************************************)
(* What the link guarantees to every program over it, for any channels:    *)
(* the packets about a channel arrive in the order of the channel's        *)
(* generations, and never before the generation exists.                    *)
(***************************************************************************)
EXTENDS BtLink, TLAPS

\* Of each channel: the packets in the air, between what was seen and told.
QueueOrdered(c) ==
  /\ \A i \in 1 .. Len(air) : air[i].ch = c => seen[c] <= air[i].n /\ air[i].n <= told[c]
  /\ \A i, j \in 1 .. Len(air) : i < j /\ air[i].ch = c /\ air[j].ch = c => air[i].n <= air[j].n
  /\ seen[c] <= told[c]

HistoryOrdered(c) == told[c] <= gen[c] /\ since[c] <= gen[c]

LinkInv == LinkTypeOK /\ \A c \in Chan : QueueOrdered(c) /\ HistoryOrdered(c)

NumbersOK == /\ gen \in [Chan -> Nat] /\ told \in [Chan -> Nat]
             /\ since \in [Chan -> Nat] /\ seen \in [Chan -> Nat]

LEMMA LinkNumbers == LinkTypeOK => NumbersOK
  BY DEF LinkTypeOK, NumbersOK

-----------------------------------------------------------------------------
(***************************************************************************)
(* The queue.                                                              *)
(***************************************************************************)
LEMMA AppendFacts ==
  ASSUME NEW S, NEW s \in Seq(S), NEW e \in S
  PROVE  /\ Append(s, e) \in Seq(S)
         /\ Len(Append(s, e)) = Len(s) + 1
         /\ \A i \in 1 .. Len(s) : Append(s, e)[i] = s[i]
         /\ Append(s, e)[Len(s) + 1] = e
  OBVIOUS

LEMMA ElementFacts ==
  ASSUME NEW S, NEW s \in Seq(S)
  PROVE  Len(s) \in Nat /\ \A i \in 1 .. Len(s) : s[i] \in S
  OBVIOUS

LEMMA TailFacts ==
  ASSUME NEW S, NEW s \in Seq(S), s # << >>
  PROVE  /\ Head(s) = s[1]
         /\ Head(s) \in S
         /\ Len(s) \in Nat \ {0}
         /\ Tail(s) \in Seq(S)
         /\ Len(Tail(s)) = Len(s) - 1
         /\ \A i \in 1 .. Len(Tail(s)) : Tail(s)[i] = s[i + 1]
  OBVIOUS

LEMMA EmptyFacts ==
  ASSUME NEW S
  PROVE  << >> \in Seq(S) /\ Len(<< >>) = 0
  OBVIOUS

\* A packet about c that carries nothing older than the last one about c.
LEMMA SendOrdered ==
  ASSUME LinkInv, NEW c \in Chan, NEW b \in BOOLEAN, NEW n \in Nat,
         told[c] <= n, Send(c, b, n), UNCHANGED seen
  PROVE  /\ air' \in Seq(Packet) /\ told' \in [Chan -> Nat]
         /\ told' = [told EXCEPT ![c] = n]
         /\ \A d \in Chan : QueueOrdered(d)'
  <1> DEFINE p == [ch |-> c, rsp |-> b, n |-> n]
  <1>0. NumbersOK /\ air \in Seq(Packet)
    BY LinkNumbers DEF LinkInv, LinkTypeOK
  <1>1. /\ p \in Packet /\ air' = Append(air, p)
        /\ p.n = n /\ p.ch = c
        /\ told' = [told EXCEPT ![c] = n]
    BY DEF Send, Packet
  <1>2. told' \in [Chan -> Nat]
    BY <1>0, <1>1 DEF NumbersOK
  <1> HIDE DEF p
  <1>3. /\ air' \in Seq(Packet)
        /\ Len(air) \in Nat
        /\ Len(air') = Len(air) + 1
        /\ \A i \in 1 .. Len(air) : air'[i] = air[i]
        /\ air'[Len(air) + 1] = p
    BY <1>0, <1>1, AppendFacts, ElementFacts
  <1>4. \A i \in 1 .. Len(air) : air[i].n \in Nat
    <2>1. \A i \in 1 .. Len(air) : air[i] \in Packet
      BY <1>0, ElementFacts
    <2> QED BY <2>1 DEF Packet
  <1>5. ASSUME NEW d \in Chan
        PROVE  QueueOrdered(d)'
    <2>0. /\ QueueOrdered(d)
          /\ seen[d] \in Nat /\ told[d] \in Nat /\ told'[d] \in Nat /\ told[d] <= told'[d]
          /\ seen'[d] = seen[d] /\ told'[c] = n /\ seen[d] <= told[d]
      BY <1>0, <1>1 DEF LinkInv, NumbersOK, QueueOrdered
    <2>1. ASSUME NEW i \in 1 .. Len(air'), air'[i].ch = d
          PROVE  seen'[d] <= air'[i].n /\ air'[i].n <= told'[d]
      <3>1. CASE i \in 1 .. Len(air)
        <4>1. seen[d] <= air[i].n /\ air[i].n <= told[d]
          BY <1>3, <2>0, <2>1, <3>1 DEF QueueOrdered
        <4> QED BY <1>3, <1>4, <2>0, <3>1, <4>1
      <3>2. CASE i = Len(air) + 1
        BY <1>1, <1>3, <2>0, <2>1, <3>2
      <3> QED BY <1>3, <3>1, <3>2
    <2>2. ASSUME NEW i \in 1 .. Len(air'), NEW j \in 1 .. Len(air'), i < j, air'[i].ch = d, air'[j].ch = d
          PROVE  air'[i].n <= air'[j].n
      <3>1. i \in 1 .. Len(air)
        BY <1>3, <2>2
      <3>2. CASE j \in 1 .. Len(air)
        BY <1>3, <2>0, <2>2, <3>1, <3>2 DEF QueueOrdered
      <3>3. CASE j = Len(air) + 1
        <4>1. air'[j].n = n /\ c = d /\ air'[i] = air[i]
          BY <1>1, <1>3, <2>2, <3>1, <3>3
        <4>2. air[i].n <= told[d] /\ air[i].n \in Nat
          BY <1>4, <2>0, <2>2, <3>1, <4>1 DEF QueueOrdered
        <4> QED BY <2>0, <4>1, <4>2
      <3> QED BY <1>3, <3>2, <3>3
    <2>3. seen'[d] <= told'[d]
      BY <2>0
    <2> QED BY <2>1, <2>2, <2>3 DEF QueueOrdered
  <1> QED BY <1>1, <1>2, <1>3, <1>5

LEMMA ReceiveKeeps ==
  ASSUME LinkInv, Receive
  PROVE  LinkInv' /\ \A d \in Chan : seen[d] <= seen'[d] /\ seen'[d] <= told[d]
  <1> DEFINE p == Head(air)
  <1>0. NumbersOK /\ air \in Seq(Packet)
    BY LinkNumbers DEF LinkInv, LinkTypeOK
  <1>1. /\ air # << >> /\ air' = Tail(air)
        /\ seen' = [seen EXCEPT ![p.ch] = p.n]
        /\ UNCHANGED <<link, registered, ccc, val, gen, told, since>>
    BY DEF Receive
  <1>2. /\ p = air[1] /\ p \in Packet
        /\ Len(air) \in Nat \ {0}
        /\ air' \in Seq(Packet)
        /\ Len(air') = Len(air) - 1
        /\ \A i \in 1 .. Len(air') : air'[i] = air[i + 1]
    BY <1>0, <1>1, TailFacts
  <1> HIDE DEF p
  <1>3. p.ch \in Chan /\ p.n \in Nat
    BY <1>2 DEF Packet
  <1>4. seen' \in [Chan -> Nat]
    BY <1>0, <1>1, <1>3 DEF NumbersOK
  <1>5. ASSUME NEW d \in Chan
        PROVE  /\ QueueOrdered(d)' /\ HistoryOrdered(d)'
               /\ seen[d] <= seen'[d] /\ seen'[d] <= told[d]
    <2>0. QueueOrdered(d) /\ HistoryOrdered(d) /\ seen[d] \in Nat /\ told[d] \in Nat
      BY <1>0 DEF LinkInv, NumbersOK
    <2>1. \A i, j \in 1 .. Len(air') : i < j /\ air'[i].ch = d /\ air'[j].ch = d => air'[i].n <= air'[j].n
      <3> SUFFICES ASSUME NEW i \in 1 .. Len(air'), NEW j \in 1 .. Len(air'), i < j,
                          air'[i].ch = d, air'[j].ch = d
                   PROVE  air'[i].n <= air'[j].n
        OBVIOUS
      <3>1. i + 1 \in 1 .. Len(air) /\ j + 1 \in 1 .. Len(air) /\ i + 1 < j + 1
        BY <1>2
      <3>2. air'[i] = air[i + 1] /\ air'[j] = air[j + 1]
        BY <1>2
      <3> QED BY <2>0, <3>1, <3>2 DEF QueueOrdered
    <2>2. CASE d = p.ch
      <3>1. seen'[d] = p.n
        BY <1>0, <1>1, <2>2 DEF NumbersOK
      <3>2. 1 \in 1 .. Len(air) /\ air[1].ch = d /\ air[1].n = p.n
        BY <1>2, <2>2
      <3>3. seen[d] <= p.n /\ p.n <= told[d]
        BY <2>0, <3>2 DEF QueueOrdered
      <3>4. \A i \in 1 .. Len(air') : air'[i].ch = d => p.n <= air'[i].n /\ air'[i].n <= told[d]
        <4> SUFFICES ASSUME NEW i \in 1 .. Len(air'), air'[i].ch = d
                     PROVE  p.n <= air'[i].n /\ air'[i].n <= told[d]
          OBVIOUS
        <4>1. i + 1 \in 1 .. Len(air) /\ 1 < i + 1 /\ air'[i] = air[i + 1]
          BY <1>2
        <4> QED BY <2>0, <3>2, <4>1 DEF QueueOrdered
      <3> QED BY <1>1, <2>0, <2>1, <3>1, <3>3, <3>4 DEF QueueOrdered, HistoryOrdered
    <2>3. CASE d # p.ch
      <3>1. seen'[d] = seen[d] /\ seen[d] <= told[d]
        BY <1>0, <1>1, <2>0, <2>3 DEF NumbersOK, QueueOrdered
      <3>2. \A i \in 1 .. Len(air') : air'[i].ch = d => seen[d] <= air'[i].n /\ air'[i].n <= told[d]
        <4> SUFFICES ASSUME NEW i \in 1 .. Len(air'), air'[i].ch = d
                     PROVE  seen[d] <= air'[i].n /\ air'[i].n <= told[d]
          OBVIOUS
        <4>1. i + 1 \in 1 .. Len(air) /\ air'[i] = air[i + 1]
          BY <1>2
        <4> QED BY <2>0, <4>1 DEF QueueOrdered
      <3> QED BY <1>1, <2>0, <2>1, <3>1, <3>2 DEF QueueOrdered, HistoryOrdered
    <2> QED BY <2>2, <2>3
  <1>6. LinkTypeOK'
    BY <1>1, <1>2, <1>4 DEF LinkInv, LinkTypeOK
  <1> QED BY <1>5, <1>6 DEF LinkInv

LEMMA LinkStarts == LinkInit => LinkInv
  <1> SUFFICES ASSUME LinkInit PROVE LinkInv
    OBVIOUS
  <1>1. LinkTypeOK
    BY EmptyFacts DEF LinkInit, LinkTypeOK
  <1>2. 1 .. Len(air) = {}
    BY EmptyFacts DEF LinkInit
  <1>3. \A c \in Chan : seen[c] = 0 /\ told[c] = 0 /\ gen[c] = 0 /\ since[c] = 0
    BY DEF LinkInit
  <1> QED BY <1>1, <1>2, <1>3 DEF LinkInv, QueueOrdered, HistoryOrdered

-----------------------------------------------------------------------------
(***************************************************************************)
(* The other actions.                                                      *)
(***************************************************************************)
\* Advertising, registering, connecting and cleaning up change no packet.
LEMMA QuietKeeps ==
  ASSUME LinkInv, UNCHANGED <<val, air, gen, told, since, seen>>,
         link' \in {"off", "advertising", "connected", "lost"}, registered' \in BOOLEAN,
         ccc' \in [Chan -> BOOLEAN]
  PROVE  LinkInv'
  BY DEF LinkInv, LinkTypeOK, QueueOrdered, HistoryOrdered

LEMMA LinkQuiet ==
  ASSUME LinkInv, StartAdvertising \/ RegisterCallbacks \/ LinkUp \/ LinkCleanup \/ UNCHANGED linkVars
  PROVE  LinkInv' /\ UNCHANGED <<val, air, gen, told, since, seen>>
  <1>1. UNCHANGED <<val, air, gen, told, since, seen>>
    BY DEF StartAdvertising, RegisterCallbacks, LinkUp, LinkCleanup, linkVars
  <1>2. /\ link' \in {"off", "advertising", "connected", "lost"} /\ registered' \in BOOLEAN
        /\ ccc' \in [Chan -> BOOLEAN]
    BY DEF LinkInv, LinkTypeOK, StartAdvertising, RegisterCallbacks, LinkUp, LinkCleanup, linkVars
  <1> QED BY <1>1, <1>2, QuietKeeps

\* A value changes by one generation, or not at all.
LEMMA StoreFacts ==
  ASSUME LinkInv, NEW c \in Chan, NEW v \in Nat, Store(c, v)
  PROVE  /\ val' \in [Chan -> Nat] /\ gen' \in [Chan -> Nat]
         /\ \A d \in Chan : gen[d] <= gen'[d] /\ (d # c => gen'[d] = gen[d])
         /\ \/ gen'[c] = gen[c]
            \/ gen[c] < MaxGen[c] /\ gen'[c] = gen[c] + 1
  <1>1. gen \in [Chan -> Nat] /\ val \in [Chan -> Nat]
    BY DEF LinkInv, LinkTypeOK
  <1>2. val' \in [Chan -> Nat]
    BY <1>1 DEF Store
  <1>3. CASE v = val[c]
    BY <1>1, <1>2, <1>3 DEF Store
  <1>4. CASE v # val[c]
    BY <1>1, <1>2, <1>4 DEF Store, CanStore
  <1> QED BY <1>3, <1>4

LEMMA StoreKeeps ==
  ASSUME LinkInv, NEW c \in Chan, NEW v \in Nat, Store(c, v),
         UNCHANGED <<link, registered, ccc, air, told, since, seen>>
  PROVE  LinkInv'
  <1>1. NumbersOK
    BY LinkNumbers DEF LinkInv
  <1>2. /\ val' \in [Chan -> Nat] /\ gen' \in [Chan -> Nat]
        /\ \A d \in Chan : gen[d] <= gen'[d]
    BY StoreFacts
  <1>3. LinkTypeOK'
    BY <1>2 DEF LinkInv, LinkTypeOK
  <1>4. ASSUME NEW d \in Chan
        PROVE  QueueOrdered(d)' /\ HistoryOrdered(d)'
    <2>1. QueueOrdered(d) /\ HistoryOrdered(d) /\ gen[d] <= gen'[d]
          /\ gen[d] \in Nat /\ gen'[d] \in Nat /\ told[d] \in Nat /\ since[d] \in Nat
      BY <1>1, <1>2 DEF LinkInv, NumbersOK
    <2>2. QueueOrdered(d)'
      BY <2>1 DEF QueueOrdered
    <2>3. HistoryOrdered(d)'
      BY <2>1 DEF HistoryOrdered
    <2> QED BY <2>2, <2>3
  <1> QED BY <1>3, <1>4 DEF LinkInv

\* A packet with a generation that exists, not older than the last one told.
LEMMA SendKeeps ==
  ASSUME LinkInv, NEW c \in Chan, NEW b \in BOOLEAN, NEW n \in Nat,
         told[c] <= n, Send(c, b, n), UNCHANGED seen,
         val' \in [Chan -> Nat], gen' \in [Chan -> Nat], since' \in [Chan -> Nat],
         ccc' \in [Chan -> BOOLEAN], UNCHANGED <<link, registered>>,
         n <= gen'[c], \A d \in Chan : gen[d] <= gen'[d] /\ since'[d] <= gen'[d]
  PROVE  LinkInv' /\ told' = [told EXCEPT ![c] = n]
  <1>1. NumbersOK
    BY LinkNumbers DEF LinkInv
  <1>2. /\ air' \in Seq(Packet) /\ told' \in [Chan -> Nat]
        /\ told' = [told EXCEPT ![c] = n]
        /\ \A d \in Chan : QueueOrdered(d)'
    BY SendOrdered
  <1>3. LinkTypeOK'
    BY <1>2 DEF LinkInv, LinkTypeOK
  <1>4. ASSUME NEW d \in Chan
        PROVE  HistoryOrdered(d)'
    <2>1. /\ told[d] <= gen[d] /\ gen[d] <= gen'[d] /\ since'[d] <= gen'[d]
          /\ gen[d] \in Nat /\ gen'[d] \in Nat /\ told[d] \in Nat
      BY <1>1 DEF LinkInv, HistoryOrdered, NumbersOK
    <2>2. told'[d] = IF d = c THEN n ELSE told[d]
      BY <1>1, <1>2 DEF NumbersOK
    <2> QED BY <2>1, <2>2 DEF HistoryOrdered
  <1> QED BY <1>2, <1>3, <1>4 DEF LinkInv

\* The host sends the newest value, for a notification or a read.
LEMMA NewestKeeps ==
  ASSUME LinkInv, NEW c \in Chan, NEW b \in BOOLEAN, Send(c, b, gen[c]),
         UNCHANGED <<link, registered, ccc, val, gen, since, seen>>
  PROVE  LinkInv' /\ told' = [told EXCEPT ![c] = gen[c]]
  <1>1. /\ gen[c] \in Nat /\ told[c] <= gen[c] /\ gen[c] <= gen'[c]
        /\ \A d \in Chan : gen[d] <= gen'[d] /\ since'[d] <= gen'[d]
    BY DEF LinkInv, LinkTypeOK, HistoryOrdered
  <1>2. /\ val' \in [Chan -> Nat] /\ gen' \in [Chan -> Nat] /\ since' \in [Chan -> Nat]
        /\ ccc' \in [Chan -> BOOLEAN]
    BY DEF LinkInv, LinkTypeOK
  <1> QED BY <1>1, <1>2, SendKeeps

LEMMA DropKeeps ==
  ASSUME LinkInv, LinkDrop
  PROVE  LinkInv'
  <1>1. NumbersOK
    BY LinkNumbers DEF LinkInv
  <1>2. LinkTypeOK'
    BY EmptyFacts DEF LinkInv, LinkTypeOK, LinkDrop
  <1>3. 1 .. Len(air') = {}
    BY EmptyFacts DEF LinkDrop
  <1>4. ASSUME NEW d \in Chan
        PROVE  QueueOrdered(d)' /\ HistoryOrdered(d)'
    <2>1. /\ seen[d] <= told[d] /\ told[d] <= gen[d] /\ since[d] <= gen[d]
          /\ seen[d] \in Nat /\ told[d] \in Nat /\ gen[d] \in Nat
      BY <1>1 DEF LinkInv, QueueOrdered, HistoryOrdered, NumbersOK
    <2>2. told'[d] = seen[d] /\ seen'[d] = seen[d] /\ gen'[d] = gen[d] /\ since'[d] = since[d]
      BY DEF LinkDrop
    <2>3. seen'[d] <= told'[d] /\ told'[d] <= gen'[d] /\ since'[d] <= gen'[d]
      BY <2>1, <2>2
    <2> QED BY <1>3, <2>3 DEF QueueOrdered, HistoryOrdered
  <1> QED BY <1>2, <1>4 DEF LinkInv

\* A subscription starts at the current generation and its response brings none.
LEMMA CccKeeps ==
  ASSUME LinkInv, NEW c \in Chan, NEW on \in BOOLEAN, SetCcc(c, on)
  PROVE  /\ LinkInv' /\ told' = told
         /\ ccc' = [ccc EXCEPT ![c] = on] /\ since' \in [Chan -> Nat]
         /\ since' = IF on /\ ~ccc[c] THEN [since EXCEPT ![c] = gen[c]] ELSE since
         /\ link = "connected" /\ UNCHANGED <<link, registered, val, gen, seen>>
  <1>1. NumbersOK
    BY LinkNumbers DEF LinkInv
  <1>2. /\ Send(c, TRUE, told[c]) /\ ccc' = [ccc EXCEPT ![c] = on]
        /\ since' = IF on /\ ~ccc[c] THEN [since EXCEPT ![c] = gen[c]] ELSE since
        /\ link = "connected" /\ UNCHANGED <<link, registered, val, gen, seen>>
    BY DEF SetCcc, CanRequest
  <1>3. since' \in [Chan -> Nat] /\ \A d \in Chan : since'[d] = since[d] \/ since'[d] = gen[d]
    BY <1>1, <1>2 DEF NumbersOK
  <1>4. \A d \in Chan : gen[d] <= gen'[d] /\ since'[d] <= gen'[d]
    BY <1>1, <1>2, <1>3 DEF LinkInv, HistoryOrdered, NumbersOK
  <1>5. told[c] \in Nat /\ told[c] <= told[c] /\ told[c] <= gen'[c]
    BY <1>1, <1>2 DEF LinkInv, HistoryOrdered, NumbersOK
  <1>6. ccc' \in [Chan -> BOOLEAN] /\ val' \in [Chan -> Nat] /\ gen' \in [Chan -> Nat]
    BY <1>2 DEF LinkInv, LinkTypeOK
  <1>7. LinkInv' /\ told' = [told EXCEPT ![c] = told[c]]
    BY <1>2, <1>3, <1>4, <1>5, <1>6, SendKeeps
  <1>8. told' = told
    BY <1>1, <1>7 DEF NumbersOK
  <1> QED BY <1>2, <1>3, <1>7, <1>8

LEMMA WriteKeeps ==
  ASSUME LinkInv, NEW c \in Chan, NEW v \in Nat, NEW informs, WriteValue(c, v, informs)
  PROVE  /\ LinkInv' /\ Store(c, v)
         /\ \A d \in Chan : told[d] <= told'[d]
         /\ UNCHANGED <<link, registered, ccc, since, seen>>
  <1>1. NumbersOK
    BY LinkNumbers DEF LinkInv
  <1>2. /\ Store(c, v) /\ UNCHANGED <<link, registered, ccc, since, seen>>
        /\ Send(c, TRUE, IF informs THEN gen'[c] ELSE told[c])
    BY DEF WriteValue
  <1>3. /\ val' \in [Chan -> Nat] /\ gen' \in [Chan -> Nat]
        /\ \A d \in Chan : gen[d] <= gen'[d]
    BY <1>2, StoreFacts
  <1>4. PICK n \in {gen'[c], told[c]} : Send(c, TRUE, n)
    BY <1>2
  <1>5. n \in Nat /\ told[c] <= n /\ n <= gen'[c] /\ told[c] \in Nat
    BY <1>1, <1>3 DEF LinkInv, HistoryOrdered, NumbersOK
  <1>6. \A d \in Chan : gen[d] <= gen'[d] /\ since'[d] <= gen'[d]
    <2> TAKE d \in Chan
    <2>1. /\ since'[d] = since[d] /\ since[d] <= gen[d] /\ gen[d] <= gen'[d]
          /\ since[d] \in Nat /\ gen[d] \in Nat /\ gen'[d] \in Nat
      BY <1>1, <1>2, <1>3 DEF LinkInv, HistoryOrdered, NumbersOK
    <2> QED BY <2>1
  <1>7. since' \in [Chan -> Nat] /\ ccc' \in [Chan -> BOOLEAN]
    BY <1>2 DEF LinkInv, LinkTypeOK
  <1>8. LinkInv' /\ told' = [told EXCEPT ![c] = n]
    BY <1>2, <1>3, <1>4, <1>5, <1>6, <1>7, SendKeeps
  <1>9. \A d \in Chan : told[d] <= told'[d]
    BY <1>1, <1>5, <1>8 DEF NumbersOK
  <1> QED BY <1>2, <1>8, <1>9


-----------------------------------------------------------------------------
(***************************************************************************)
(* What the central knows.                                                 *)
(***************************************************************************)
LEMMA KnownFacts ==
  ASSUME LinkInv, NEW c \in Chan
  PROVE  gen[c] \in Nat /\ Known(c) \in Nat /\ Known(c) <= gen[c]
  BY DEF LinkInv, LinkTypeOK, QueueOrdered, HistoryOrdered, Known, Newer

\* It learns by receiving, in order, and nothing that does not exist yet.
LEMMA ReceiveKnown ==
  ASSUME LinkInv, Receive, NEW c \in Chan
  PROVE  Known(c)' \in Nat /\ Known(c) <= Known(c)' /\ Known(c)' <= gen[c]
  <1>1. /\ seen[c] <= seen'[c] /\ seen'[c] <= told[c] /\ LinkInv'
        /\ since' = since
    BY ReceiveKeeps DEF Receive
  <1>2. /\ gen[c] \in Nat /\ seen[c] \in Nat /\ since[c] \in Nat /\ told[c] \in Nat
        /\ seen'[c] \in Nat /\ told[c] <= gen[c] /\ since[c] <= gen[c]
    BY <1>1 DEF LinkInv, LinkTypeOK, HistoryOrdered
  <1> QED BY <1>1, <1>2 DEF Known, Newer
=============================================================================

------------------------ MODULE TelemetryStoreProofs ------------------------
(***************************************************************************)
(* Proofs about TelemetryStore and the telemetry it keeps: for any         *)
(* producers and nodes, all payloads, tables of any size and any number of *)
(* frames, answers and failures.                                           *)
(***************************************************************************)
EXTENDS TelemetryStore, WellFoundedInduction, FiniteSetTheorems, TLAPS

-----------------------------------------------------------------------------
(* Induction over numbers and over sequences.                               *)

LEMMA LeastNatural ==
    ASSUME NEW T, T # {}, T \subseteq Nat
    PROVE  \E n \in T : \A m \in T : ~(m < n)
<1> DEFINE R == OpToRel(<, Nat)
<1>1. IsWellFoundedOn(R, Nat)
  BY NatLessThanWellFounded, Zenon
<1>2. R = {pair \in Nat \X Nat : pair[1] < pair[2]}
  BY Zenon DEF OpToRel
<1> HIDE DEF R
<1>3. PICK n \in T : \A m \in T : ~(<<m, n>> \in R)
  BY <1>1, WFMin, Zenon
<1>4. \A m \in T : m < n => <<m, n>> \in R
  BY <1>2
<1> QED
  BY <1>3, <1>4

LEMMA AllNaturals ==
    ASSUME NEW S, 0 \in S, \A n \in S : n + 1 \in S
    PROVE  Nat \subseteq S
<1> SUFFICES ASSUME Nat \ S # {} PROVE FALSE
  OBVIOUS
<1>1. PICK n \in Nat \ S : \A m \in Nat \ S : ~(m < n)
  BY LeastNatural
<1>2. n # 0 /\ n - 1 \in Nat
  BY <1>1
<1>3. n - 1 \in S
  BY <1>1, <1>2
<1>4. n - 1 + 1 \in S
  BY <1>3
<1> QED
  BY <1>1, <1>2, <1>4

\* A set of positions has a first and a last one.
LEMMA FirstAndLast ==
    ASSUME NEW n \in Nat, NEW T \in SUBSET (1..n), T # {}
    PROVE  /\ \E k \in T : \A j \in T : k <= j
           /\ \E k \in T : \A j \in T : j <= k
<1>0. T \subseteq Nat
  OBVIOUS
<1>1. PICK k \in T : \A j \in T : ~(j < k)
  BY <1>0, LeastNatural, Zenon
<1>2. k \in T /\ \A j \in T : k <= j
  BY <1>1
<1> DEFINE U == {n - j : j \in T}
<1>3. U # {} /\ U \subseteq Nat
  OBVIOUS
<1> HIDE DEF U
<1>4. PICK d \in U : \A e \in U : ~(e < d)
  BY <1>3, LeastNatural, Zenon
<1>5. PICK l \in T : d = n - l
  BY <1>4 DEF U
<1>6. \A j \in T : j <= l
  <2> SUFFICES ASSUME NEW j \in T PROVE j <= l
    OBVIOUS
  <2>1. ~(n - j < d)
    BY <1>4 DEF U
  <2> QED
    BY <1>5, <2>1
<1> QED
  BY <1>2, <1>5, <1>6

\* What holds of the empty sequence and with one element more holds of all.
LEMMA AllSequences ==
    ASSUME NEW T, NEW S, <<>> \in S,
           \A s \in Seq(T) : \A e \in T : s \in S => Append(s, e) \in S
    PROVE  Seq(T) \subseteq S
<1> DEFINE N == {n \in Nat : \A s \in Seq(T) : Len(s) = n => s \in S}
<1>1. 0 \in N
  <2> SUFFICES ASSUME NEW s \in Seq(T), Len(s) = 0 PROVE s \in S
    OBVIOUS
  <2>1. s = <<>>
    OBVIOUS
  <2> QED
    BY <2>1
<1>2. ASSUME NEW n \in N PROVE n + 1 \in N
  <2> SUFFICES ASSUME NEW s \in Seq(T), Len(s) = n + 1 PROVE s \in S
    OBVIOUS
  <2> DEFINE front == SubSeq(s, 1, n)
             e == s[n + 1]
  <2>1. front \in Seq(T) /\ Len(front) = n /\ e \in T
    OBVIOUS
  <2>2. Append(front, e) = s
    OBVIOUS
  <2>3. front \in S
    BY <2>1
  <2> HIDE DEF front, e
  <2> QED
    BY <2>1, <2>2, <2>3
<1>3. Nat \subseteq N
  <2> HIDE DEF N
  <2> QED
    BY <1>1, <1>2, AllNaturals
<1> QED
  BY <1>3

-----------------------------------------------------------------------------
(* Sequences of sequences.                                                  *)

\* f has the first n of the sequences, one after the other.
Joined(f, seqs, n) == f = [i \in 1..n |-> IF i = 1 THEN seqs[1] ELSE f[i - 1] \o seqs[i]]

LEMMA JoinedSteps ==
    ASSUME NEW f, NEW seqs, NEW n \in Nat, Joined(f, seqs, n)
    PROVE  /\ n # 0 => f[1] = seqs[1]
           /\ \A i \in 2..n : f[i] = f[i - 1] \o seqs[i]
           /\ \A i \in 1 .. n - 1 : f[i + 1] = f[i] \o seqs[i + 1]
<1>1. \A i \in 2..n : i \in 1..n /\ i # 1
  OBVIOUS
<1>2. n # 0 => 1 \in 1..n
  OBVIOUS
<1>3. \A i \in 1..n : f[i] = IF i = 1 THEN seqs[1] ELSE f[i - 1] \o seqs[i]
  BY Zenon DEF Joined
<1>4. \A i \in 2..n : f[i] = f[i - 1] \o seqs[i]
  BY <1>1, <1>3, Zenon
<1>5. ASSUME NEW i \in 1 .. n - 1 PROVE f[i + 1] = f[i] \o seqs[i + 1]
  <2> DEFINE k == i + 1
  <2>1. k \in 2..n /\ k - 1 = i
    OBVIOUS
  <2> HIDE DEF k
  <2>2. f[k] = f[i] \o seqs[k]
    BY <1>4, <2>1, Zenon
  <2> QED
    BY <2>2 DEF k
<1> QED
  BY <1>2, <1>3, <1>4, <1>5, Zenon

LEMMA JoinedExists ==
    ASSUME NEW seqs, NEW n \in Nat
    PROVE  \E f : Joined(f, seqs, n)
<1> DEFINE S == {k \in Nat : \E f : Joined(f, seqs, k)}
<1>1. 0 \in S
  <2> DEFINE g == [i \in 1..0 |-> seqs[1]]
             h == [i \in 1..0 |-> IF i = 1 THEN seqs[1] ELSE g[i - 1] \o seqs[i]]
  <2>1. g = h
    OBVIOUS
  <2> QED
    BY <2>1 DEF Joined
<1>2. ASSUME NEW k \in S PROVE k + 1 \in S
  <2>1. PICK f : Joined(f, seqs, k)
    BY <1>2
  <2> DEFINE next == IF k = 0 THEN seqs[1] ELSE f[k] \o seqs[k + 1]
             g == [i \in 1 .. k + 1 |-> IF i = k + 1 THEN next ELSE f[i]]
             h == [i \in 1 .. k + 1 |-> IF i = 1 THEN seqs[1] ELSE g[i - 1] \o seqs[i]]
  <2>2. ASSUME NEW i \in 1 .. k + 1 PROVE g[i] = h[i]
    <3>1. CASE i = 1 /\ k = 0
      <4>1. g[i] = next /\ h[i] = seqs[1] /\ next = seqs[1]
        BY <3>1
      <4> QED
        BY <4>1
    <3>2. CASE i = 1 /\ k # 0
      <4>1. g[i] = f[1] /\ h[i] = seqs[1] /\ k # 0
        BY <3>2
      <4> QED
        BY <2>1, <4>1, JoinedSteps
    <3>3. CASE i # 1
      <4>1. h[i] = g[i - 1] \o seqs[i]
        BY <3>3, Zenon
      <4>2. CASE i = k + 1
        <5>1. k # 0 /\ i - 1 = k /\ k \in 1 .. k + 1 /\ k # k + 1
          BY <3>3, <4>2
        <5>2. g[i] = next /\ g[k] = f[k]
          BY <4>2, <5>1, Zenon
        <5>3. next = f[k] \o seqs[k + 1]
          BY <5>1, Zenon
        <5> HIDE DEF next, g, h
        <5> QED
          BY <4>1, <4>2, <5>1, <5>2, <5>3, Zenon
      <4>3. CASE i # k + 1
        <5>1. i \in 2..k /\ i - 1 \in 1 .. k + 1 /\ i - 1 # k + 1
          BY <3>3, <4>3
        <5>2. g[i] = f[i] /\ g[i - 1] = f[i - 1]
          BY <4>3, <5>1, Zenon
        <5>3. f[i] = f[i - 1] \o seqs[i]
          BY <2>1, <5>1, JoinedSteps, ZenonT(60)
        <5> HIDE DEF next, g, h
        <5> QED
          BY <4>1, <5>2, <5>3, Zenon
      <4> QED
        BY <4>2, <4>3, Zenon
    <3> QED
      BY <3>1, <3>2, <3>3, Zenon
  <2>3. g = h
    <3> HIDE DEF next
    <3> QED
      BY <2>2
  <2>4. Joined(g, seqs, k + 1)
    BY <2>3, Zenon DEF Joined
  <2> QED
    BY <2>4
<1>3. Nat \subseteq S
  <2> HIDE DEF S
  <2> QED
    BY <1>1, <1>2, AllNaturals
<1> QED
  BY <1>3

LEMMA FlattenIsJoined ==
    ASSUME NEW seqs, Len(seqs) \in Nat, Len(seqs) # 0
    PROVE  \E f : Joined(f, seqs, Len(seqs)) /\ FlattenSeq(seqs) = f[Len(seqs)]
<1> DEFINE Upto(f) == f = [i \in 1..Len(seqs) |-> IF i = 1 THEN seqs[i] ELSE f[i - 1] \o seqs[i]]
<1>1. FlattenSeq(seqs) = (CHOOSE f : Upto(f))[Len(seqs)]
  BY Zenon DEF FlattenSeq
<1>2. \A f : Joined(f, seqs, Len(seqs)) <=> Upto(f)
  <2>1. \A f, i : (IF i = 1 THEN seqs[1] ELSE f[i - 1] \o seqs[i])
                      = (IF i = 1 THEN seqs[i] ELSE f[i - 1] \o seqs[i])
    BY Zenon
  <2> QED
    BY <2>1, Zenon DEF Joined
<1>3. \E f : Upto(f)
  BY <1>2, JoinedExists, Zenon
<1> HIDE DEF Upto
<1>4. Upto(CHOOSE f : Upto(f))
  BY <1>3, Zenon
<1> QED
  BY <1>1, <1>2, <1>4, Zenon

LEMMA JoinedTyped ==
    ASSUME NEW T, NEW seqs \in Seq(Seq(T)), NEW f, Joined(f, seqs, Len(seqs))
    PROVE  \A i \in 1..Len(seqs) : f[i] \in Seq(T)
<1> DEFINE n == Len(seqs)
           S == {i \in Nat : i \in 1..n => f[i] \in Seq(T)}
<1>0. /\ n \in Nat /\ \A i \in 1..n : seqs[i] \in Seq(T)
      /\ Joined(f, seqs, n)
  OBVIOUS
<1> HIDE DEF n
<1>1. 0 \in S
  OBVIOUS
<1>2. ASSUME NEW i \in S PROVE i + 1 \in S
  <2> SUFFICES ASSUME i + 1 \in 1..n PROVE f[i + 1] \in Seq(T)
    OBVIOUS
  <2>1. CASE i = 0
    <3>1. f[1] = seqs[1]
      <4>1. n # 0 /\ 1 \in 1..n
        BY <1>0, <2>1
      <4> QED
        BY <1>0, <4>1, JoinedSteps, ZenonT(60)
    <3> QED
      BY <1>0, <2>1, <3>1
  <2>2. CASE i # 0
    <3>1. f[i] \in Seq(T) /\ seqs[i + 1] \in Seq(T) /\ i \in 1 .. n - 1
      BY <1>0, <1>2, <2>2
    <3>2. f[i + 1] = f[i] \o seqs[i + 1]
      BY <1>0, <3>1, JoinedSteps, ZenonT(60)
    <3> QED
      BY <3>1, <3>2
  <2> QED
    BY <2>1, <2>2
<1>3. Nat \subseteq S
  <2> HIDE DEF S
  <2> QED
    BY <1>1, <1>2, AllNaturals
<1> QED
  BY <1>3 DEF n

LEMMA FlattenEmpty == FlattenSeq(<<>>) = <<>>
<1>1. Len(<<>>) = 0
  OBVIOUS
<1> QED
  BY <1>1, Zenon DEF FlattenSeq

LEMMA FlattenTyped ==
    ASSUME NEW T, NEW seqs \in Seq(Seq(T))
    PROVE  FlattenSeq(seqs) \in Seq(T)
<1>1. CASE Len(seqs) = 0
  <2>1. seqs = <<>>
    BY <1>1
  <2>2. <<>> \in Seq(T)
    OBVIOUS
  <2> QED
    BY <2>1, <2>2, FlattenEmpty
<1>2. CASE Len(seqs) # 0
  <2>1. Len(seqs) \in Nat /\ Len(seqs) \in 1..Len(seqs)
    BY <1>2
  <2>2. PICK f : Joined(f, seqs, Len(seqs)) /\ FlattenSeq(seqs) = f[Len(seqs)]
    BY <1>2, <2>1, FlattenIsJoined
  <2> QED
    BY <2>1, <2>2, JoinedTyped
<1> QED
  BY <1>1, <1>2

\* One sequence more is joined to the end.
LEMMA FlattenAppend ==
    ASSUME NEW T, NEW seqs \in Seq(Seq(T)), NEW e \in Seq(T)
    PROVE  FlattenSeq(Append(seqs, e)) = FlattenSeq(seqs) \o e
<1> DEFINE more == Append(seqs, e)
           n == Len(seqs)
<1>1. /\ n \in Nat /\ Len(more) = n + 1 /\ more[n + 1] = e
      /\ \A i \in 1..n : more[i] = seqs[i]
      /\ n = 0 => seqs = <<>>
  OBVIOUS
<1> HIDE DEF more
<1>2. PICK g : Joined(g, more, n + 1) /\ FlattenSeq(more) = g[n + 1]
  BY <1>1, FlattenIsJoined
<1> DEFINE m == n + 1
<1>0. m \in Nat /\ m # 0 /\ Joined(g, more, m)
  BY <1>1, <1>2
<1> HIDE DEF m
<1>5. /\ g[1] = more[1]
      /\ \A i \in 1 .. m - 1 : g[i + 1] = g[i] \o more[i + 1]
  BY <1>0, JoinedSteps, ZenonT(60)
<1>3. CASE n = 0
  <2>1. FlattenSeq(more) = e
    BY <1>1, <1>2, <1>3, <1>5
  <2>2. <<>> \o e = e
    OBVIOUS
  <2> QED
    BY <1>1, <1>3, <2>1, <2>2, FlattenEmpty DEF more
<1>4. CASE n # 0
  <2>1. PICK f : Joined(f, seqs, n) /\ FlattenSeq(seqs) = f[n]
    BY <1>1, <1>4, FlattenIsJoined
  <2> HIDE DEF n
  <2>0. \A i \in 1 .. n - 1 : f[i + 1] = f[i] \o seqs[i + 1]
    <3>1. n \in Nat /\ Joined(f, seqs, n)
      BY <1>1, <2>1
    <3> QED
      BY <3>1, JoinedSteps, ZenonT(60)
  <2> DEFINE S == {i \in Nat : i \in 1..n => f[i] = g[i]}
  <2>2. 0 \in S
    OBVIOUS
  <2>3. ASSUME NEW i \in S PROVE i + 1 \in S
    <3> SUFFICES ASSUME i + 1 \in 1..n PROVE f[i + 1] = g[i + 1]
      OBVIOUS
    <3>1. CASE i = 0
      <4>1. f[1] = seqs[1]
        BY <1>1, <1>4, <2>1, JoinedSteps, ZenonT(60)
      <4>2. g[1] = more[1]
        BY <1>5
      <4> QED
        BY <1>1, <3>1, <4>1, <4>2
    <3>2. CASE i # 0
      <4>1. /\ f[i] = g[i] /\ more[i + 1] = seqs[i + 1]
            /\ i \in 1 .. n - 1 /\ i \in 1 .. m - 1
        BY <1>1, <2>3, <3>2 DEF m
      <4>2. f[i + 1] = f[i] \o seqs[i + 1]
        BY <2>0, <4>1, Zenon
      <4>3. g[i + 1] = g[i] \o more[i + 1]
        BY <1>5, <4>1, Zenon
      <4> QED
        BY <4>1, <4>2, <4>3
    <3> QED
      BY <3>1, <3>2
  <2>4. Nat \subseteq S
    <3> HIDE DEF S
    <3> QED
      BY <2>2, <2>3, AllNaturals
  <2>5. f[n] = g[n]
    BY <1>1, <1>4, <2>4
  <2>6. n \in 1 .. m - 1
    BY <1>1, <1>4 DEF m
  <2>7. g[n + 1] = g[n] \o more[n + 1]
    BY <1>5, <2>6, Zenon
  <2> QED
    BY <1>1, <1>2, <2>1, <2>5, <2>7 DEF more
<1> QED
  BY <1>3, <1>4

-----------------------------------------------------------------------------
(* The table of channels.                                                   *)

Channel == [id : {e.channel : e \in Entries}, metrics : MetricValues]

Named(channels) == {channels[k].id : k \in DOMAIN channels}

IsTable(channels) ==
    /\ channels \in Seq(Channel) /\ Len(channels) <= MaxChannels
    /\ \A j, k \in DOMAIN channels : channels[j].id = channels[k].id => j = k

LEMMA OverlayTyped ==
    ASSUME NEW a \in MetricValues, NEW b \in MetricValues
    PROVE  /\ Overlay(a, b) \in MetricValues
           /\ \A m \in Metrics : Overlay(a, b)[m] = IF b[m] # Unset THEN b[m] ELSE a[m]
BY DEF Overlay, MetricValues

LEMMA NothingTyped == NoMetrics \in MetricValues /\ \A m \in Metrics : NoMetrics[m] = Unset
BY DEF NoMetrics, MetricValues

LEMMA SaidTyped ==
    ASSUME NEW e \in Entries
    PROVE  /\ Said(e) \in MetricValues
           /\ \A m \in Metrics : Said(e)[m] \in {e.value, Unset}
BY DEF Said, MetricValues

LEMMA TableBound == MaxChannels \in Nat /\ MaxChannels > 0
BY ChannelAssumption

\* What becomes of a table when one channel is updated.
LEMMA UpdateKnown ==
    ASSUME NEW channels, IsTable(channels), NEW k \in 1..Len(channels),
           NEW metrics \in MetricValues
    PROVE  LET updated == UpdateChannel(channels, channels[k].id, metrics)
           IN  /\ IsTable(updated) /\ Len(updated) = Len(channels)
               /\ updated[k] = [id |-> channels[k].id,
                                metrics |-> Overlay(channels[k].metrics, metrics)]
               /\ \A j \in 1..Len(channels) : j # k => updated[j] = channels[j]
               /\ \A j \in 1..Len(channels) : updated[j].id = channels[j].id
               /\ Named(updated) = Named(channels)
<1> DEFINE id == channels[k].id
           new == [id |-> id, metrics |-> Overlay(channels[k].metrics, metrics)]
           updated == UpdateChannel(channels, id, metrics)
<1>1. /\ channels \in Seq(Channel) /\ DOMAIN channels = 1..Len(channels)
      /\ \A j \in 1..Len(channels) : channels[j] \in Channel /\ (channels[j].id = id => j = k)
      /\ Len(channels) \in Nat /\ Len(channels) <= MaxChannels
  BY DEF IsTable
<1>2. /\ channels[k] \in Channel /\ channels[k].metrics \in MetricValues
      /\ id \in {e.channel : e \in Entries}
  BY <1>1 DEF Channel
<1>3. Overlay(channels[k].metrics, metrics) \in MetricValues
  BY <1>2, OverlayTyped
<1>4. new \in Channel /\ new.id = id
  BY <1>2, <1>3 DEF Channel
<1>5. [channels[k] EXCEPT !.metrics = Overlay(channels[k].metrics, metrics)] = new
  BY <1>2 DEF Channel
<1>6. updated = [j \in 1..Len(channels) |->
                    IF channels[j].id = id
                    THEN [channels[j] EXCEPT !.metrics = Overlay(channels[j].metrics, metrics)]
                    ELSE channels[j]]
  BY <1>1, Zenon DEF UpdateChannel
<1> HIDE DEF new, updated, id
<1>7. updated[k] = new
  BY <1>5, <1>6 DEF id
<1>8. \A j \in 1..Len(channels) : j # k => updated[j] = channels[j]
  BY <1>1, <1>6
<1>9. \A j \in 1..Len(channels) : updated[j] \in Channel /\ updated[j].id = channels[j].id
  BY <1>1, <1>4, <1>7, <1>8 DEF id
<1>10. updated \in Seq(Channel) /\ Len(updated) = Len(channels) /\ DOMAIN updated = 1..Len(channels)
  <2>1. /\ updated = [j \in 1..Len(channels) |-> updated[j]]
        /\ DOMAIN updated = 1..Len(channels)
    BY <1>6
  <2> QED
    BY <1>1, <1>9, <2>1
<1>11. Named(updated) = Named(channels)
  BY <1>1, <1>9, <1>10 DEF Named
<1>12. IsTable(updated)
  <2>1. \A j, l \in DOMAIN updated : updated[j].id = updated[l].id => j = l
    BY <1>1, <1>9, <1>10 DEF IsTable
  <2> QED
    BY <1>1, <1>10, <2>1 DEF IsTable
<1> QED
  BY <1>7, <1>8, <1>9, <1>10, <1>11, <1>12 DEF new, updated, id

LEMMA UpdateNew ==
    ASSUME NEW channels, IsTable(channels), Len(channels) < MaxChannels,
           NEW id \in {e.channel : e \in Entries}, id \notin Named(channels),
           NEW metrics \in MetricValues
    PROVE  LET new == [id |-> id, metrics |-> Overlay(NoMetrics, metrics)]
               updated == UpdateChannel(channels, id, metrics)
           IN  /\ updated = Append(channels, new) /\ new \in Channel
               /\ IsTable(updated) /\ Len(updated) = Len(channels) + 1
               /\ \A j \in 1..Len(channels) : updated[j] = channels[j]
               /\ updated[Len(channels) + 1] = new
               /\ Named(updated) = Named(channels) \cup {id}
<1> DEFINE new == [id |-> id, metrics |-> Overlay(NoMetrics, metrics)]
           updated == UpdateChannel(channels, id, metrics)
           n == Len(channels)
<1>1. /\ channels \in Seq(Channel) /\ DOMAIN channels = 1..n
      /\ n \in Nat /\ n + 1 <= MaxChannels
  BY TableBound DEF IsTable
<1>2. new \in Channel /\ new.id = id
  BY NothingTyped, OverlayTyped DEF Channel
<1>3. \A j \in 1..n : channels[j].id # id
  BY <1>1 DEF Named
<1>4. updated = Append(channels, new)
  BY <1>1, <1>3, Zenon DEF UpdateChannel
<1> HIDE DEF new, updated
<1>5. /\ updated \in Seq(Channel) /\ Len(updated) = n + 1 /\ DOMAIN updated = 1 .. n + 1
      /\ \A j \in 1..n : updated[j] = channels[j]
      /\ updated[n + 1] = new
  BY <1>1, <1>2, <1>4
<1>6. Named(updated) = Named(channels) \cup {id}
  <2>1. ASSUME NEW x \in Named(updated) PROVE x \in Named(channels) \cup {id}
    BY <1>1, <1>2, <1>5, <2>1 DEF Named
  <2>2. ASSUME NEW x \in Named(channels) PROVE x \in Named(updated)
    <3>1. PICK j \in 1..n : x = channels[j].id
      BY <1>1, <2>2 DEF Named
    <3>2. j \in 1 .. n + 1 /\ x = updated[j].id
      BY <1>1, <1>5, <3>1
    <3> QED
      BY <1>5, <3>2 DEF Named
  <2>3. id \in Named(updated)
    <3>1. n + 1 \in 1 .. n + 1
      BY <1>1
    <3> QED
      BY <1>2, <1>5, <3>1 DEF Named
  <2> QED
    BY <2>1, <2>2, <2>3
<1>7. \A j, k \in 1 .. n + 1 : updated[j].id = updated[k].id => j = k
  <2> SUFFICES ASSUME NEW j \in 1 .. n + 1, NEW k \in 1 .. n + 1,
                      updated[j].id = updated[k].id
               PROVE  j = k
    OBVIOUS
  <2>1. CASE j \in 1..n /\ k \in 1..n
    BY <1>1, <1>5, <2>1 DEF IsTable
  <2>2. CASE j = n + 1 /\ k \in 1..n
    BY <1>2, <1>3, <1>5, <2>2
  <2>3. CASE j \in 1..n /\ k = n + 1
    BY <1>2, <1>3, <1>5, <2>3
  <2> QED
    BY <1>1, <2>1, <2>2, <2>3
<1>8. IsTable(updated)
  BY <1>1, <1>5, <1>7 DEF IsTable
<1> QED
  BY <1>2, <1>4, <1>5, <1>6, <1>8 DEF new, updated

LEMMA UpdateFull ==
    ASSUME NEW channels, NEW id, id \notin Named(channels), ~(Len(channels) < MaxChannels),
           NEW metrics
    PROVE  UpdateChannel(channels, id, metrics) = channels
BY Zenon DEF UpdateChannel, Named

\* A table has as many names as channels.
LEMMA NamesCounted ==
    ASSUME NEW channels, IsTable(channels)
    PROVE  /\ IsFiniteSet(Named(channels))
           /\ Cardinality(Named(channels)) = Len(channels)
<1> DEFINE n == Len(channels)
           f == [k \in 1..n |-> channels[k].id]
<1>1. n \in Nat /\ DOMAIN channels = 1..n
  BY DEF IsTable
<1>2. IsFiniteSet(1..n) /\ Cardinality(1..n) = n
  <2>1. 1 \in Int /\ n \in Int
    BY <1>1
  <2>2. /\ IsFiniteSet(1..n)
        /\ Cardinality(1..n) = IF 1 > n THEN 0 ELSE n - 1 + 1
    BY <2>1, FS_Interval, Zenon
  <2> QED
    BY <1>1, <2>2
<1>3. f \in Bijection(1..n, Named(channels))
  BY <1>1 DEF IsTable, Named, Bijection, Injection, Surjection, IsInjective
<1>4. ExistsBijection(1..n, Named(channels))
  BY <1>3, Zenon DEF ExistsBijection
<1> QED
  BY <1>2, <1>4, FS_Bijection, Zenon

-----------------------------------------------------------------------------
(* What a table shows of the readings it was made of.                       *)

\* A table has the channels named first, the newest value of each of their metrics,
\* and all channels while there is room.
Shows(readings, channels) ==
    /\ Named(channels) = Retained(readings)
    /\ \A k \in 1..Len(channels), m \in Metrics :
           channels[k].metrics[m] = LastSaid(readings, channels[k].id, m)
    /\ Len(channels) < MaxChannels =>
           \A j \in 1..Len(readings) : readings[j].channel \in Named(channels)

\* What a reading says of a metric of a channel.
SaysOf(e, id, m) == e.channel = id /\ Said(e)[m] # Unset

LEMMA LastSaidAppend ==
    ASSUME NEW readings \in Seq(Entries), NEW e \in Entries, NEW id, NEW m
    PROVE  LastSaid(Append(readings, e), id, m)
               = IF SaysOf(e, id, m) THEN e.value ELSE LastSaid(readings, id, m)
<1> DEFINE more == Append(readings, e)
           n == Len(readings)
           Latest(T) == CHOOSE k \in T : \A j \in T : j <= k
           about == {k \in DOMAIN readings : SaysOf(readings[k], id, m)}
           aboutMore == {k \in DOMAIN more : SaysOf(more[k], id, m)}
<1>1. /\ n \in Nat /\ DOMAIN readings = 1..n /\ DOMAIN more = 1 .. n + 1
      /\ \A k \in 1..n : more[k] = readings[k]
      /\ more[n + 1] = e
  OBVIOUS
<1>2. /\ LastSaid(readings, id, m) = IF about = {} THEN Unset ELSE readings[Latest(about)].value
      /\ LastSaid(more, id, m) = IF aboutMore = {} THEN Unset ELSE more[Latest(aboutMore)].value
  BY Zenon DEF LastSaid, SaysOf
<1> HIDE DEF more
<1>3. aboutMore = IF SaysOf(e, id, m) THEN about \cup {n + 1} ELSE about
  <2>1. \A k \in 1..n : k \in aboutMore <=> k \in about
    BY <1>1
  <2>2. n + 1 \in aboutMore <=> SaysOf(e, id, m)
    BY <1>1
  <2>3. about \subseteq 1..n /\ aboutMore \subseteq 1 .. n + 1
    BY <1>1
  <2> HIDE DEF about, aboutMore, n
  <2>4. (\A k \in 1 .. n + 1 : k \in 1..n \/ k = n + 1) /\ 1..n \subseteq 1 .. n + 1
    BY <1>1
  <2>5. ASSUME NEW k \in 1 .. n + 1
        PROVE  k \in aboutMore <=> k \in IF SaysOf(e, id, m) THEN about \cup {n + 1} ELSE about
    <3>1. CASE k \in 1..n
      <4>1. n \in Nat /\ k # n + 1
        BY <1>1, <3>1
      <4> QED
        BY <2>1, <3>1, <4>1, Zenon
    <3>2. CASE k = n + 1
      <4>1. k \notin about
        BY <1>1, <2>3, <3>2
      <4> QED
        BY <2>2, <3>2, <4>1, Zenon
    <3> QED
      BY <2>4, <3>1, <3>2, Zenon
  <2> QED
    <3>1. n + 1 \in 1 .. n + 1
      BY <1>1
    <3> QED
      BY <2>3, <2>4, <2>5, <3>1, Zenon
<1>4. about \in SUBSET (1..n)
  BY <1>1
<1> HIDE DEF about, aboutMore
<1>5. CASE SaysOf(e, id, m)
  <2>1. /\ n + 1 \in aboutMore /\ aboutMore # {}
        /\ \A k \in aboutMore : (\A j \in aboutMore : j <= k) <=> k = n + 1
    <3> HIDE DEF n
    <3> QED
      BY <1>1, <1>3, <1>4, <1>5
  <2>2. Latest(aboutMore) = n + 1
    BY <2>1, Zenon
  <2> QED
    BY <1>1, <1>2, <1>5, <2>1, <2>2, Zenon DEF more
<1>6. CASE ~SaysOf(e, id, m)
  <2>1. aboutMore = about
    BY <1>3, <1>6, Zenon
  <2>2. CASE about = {}
    BY <1>2, <1>6, <2>1, <2>2, Zenon DEF more
  <2>3. CASE about # {}
    <3>1. \E k \in about : \A j \in about : j <= k
      BY <1>1, <1>4, <2>3, FirstAndLast
    <3>2. Latest(about) \in about
      BY <3>1, Zenon
    <3>3. Latest(about) \in 1..n
      BY <1>4, <3>2
    <3>4. more[Latest(about)] = readings[Latest(about)]
      BY <1>1, <3>3, Zenon
    <3> QED
      BY <1>2, <1>6, <2>1, <2>3, <3>4, Zenon DEF more
  <2> QED
    BY <2>2, <2>3
<1> QED
  BY <1>5, <1>6

\* The channels named, and those named before the kth reading but for its own.
NamedIn(readings) == {readings[j].channel : j \in 1..Len(readings)}
Before(readings, k) == {readings[j].channel : j \in 1..k-1} \ {readings[k].channel}

LEMMA RetainedBefore ==
    ASSUME NEW readings \in Seq(Entries)
    PROVE  Retained(readings) = {readings[k].channel :
               k \in {j \in 1..Len(readings) : Cardinality(Before(readings, j)) < MaxChannels}}
<1>1. DOMAIN readings = 1..Len(readings)
  OBVIOUS
<1> QED
  BY <1>1, Zenon DEF Retained, Before

LEMMA NamedFinite ==
    ASSUME NEW readings \in Seq(Entries)
    PROVE  /\ IsFiniteSet(NamedIn(readings))
           /\ Retained(readings) \subseteq NamedIn(readings)
<1> DEFINE n == Len(readings)
           f == [j \in 1..n |-> readings[j].channel]
<1>1. n \in Nat /\ 1 \in Int /\ n \in Int
  OBVIOUS
<1>2. IsFiniteSet(1..n)
  BY <1>1, FS_Interval, Zenon
<1>3. f \in Surjection(1..n, NamedIn(readings))
  BY DEF Surjection, NamedIn
<1>4. IsFiniteSet(NamedIn(readings))
  BY <1>2, <1>3, FS_Surjection, Zenon
<1>5. Retained(readings) \subseteq NamedIn(readings)
  BY RetainedBefore DEF NamedIn
<1> QED
  BY <1>4, <1>5

\* There is room for the channel of one more reading if the table has it, or has room.
Room(e, channels) == e.channel \in Named(channels) \/ Len(channels) < MaxChannels

LEMMA RetainedAppend ==
    ASSUME NEW readings \in Seq(Entries), NEW e \in Entries,
           NEW channels, IsTable(channels), Shows(readings, channels)
    PROVE  Retained(Append(readings, e))
               = Retained(readings) \cup (IF Room(e, channels) THEN {e.channel} ELSE {})
<1> DEFINE more == Append(readings, e)
           n == Len(readings)
           c == e.channel
           Kth(s, j) == Cardinality(Before(s, j)) < MaxChannels
<1>1. /\ n \in Nat /\ Len(more) = n + 1 /\ more \in Seq(Entries)
      /\ \A k \in 1..n : more[k] = readings[k]
      /\ more[n + 1] = e
  OBVIOUS
<1>2. /\ Retained(readings) = {readings[k].channel : k \in {j \in 1..n : Kth(readings, j)}}
      /\ Retained(more) = {more[k].channel : k \in {j \in 1 .. n + 1 : Kth(more, j)}}
  BY <1>1, RetainedBefore, Zenon
<1> HIDE DEF more
<1>3. \A j \in 1..n : Kth(more, j) <=> Kth(readings, j)
  <2> SUFFICES ASSUME NEW j \in 1..n PROVE Before(more, j) = Before(readings, j)
    BY Zenon
  <2>1. \A i \in 1..j-1 : i \in 1..n
    BY <1>1
  <2> QED
    BY <1>1, <2>1 DEF Before
<1>4. Before(more, n + 1) = NamedIn(readings) \ {c}
  <2>1. (n + 1) - 1 = n
    BY <1>1
  <2> QED
    BY <1>1, <2>1 DEF Before, NamedIn
<1>5. Retained(more) = Retained(readings) \cup (IF Kth(more, n + 1) THEN {c} ELSE {})
  <2> HIDE DEF Kth, n
  <2>1. ASSUME NEW x \in Retained(more)
        PROVE  x \in Retained(readings) \cup (IF Kth(more, n + 1) THEN {c} ELSE {})
    <3>1. PICK k \in 1 .. n + 1 : Kth(more, k) /\ x = more[k].channel
      BY <1>2, <2>1
    <3>2. CASE k = n + 1
      BY <1>1, <3>1, <3>2
    <3>3. CASE k \in 1..n
      BY <1>1, <1>2, <1>3, <3>1, <3>3
    <3> QED
      BY <1>1, <3>2, <3>3
  <2>2. ASSUME NEW x \in Retained(readings) PROVE x \in Retained(more)
    <3>1. PICK k \in 1..n : Kth(readings, k) /\ x = readings[k].channel
      BY <1>2, <2>2
    <3>2. k \in 1 .. n + 1 /\ Kth(more, k) /\ x = more[k].channel
      BY <1>1, <1>3, <3>1
    <3> QED
      BY <1>2, <3>2
  <2>3. Kth(more, n + 1) => c \in Retained(more)
    <3>1. n + 1 \in 1 .. n + 1 /\ more[n + 1].channel = c
      BY <1>1
    <3> QED
      BY <1>2, <3>1
  <2> QED
    BY <2>1, <2>2, <2>3
<1>6. /\ IsFiniteSet(NamedIn(readings)) /\ Named(channels) \subseteq NamedIn(readings)
      /\ Named(channels) = Retained(readings)
  BY NamedFinite DEF Shows
<1>7. /\ IsFiniteSet(Named(channels)) /\ Cardinality(Named(channels)) = Len(channels)
      /\ Len(channels) \in Nat /\ Len(channels) <= MaxChannels /\ MaxChannels \in Nat
  BY NamesCounted, TableBound DEF IsTable
<1>8. CASE c \in Named(channels)
  BY <1>5, <1>6, <1>8 DEF Room, more
<1>9. CASE c \notin Named(channels) /\ Len(channels) < MaxChannels
  <2>1. NamedIn(readings) \subseteq Named(channels)
    BY <1>9 DEF Shows, NamedIn
  <2>2. Before(more, n + 1) = Named(channels)
    BY <1>4, <1>6, <1>9, <2>1
  <2>3. Kth(more, n + 1)
    BY <1>7, <1>9, <2>2
  <2> QED
    BY <1>5, <1>9, <2>3 DEF Room, more
<1>10. CASE c \notin Named(channels) /\ ~(Len(channels) < MaxChannels)
  <2>1. Named(channels) \in SUBSET Before(more, n + 1)
    BY <1>4, <1>6, <1>10
  <2>2. IsFiniteSet(Before(more, n + 1))
    BY <1>4, <1>6, FS_RemoveElement, Zenon
  <2>3. /\ Cardinality(Named(channels)) <= Cardinality(Before(more, n + 1))
        /\ Cardinality(Before(more, n + 1)) \in Nat
    BY <2>1, <2>2, FS_Subset, FS_CardinalityType, Zenon
  <2>4. ~Kth(more, n + 1)
    BY <1>7, <1>10, <2>3
  <2> QED
    BY <1>5, <1>10, <2>4 DEF Room, more
<1> QED
  BY <1>8, <1>9, <1>10

LEMMA LastSaidOfOther ==
    ASSUME NEW readings \in Seq(Entries), NEW id, id \notin NamedIn(readings), NEW m
    PROVE  LastSaid(readings, id, m) = Unset
<1>1. {k \in DOMAIN readings : readings[k].channel = id /\ Said(readings[k])[m] # Unset} = {}
  BY DEF NamedIn
<1> QED
  BY <1>1, Zenon DEF LastSaid

LEMMA ShowsNothing == IsTable(<<>>) /\ Shows(<<>>, <<>>)
<1>1. <<>> \in Seq(Entries) /\ <<>> \in Seq(Channel) /\ Len(<<>>) = 0
  OBVIOUS
<1>2. Retained(<<>>) = {}
  <2>1. Retained(<<>>) = {<<>>[k].channel :
            k \in {j \in 1..Len(<<>>) : Cardinality(Before(<<>>, j)) < MaxChannels}}
    BY <1>1, RetainedBefore, Zenon
  <2>2. 1..Len(<<>>) = {}
    BY <1>1
  <2> QED
    BY <2>1, <2>2, Zenon
<1> QED
  BY <1>1, <1>2, TableBound DEF IsTable, Shows, Named

\* A reading that is taken into a table is shown by it.
LEMMA ShowsUpdate ==
    ASSUME NEW readings \in Seq(Entries), NEW e \in Entries,
           NEW channels, IsTable(channels), Shows(readings, channels)
    PROVE  LET updated == UpdateChannel(channels, e.channel, Said(e))
           IN  /\ IsTable(updated) /\ Shows(Append(readings, e), updated)
               /\ ~Room(e, channels) => updated = channels
<1> DEFINE updated == UpdateChannel(channels, e.channel, Said(e))
           more == Append(readings, e)
           n == Len(channels)
           c == e.channel
<1>1. /\ n \in Nat /\ DOMAIN channels = 1..n /\ n <= MaxChannels /\ channels \in Seq(Channel)
      /\ MaxChannels \in Nat
  BY TableBound DEF IsTable
<1>2. /\ Named(channels) = Retained(readings)
      /\ \A k \in 1..n, m \in Metrics :
             channels[k].metrics[m] = LastSaid(readings, channels[k].id, m)
      /\ n < MaxChannels => \A j \in 1..Len(readings) : readings[j].channel \in Named(channels)
  BY DEF Shows
<1>3. Retained(more) = Named(channels) \cup (IF Room(e, channels) THEN {c} ELSE {})
  BY <1>2, RetainedAppend, Zenon
<1>4. \A id, m : LastSaid(more, id, m)
                     = IF SaysOf(e, id, m) THEN e.value ELSE LastSaid(readings, id, m)
  BY LastSaidAppend, Zenon
<1>5. /\ Said(e) \in MetricValues /\ c \in {x.channel : x \in Entries}
      /\ \A m \in Metrics : Said(e)[m] \in {e.value, Unset}
  BY SaidTyped, Zenon
<1>6. /\ Len(more) \in Nat
      /\ \A j \in 1..Len(more) : \/ j \in 1..Len(readings) /\ more[j] = readings[j]
                                 \/ more[j] = e
  OBVIOUS
<1> HIDE DEF updated, more
<1>7. CASE c \in Named(channels)
  <2>1. PICK k \in 1..n : channels[k].id = c
    BY <1>1, <1>7 DEF Named
  <2>2. /\ IsTable(updated) /\ Len(updated) = n
        /\ updated[k] = [id |-> c, metrics |-> Overlay(channels[k].metrics, Said(e))]
        /\ \A j \in 1..n : j # k => updated[j] = channels[j]
        /\ \A j \in 1..n : updated[j].id = channels[j].id
        /\ Named(updated) = Named(channels)
    <3>1. LET u == UpdateChannel(channels, channels[k].id, Said(e))
          IN  /\ IsTable(u) /\ Len(u) = Len(channels)
              /\ u[k] = [id |-> channels[k].id,
                         metrics |-> Overlay(channels[k].metrics, Said(e))]
              /\ \A j \in 1..Len(channels) : j # k => u[j] = channels[j]
              /\ \A j \in 1..Len(channels) : u[j].id = channels[j].id
              /\ Named(u) = Named(channels)
      BY <1>5, UpdateKnown, Zenon
    <3> QED
      BY <2>1, <3>1, Zenon DEF updated
  <2>3. Retained(more) = Named(updated)
    BY <1>3, <1>7, <2>2
  <2>4. ASSUME NEW j \in 1..n, NEW m \in Metrics
        PROVE  updated[j].metrics[m] = LastSaid(more, updated[j].id, m)
    <3>1. CASE j = k
      <4>1. channels[k].metrics \in MetricValues
        <5>1. channels[k] \in Channel
          BY <1>1
        <5> QED
          BY <5>1 DEF Channel
      <4>2. updated[j].id = c
              /\ updated[j].metrics[m] = IF Said(e)[m] # Unset THEN Said(e)[m]
                                         ELSE channels[k].metrics[m]
        BY <1>5, <2>2, <3>1, <4>1, OverlayTyped
      <4>3. channels[k].metrics[m] = LastSaid(readings, c, m)
        BY <1>2, <2>1
      <4> QED
        BY <1>4, <1>5, <4>2, <4>3 DEF SaysOf
    <3>2. CASE j # k
      <4>1. updated[j] = channels[j] /\ channels[j].id # c
        BY <1>1, <2>1, <2>2, <3>2 DEF IsTable
      <4>2. ~SaysOf(e, updated[j].id, m)
        BY <4>1 DEF SaysOf
      <4> QED
        BY <1>2, <1>4, <4>1, <4>2
    <3> QED
      BY <3>1, <3>2
  <2>5. n < MaxChannels => \A j \in 1..Len(more) : more[j].channel \in Named(updated)
    BY <1>2, <1>6, <1>7, <2>2
  <2>6. Shows(more, updated)
    BY <2>2, <2>3, <2>4, <2>5 DEF Shows
  <2>7. Room(e, channels)
    BY <1>7 DEF Room
  <2> QED
    BY <2>2, <2>6, <2>7 DEF updated, more
<1>8. CASE c \notin Named(channels) /\ n < MaxChannels
  <2>1. /\ IsTable(updated) /\ Len(updated) = n + 1
        /\ \A j \in 1..n : updated[j] = channels[j]
        /\ updated[n + 1] = [id |-> c, metrics |-> Overlay(NoMetrics, Said(e))]
        /\ Named(updated) = Named(channels) \cup {c}
    <3>1. LET new == [id |-> c, metrics |-> Overlay(NoMetrics, Said(e))]
              u == UpdateChannel(channels, c, Said(e))
          IN  /\ u = Append(channels, new) /\ new \in Channel
              /\ IsTable(u) /\ Len(u) = Len(channels) + 1
              /\ \A j \in 1..Len(channels) : u[j] = channels[j]
              /\ u[Len(channels) + 1] = new
              /\ Named(u) = Named(channels) \cup {c}
      <4>1. /\ IsTable(channels) /\ Len(channels) < MaxChannels /\ c \notin Named(channels)
            /\ Said(e) \in MetricValues /\ c \in {x.channel : x \in Entries}
        BY <1>5, <1>8
      <4> HIDE DEF c, n
      <4> QED
        BY <4>1, UpdateNew
    <3> QED
      BY <3>1, Zenon DEF updated
  <2>2. Room(e, channels)
    BY <1>8 DEF Room
  <2>3. Retained(more) = Named(updated)
    BY <1>3, <2>1, <2>2
  <2>4. c \notin NamedIn(readings)
    BY <1>2, <1>8 DEF NamedIn
  <2>5. ASSUME NEW j \in 1 .. n + 1, NEW m \in Metrics
        PROVE  updated[j].metrics[m] = LastSaid(more, updated[j].id, m)
    <3>1. CASE j = n + 1
      <4>1. updated[j].id = c /\ updated[j].metrics[m] = Said(e)[m]
        BY <1>5, <2>1, <3>1, OverlayTyped, NothingTyped
      <4>2. LastSaid(readings, c, m) = Unset
        BY <2>4, LastSaidOfOther
      <4> QED
        BY <1>4, <1>5, <4>1, <4>2 DEF SaysOf
    <3>2. CASE j # n + 1
      <4>1. j \in 1..n
        BY <1>1, <3>2
      <4>2. updated[j] = channels[j] /\ channels[j].id # c
        BY <1>1, <1>8, <2>1, <4>1 DEF Named
      <4>3. ~SaysOf(e, updated[j].id, m)
        BY <4>2 DEF SaysOf
      <4> QED
        BY <1>2, <1>4, <4>1, <4>2, <4>3
    <3> QED
      BY <3>1, <3>2
  <2>6. \A j \in 1..Len(more) : more[j].channel \in Named(updated)
    BY <1>2, <1>6, <1>8, <2>1
  <2>7. Shows(more, updated)
    BY <2>1, <2>3, <2>5, <2>6 DEF Shows
  <2> QED
    BY <2>1, <2>2, <2>7 DEF updated, more
<1>9. CASE c \notin Named(channels) /\ ~(n < MaxChannels)
  <2>1. updated = channels
    BY <1>9, UpdateFull, Zenon DEF updated
  <2>2. ~Room(e, channels)
    BY <1>9 DEF Room
  <2>3. Retained(more) = Named(channels)
    BY <1>3, <2>2
  <2>4. ASSUME NEW j \in 1..n, NEW m \in Metrics
        PROVE  channels[j].metrics[m] = LastSaid(more, channels[j].id, m)
    <3>1. ~SaysOf(e, channels[j].id, m)
      BY <1>1, <1>9 DEF SaysOf, Named
    <3> QED
      BY <1>2, <1>4, <3>1
  <2>5. Shows(more, channels)
    BY <1>9, <2>3, <2>4 DEF Shows
  <2> QED
    BY <2>1, <2>2, <2>5 DEF updated, more
<1> QED
  BY <1>7, <1>8, <1>9

-----------------------------------------------------------------------------
(* What is kept of a message.                                               *)

\* The readings, each where it is retained.
Chosen(readings, ids) ==
    [k \in DOMAIN readings |-> Optional(readings[k].channel \in ids, readings[k])]

LEMMA ChosenTyped ==
    ASSUME NEW readings \in Seq(Entries), NEW ids
    PROVE  Chosen(readings, ids) \in Seq(Seq(Entries))
<1>1. ASSUME NEW k \in 1..Len(readings)
      PROVE  Optional(readings[k].channel \in ids, readings[k]) \in Seq(Entries)
  <2>1. readings[k] \in Entries
    OBVIOUS
  <2> QED
    BY <2>1 DEF Optional
<1>2. Len(readings) \in Nat /\ DOMAIN readings = 1..Len(readings)
  OBVIOUS
<1>3. Chosen(readings, ids) = [k \in 1..Len(readings) |->
                                  Optional(readings[k].channel \in ids, readings[k])]
  BY <1>2, Zenon DEF Chosen
<1> QED
  BY <1>1, <1>2, <1>3

LEMMA ChosenAppend ==
    ASSUME NEW readings \in Seq(Entries), NEW e \in Entries, NEW ids
    PROVE  Chosen(Append(readings, e), ids)
               = Append(Chosen(readings, ids), Optional(e.channel \in ids, e))
<1> DEFINE n == Len(readings)
           more == Append(readings, e)
           left == Chosen(more, ids)
           old == Chosen(readings, ids)
           last == Optional(e.channel \in ids, e)
           right == Append(old, last)
<1>1. /\ n \in Nat /\ DOMAIN readings = 1..n /\ DOMAIN more = 1 .. n + 1
      /\ \A k \in 1..n : more[k] = readings[k]
      /\ more[n + 1] = e
  OBVIOUS
<1>2. /\ DOMAIN old = 1..n
      /\ \A k \in 1..n : old[k] = Optional(readings[k].channel \in ids, readings[k])
      /\ old \in Seq(Seq(Entries))
  BY <1>1, ChosenTyped, Zenon DEF Chosen
<1>3. /\ left = [k \in 1 .. n + 1 |-> left[k]]
      /\ \A k \in 1 .. n + 1 : left[k] = Optional(more[k].channel \in ids, more[k])
  BY <1>1, Zenon DEF Chosen
<1>4. last \in Seq(Entries)
  BY DEF Optional
<1> HIDE DEF left, old, last, more
<1>5. Len(old) = n
  BY <1>1, <1>2
<1>6. /\ right = [k \in 1 .. n + 1 |-> right[k]]
      /\ \A k \in 1..n : right[k] = old[k]
      /\ right[n + 1] = last
  <2> DEFINE T == Seq(Entries)
  <2>1. old \in Seq(T) /\ last \in T /\ Len(old) = n /\ n \in Nat
    BY <1>1, <1>2, <1>4, <1>5
  <2> HIDE DEF T, n
  <2>2. right \in Seq(T) /\ Len(right) = n + 1
    BY <2>1
  <2> HIDE DEF right
  <2>3. right = [k \in 1 .. n + 1 |-> right[k]]
    BY <2>2
  <2> QED
    BY <2>1, <2>3 DEF right
<1> HIDE DEF right
<1>7. ASSUME NEW k \in 1 .. n + 1 PROVE left[k] = right[k]
  <2>1. CASE k = n + 1
    <3>1. left[k] = Optional(e.channel \in ids, e)
      BY <1>1, <1>3, <2>1, Zenon
    <3> QED
      BY <1>6, <2>1, <3>1, Zenon DEF last
  <2>2. CASE k # n + 1
    <3>1. k \in 1..n
      BY <1>1, <2>2
    <3> QED
      BY <1>1, <1>2, <1>3, <1>6, <3>1, Zenon
  <2> QED
    BY <2>1, <2>2
<1> QED
  <2>1. left = right
    BY <1>3, <1>6, <1>7, Zenon
  <2> QED
    BY <2>1 DEF left, right, old, last, more

LEMMA KeptTyped ==
    ASSUME NEW readings \in Seq(Entries)
    PROVE  /\ Kept(readings) = FlattenSeq(Chosen(readings, Retained(readings)))
           /\ Kept(readings) \in Seq(Entries)
<1>1. Kept(readings) = FlattenSeq(Chosen(readings, Retained(readings)))
  BY Zenon DEF Kept, Chosen
<1> QED
  BY <1>1, ChosenTyped, FlattenTyped

\* One reading more is kept if the table of the message has room for it.
LEMMA KeptAppend ==
    ASSUME NEW readings \in Seq(Entries), NEW e \in Entries,
           NEW channels, IsTable(channels), Shows(readings, channels)
    PROVE  Kept(Append(readings, e))
               = IF Room(e, channels) THEN Append(Kept(readings), e) ELSE Kept(readings)
<1> DEFINE more == Append(readings, e)
           old == Retained(readings)
           new == Retained(more)
<1>1. more \in Seq(Entries)
  OBVIOUS
<1>2. new = old \cup (IF Room(e, channels) THEN {e.channel} ELSE {})
  BY RetainedAppend, Zenon
<1>3. /\ old = Named(channels)
      /\ Len(channels) < MaxChannels =>
             \A j \in 1..Len(readings) : readings[j].channel \in old
  BY DEF Shows
<1>4. e.channel \in new <=> Room(e, channels)
  BY <1>2, <1>3 DEF Room
<1> HIDE DEF old, new
<1>5. \A j \in 1..Len(readings) : readings[j].channel \in new <=> readings[j].channel \in old
  BY <1>2, <1>3 DEF Room
<1>6. Chosen(readings, new) = Chosen(readings, old)
  <2>1. DOMAIN readings = 1..Len(readings)
    OBVIOUS
  <2>2. \A j \in 1..Len(readings) : Optional(readings[j].channel \in new, readings[j])
                                        = Optional(readings[j].channel \in old, readings[j])
    BY <1>5, Zenon DEF Optional
  <2> QED
    BY <2>1, <2>2, Zenon DEF Chosen
<1> DEFINE last == Optional(e.channel \in new, e)
<1>7. last \in Seq(Entries)
  BY DEF Optional
<1>8. FlattenSeq(Chosen(more, new)) = FlattenSeq(Chosen(readings, old)) \o last
  <2>1. Chosen(more, new) = Append(Chosen(readings, old), last)
    BY <1>6, ChosenAppend, Zenon
  <2>2. Chosen(readings, old) \in Seq(Seq(Entries))
    BY ChosenTyped
  <2> HIDE DEF last, more
  <2> QED
    BY <1>7, <2>1, <2>2, FlattenAppend, Zenon
<1>9. Kept(more) = Kept(readings) \o last
  BY <1>1, <1>8, KeptTyped, Zenon DEF old, new
<1>10. Kept(readings) \in Seq(Entries)
  BY KeptTyped
<1>11. CASE Room(e, channels)
  <2>1. last = <<e>>
    BY <1>4, <1>11, Zenon DEF Optional
  <2> HIDE DEF last, more
  <2>2. Kept(more) = Append(Kept(readings), e)
    BY <1>9, <1>10, <2>1
  <2> QED
    BY <1>11, <2>2 DEF more
<1>12. CASE ~Room(e, channels)
  <2>1. last = <<>>
    BY <1>4, <1>12, Zenon DEF Optional
  <2> HIDE DEF last, more
  <2>2. Kept(more) = Kept(readings)
    BY <1>9, <1>10, <2>1
  <2> QED
    BY <1>12, <2>2 DEF more
<1> QED
  BY <1>11, <1>12

-----------------------------------------------------------------------------
(* Decoding and merging, one step after the other.                          *)

\* f has the telemetry after the first n readings.
Decoding(f, t, readings, n) ==
    f = [i \in 0..n |-> IF i = 0 THEN t ELSE SetChannel(f[i - 1], readings[i])]

LEMMA DecodingSteps ==
    ASSUME NEW f, NEW t, NEW readings, NEW n \in Nat, Decoding(f, t, readings, n)
    PROVE  /\ f[0] = t
           /\ \A i \in 1..n : f[i] = SetChannel(f[i - 1], readings[i])
           /\ \A i \in 0 .. n - 1 : f[i + 1] = SetChannel(f[i], readings[i + 1])
<1>1. 0 \in 0..n /\ \A i \in 1..n : i \in 0..n /\ i # 0
  OBVIOUS
<1>2. \A i \in 0..n : f[i] = IF i = 0 THEN t ELSE SetChannel(f[i - 1], readings[i])
  BY Zenon DEF Decoding
<1>3. f[0] = t /\ \A i \in 1..n : f[i] = SetChannel(f[i - 1], readings[i])
  BY <1>1, <1>2, Zenon
<1>4. ASSUME NEW i \in 0 .. n - 1 PROVE f[i + 1] = SetChannel(f[i], readings[i + 1])
  <2> DEFINE k == i + 1
  <2>1. k \in 1..n /\ k - 1 = i
    OBVIOUS
  <2> HIDE DEF k
  <2>2. f[k] = SetChannel(f[i], readings[k])
    BY <1>3, <2>1, Zenon
  <2> QED
    BY <2>2 DEF k
<1> QED
  BY <1>3, <1>4, Zenon

LEMMA DecodingExists ==
    ASSUME NEW t, NEW readings, NEW n \in Nat
    PROVE  \E f : Decoding(f, t, readings, n)
<1> DEFINE S == {k \in Nat : \E f : Decoding(f, t, readings, k)}
<1>1. 0 \in S
  <2> DEFINE g == [i \in 0..0 |-> t]
  <2>1. g = [i \in 0..0 |-> IF i = 0 THEN t ELSE SetChannel(g[i - 1], readings[i])]
    OBVIOUS
  <2> QED
    BY <2>1 DEF Decoding
<1>2. ASSUME NEW k \in S PROVE k + 1 \in S
  <2>1. PICK f : Decoding(f, t, readings, k)
    BY <1>2
  <2> DEFINE next == SetChannel(f[k], readings[k + 1])
             g == [i \in 0 .. k + 1 |-> IF i = k + 1 THEN next ELSE f[i]]
             h == [i \in 0 .. k + 1 |-> IF i = 0 THEN t ELSE SetChannel(g[i - 1], readings[i])]
  <2>2. ASSUME NEW i \in 0 .. k + 1 PROVE g[i] = h[i]
    <3>1. CASE i = k + 1
      <4>1. g[i] = next /\ g[k] = f[k] /\ i - 1 = k /\ i # 0
        BY <3>1
      <4>2. h[i] = SetChannel(g[i - 1], readings[i])
        BY <4>1
      <4> QED
        BY <3>1, <4>1, <4>2
    <3>2. CASE i = 0
      <4>1. g[i] = f[0] /\ h[i] = t
        BY <3>2
      <4> QED
        BY <2>1, <4>1, DecodingSteps
    <3>3. CASE i \in 1..k
      <4>1. g[i] = f[i] /\ g[i - 1] = f[i - 1] /\ h[i] = SetChannel(g[i - 1], readings[i])
        BY <3>3
      <4>2. f[i] = SetChannel(f[i - 1], readings[i])
        BY <2>1, <3>3, DecodingSteps
      <4> QED
        BY <4>1, <4>2
    <3> QED
      BY <3>1, <3>2, <3>3
  <2>3. g = h
    <3> HIDE DEF next
    <3> QED
      BY <2>2
  <2>4. Decoding(g, t, readings, k + 1)
    BY <2>3, Zenon DEF Decoding
  <2> QED
    BY <2>4
<1>3. Nat \subseteq S
  <2> HIDE DEF S
  <2> QED
    BY <1>1, <1>2, AllNaturals
<1> QED
  BY <1>3

LEMMA DecodeIsRun ==
    ASSUME NEW t, NEW payload, Len(Readings(payload)) \in Nat
    PROVE  \E f : /\ Decoding(f, t, Readings(payload), Len(Readings(payload)))
                  /\ Decode(t, payload) = f[Len(Readings(payload))]
<1> DEFINE readings == Readings(payload)
           n == Len(readings)
           Upto(f) == f = [k \in 0..n |->
                              IF k = 0 THEN t
                              ELSE CHOOSE next \in {SetChannel(before, readings[k]) :
                                                        before \in {f[k - 1]}} : TRUE]
<1>1. Decode(t, payload) = (CHOOSE f : Upto(f))[n]
  BY Zenon DEF Decode
<1>2. \A f : Decoding(f, t, readings, n) <=> Upto(f)
  <2>1. \A f, k : (CHOOSE next \in {SetChannel(before, readings[k]) :
                                        before \in {f[k - 1]}} : TRUE)
                      = SetChannel(f[k - 1], readings[k])
    BY Zenon
  <2> QED
    BY <2>1, Zenon DEF Decoding
<1>3. \E f : Upto(f)
  BY <1>2, DecodingExists, Zenon
<1> HIDE DEF Upto
<1>4. Upto(CHOOSE f : Upto(f))
  BY <1>3, Zenon
<1> QED
  BY <1>1, <1>2, <1>4, Zenon

\* f has the tables after the first n of the others were merged.
Merging(f, channels, others, n) ==
    f = [i \in 0..n |-> IF i = 0 THEN channels
                        ELSE UpdateChannel(f[i - 1], others[i].id, others[i].metrics)]

LEMMA MergingSteps ==
    ASSUME NEW f, NEW channels, NEW others, NEW n \in Nat, Merging(f, channels, others, n)
    PROVE  /\ f[0] = channels
           /\ \A i \in 1..n : f[i] = UpdateChannel(f[i - 1], others[i].id, others[i].metrics)
           /\ \A i \in 0 .. n - 1 : f[i + 1] = UpdateChannel(f[i], others[i + 1].id, others[i + 1].metrics)
<1>1. 0 \in 0..n /\ \A i \in 1..n : i \in 0..n /\ i # 0
  OBVIOUS
<1>2. \A i \in 0..n : f[i] = IF i = 0 THEN channels ELSE UpdateChannel(f[i - 1], others[i].id, others[i].metrics)
  BY Zenon DEF Merging
<1>3. f[0] = channels /\ \A i \in 1..n : f[i] = UpdateChannel(f[i - 1], others[i].id, others[i].metrics)
  BY <1>1, <1>2, Zenon
<1>4. ASSUME NEW i \in 0 .. n - 1 PROVE f[i + 1] = UpdateChannel(f[i], others[i + 1].id, others[i + 1].metrics)
  <2> DEFINE k == i + 1
  <2>1. k \in 1..n /\ k - 1 = i
    OBVIOUS
  <2> HIDE DEF k
  <2>2. f[k] = UpdateChannel(f[i], others[k].id, others[k].metrics)
    BY <1>3, <2>1, Zenon
  <2> QED
    BY <2>2 DEF k
<1> QED
  BY <1>3, <1>4, Zenon

LEMMA MergingExists ==
    ASSUME NEW channels, NEW others, NEW n \in Nat
    PROVE  \E f : Merging(f, channels, others, n)
<1> DEFINE S == {k \in Nat : \E f : Merging(f, channels, others, k)}
<1>1. 0 \in S
  <2> DEFINE g == [i \in 0..0 |-> channels]
  <2>1. g = [i \in 0..0 |-> IF i = 0 THEN channels ELSE UpdateChannel(g[i - 1], others[i].id, others[i].metrics)]
    OBVIOUS
  <2> QED
    BY <2>1 DEF Merging
<1>2. ASSUME NEW k \in S PROVE k + 1 \in S
  <2>1. PICK f : Merging(f, channels, others, k)
    BY <1>2
  <2> DEFINE next == UpdateChannel(f[k], others[k + 1].id, others[k + 1].metrics)
             g == [i \in 0 .. k + 1 |-> IF i = k + 1 THEN next ELSE f[i]]
             h == [i \in 0 .. k + 1 |-> IF i = 0 THEN channels ELSE UpdateChannel(g[i - 1], others[i].id, others[i].metrics)]
  <2>2. ASSUME NEW i \in 0 .. k + 1 PROVE g[i] = h[i]
    <3>1. CASE i = k + 1
      <4>1. g[i] = next /\ g[k] = f[k] /\ i - 1 = k /\ i # 0
        BY <3>1
      <4>2. h[i] = UpdateChannel(g[i - 1], others[i].id, others[i].metrics)
        BY <4>1
      <4> QED
        BY <3>1, <4>1, <4>2
    <3>2. CASE i = 0
      <4>1. g[i] = f[0] /\ h[i] = channels
        BY <3>2
      <4> QED
        BY <2>1, <4>1, MergingSteps
    <3>3. CASE i \in 1..k
      <4>1. g[i] = f[i] /\ g[i - 1] = f[i - 1] /\ h[i] = UpdateChannel(g[i - 1], others[i].id, others[i].metrics)
        BY <3>3
      <4>2. f[i] = UpdateChannel(f[i - 1], others[i].id, others[i].metrics)
        BY <2>1, <3>3, MergingSteps
      <4> QED
        BY <4>1, <4>2
    <3> QED
      BY <3>1, <3>2, <3>3
  <2>3. g = h
    <3> HIDE DEF next
    <3> QED
      BY <2>2
  <2>4. Merging(g, channels, others, k + 1)
    BY <2>3, Zenon DEF Merging
  <2> QED
    BY <2>4
<1>3. Nat \subseteq S
  <2> HIDE DEF S
  <2> QED
    BY <1>1, <1>2, AllNaturals
<1> QED
  BY <1>3

LEMMA MergeIsRun ==
    ASSUME NEW channels, NEW others, Len(others) \in Nat
    PROVE  \E f : /\ Merging(f, channels, others, Len(others))
                  /\ MergeChannels(channels, others) = f[Len(others)]
<1> DEFINE n == Len(others)
           Upto(f) == f = [k \in 0..n |->
                              IF k = 0 THEN channels
                              ELSE CHOOSE next \in
                                       {UpdateChannel(before, others[k].id, others[k].metrics) :
                                            before \in {f[k - 1]}} : TRUE]
<1>1. MergeChannels(channels, others) = (CHOOSE f : Upto(f))[n]
  BY Zenon DEF MergeChannels
<1>2. \A f : Merging(f, channels, others, n) <=> Upto(f)
  <2>1. \A f, k : (CHOOSE next \in {UpdateChannel(before, others[k].id, others[k].metrics) :
                                        before \in {f[k - 1]}} : TRUE)
                      = UpdateChannel(f[k - 1], others[k].id, others[k].metrics)
    BY Zenon
  <2> QED
    BY <2>1, Zenon DEF Merging
<1>3. \E f : Upto(f)
  BY <1>2, MergingExists, Zenon
<1> HIDE DEF Upto
<1>4. Upto(CHOOSE f : Upto(f))
  BY <1>3, Zenon
<1> QED
  BY <1>1, <1>2, <1>4, Zenon

-----------------------------------------------------------------------------
(* Updates of one channel and of two.                                       *)

LEMMA OverlayTwice ==
    ASSUME NEW a \in MetricValues, NEW b \in MetricValues, NEW c \in MetricValues
    PROVE  /\ Overlay(Overlay(a, b), c) = Overlay(a, Overlay(b, c))
           /\ Overlay(a, Overlay(NoMetrics, b)) = Overlay(a, b)
<1>1. /\ Overlay(a, b) \in MetricValues /\ Overlay(b, c) \in MetricValues
      /\ Overlay(NoMetrics, b) \in MetricValues
      /\ \A m \in Metrics : Overlay(a, b)[m] = IF b[m] # Unset THEN b[m] ELSE a[m]
      /\ \A m \in Metrics : Overlay(b, c)[m] = IF c[m] # Unset THEN c[m] ELSE b[m]
      /\ \A m \in Metrics : Overlay(NoMetrics, b)[m] = IF b[m] # Unset THEN b[m] ELSE Unset
  BY OverlayTyped, NothingTyped
<1>2. ASSUME NEW m \in Metrics
      PROVE  (IF c[m] # Unset THEN c[m] ELSE Overlay(a, b)[m])
                 = (IF Overlay(b, c)[m] # Unset THEN Overlay(b, c)[m] ELSE a[m])
  BY <1>1
<1>3. Overlay(Overlay(a, b), c) = Overlay(a, Overlay(b, c))
  BY <1>2, Zenon DEF Overlay
<1>4. ASSUME NEW m \in Metrics
      PROVE  (IF Overlay(NoMetrics, b)[m] # Unset THEN Overlay(NoMetrics, b)[m] ELSE a[m])
                 = (IF b[m] # Unset THEN b[m] ELSE a[m])
  BY <1>1
<1>5. Overlay(a, Overlay(NoMetrics, b)) = Overlay(a, b)
  <2> DEFINE o == Overlay(NoMetrics, b)
  <2>1. Overlay(a, o) = [m \in Metrics |-> IF o[m] # Unset THEN o[m] ELSE a[m]]
    BY Zenon DEF Overlay
  <2>2. Overlay(a, b) = [m \in Metrics |-> IF b[m] # Unset THEN b[m] ELSE a[m]]
    BY Zenon DEF Overlay
  <2> HIDE DEF o
  <2>3. \A m \in Metrics : (IF o[m] # Unset THEN o[m] ELSE a[m])
                               = (IF b[m] # Unset THEN b[m] ELSE a[m])
    BY <1>4 DEF o
  <2> QED
    BY <2>1, <2>2, <2>3, Zenon DEF o
<1> QED
  BY <1>3, <1>5

\* updated is the table with the kth channel overlaid.
WithKnown(channels, k, metrics, updated) ==
    /\ IsTable(updated) /\ Len(updated) = Len(channels)
    /\ updated[k] = [id |-> channels[k].id,
                     metrics |-> Overlay(channels[k].metrics, metrics)]
    /\ \A j \in 1..Len(channels) : j # k => updated[j] = channels[j]
    /\ \A j \in 1..Len(channels) : updated[j].id = channels[j].id
    /\ Named(updated) = Named(channels)

\* updated is the table with one channel more.
WithNew(channels, id, metrics, updated) ==
    /\ IsTable(updated) /\ Len(updated) = Len(channels) + 1
    /\ \A j \in 1..Len(channels) : updated[j] = channels[j]
    /\ updated[Len(channels) + 1] = [id |-> id, metrics |-> Overlay(NoMetrics, metrics)]
    /\ Named(updated) = Named(channels) \cup {id}

LEMMA UpdateOne ==
    ASSUME NEW channels, IsTable(channels), NEW id \in {e.channel : e \in Entries},
           NEW metrics \in MetricValues
    PROVE  LET updated == UpdateChannel(channels, id, metrics)
           IN  /\ IsTable(updated)
               /\ \A k \in 1..Len(channels) :
                      channels[k].id = id => WithKnown(channels, k, metrics, updated)
               /\ id \notin Named(channels) /\ Len(channels) < MaxChannels =>
                      WithNew(channels, id, metrics, updated)
               /\ id \notin Named(channels) /\ ~(Len(channels) < MaxChannels) =>
                      updated = channels
<1> DEFINE updated == UpdateChannel(channels, id, metrics)
<1>1. ASSUME NEW k \in 1..Len(channels), channels[k].id = id
      PROVE  WithKnown(channels, k, metrics, updated)
  <2>1. WithKnown(channels, k, metrics, UpdateChannel(channels, channels[k].id, metrics))
    BY UpdateKnown, Zenon DEF WithKnown
  <2> QED
    BY <1>1, <2>1, Zenon
<1>2. ASSUME id \notin Named(channels), Len(channels) < MaxChannels
      PROVE  WithNew(channels, id, metrics, updated)
  BY <1>2, UpdateNew DEF WithNew
<1>3. ASSUME id \notin Named(channels), ~(Len(channels) < MaxChannels)
      PROVE  updated = channels
  BY <1>3, UpdateFull, Zenon
<1> HIDE DEF updated
<1>4. id \in Named(channels) => \E k \in 1..Len(channels) : channels[k].id = id
  BY DEF Named, IsTable
<1>5. IsTable(updated)
  <2>1. CASE id \in Named(channels)
    <3>1. PICK k \in 1..Len(channels) : channels[k].id = id
      BY <1>4, <2>1, Zenon
    <3>2. WithKnown(channels, k, metrics, updated)
      BY <1>1, <3>1, Zenon
    <3> QED
      BY <3>2, Zenon DEF WithKnown
  <2>2. CASE id \notin Named(channels) /\ Len(channels) < MaxChannels
    BY <1>2, <2>2, Zenon DEF WithNew
  <2>3. CASE id \notin Named(channels) /\ ~(Len(channels) < MaxChannels)
    BY <1>3, <2>3, Zenon
  <2> QED
    BY <2>1, <2>2, <2>3, Zenon
<1> QED
  BY <1>1, <1>2, <1>3, <1>5, Zenon DEF updated

LEMMA TableFacts ==
    ASSUME NEW channels, IsTable(channels)
    PROVE  /\ channels \in Seq(Channel) /\ Len(channels) \in Nat
           /\ \A k \in 1..Len(channels) :
                  /\ channels[k] \in Channel /\ channels[k].metrics \in MetricValues
                  /\ channels[k].id \in {e.channel : e \in Entries}
                  /\ channels[k].id \in Named(channels)
           /\ \A id \in Named(channels) : \E k \in 1..Len(channels) : channels[k].id = id
           /\ \A j, k \in 1..Len(channels) : channels[j].id = channels[k].id => j = k
<1>1. /\ channels \in Seq(Channel) /\ Len(channels) \in Nat /\ DOMAIN channels = 1..Len(channels)
      /\ \A j, k \in 1..Len(channels) : channels[j].id = channels[k].id => j = k
  BY DEF IsTable
<1>2. \A k \in 1..Len(channels) : channels[k] \in Channel
  BY <1>1
<1>3. \A c \in Channel : c.metrics \in MetricValues /\ c.id \in {e.channel : e \in Entries}
  BY DEF Channel
<1>4. \A k \in 1..Len(channels) : channels[k].id \in Named(channels)
  BY <1>1 DEF Named
<1>5. \A id \in Named(channels) : \E k \in 1..Len(channels) : channels[k].id = id
  BY <1>1 DEF Named
<1> QED
  BY <1>1, <1>2, <1>3, <1>4, <1>5, Zenon

LEMMA SameTable ==
    ASSUME NEW a, IsTable(a), NEW b, IsTable(b), Len(a) = Len(b),
           \A k \in 1..Len(a) : a[k] = b[k]
    PROVE  a = b
<1>1. a \in Seq(Channel) /\ b \in Seq(Channel)
  BY DEF IsTable
<1> QED
  BY <1>1

\* One channel updated twice is updated once with both.
LEMMA UpdateTwice ==
    ASSUME NEW channels, IsTable(channels), NEW id \in {e.channel : e \in Entries},
           NEW a \in MetricValues, NEW b \in MetricValues
    PROVE  UpdateChannel(UpdateChannel(channels, id, a), id, b)
               = UpdateChannel(channels, id, Overlay(a, b))
<1> DEFINE once == UpdateChannel(channels, id, a)
           twice == UpdateChannel(once, id, b)
           both == UpdateChannel(channels, id, Overlay(a, b))
           n == Len(channels)
<1>1. Overlay(a, b) \in MetricValues
  BY OverlayTyped
<1>2. IsTable(once) /\ IsTable(both)
  BY <1>1, UpdateOne, Zenon
<1>3. IsTable(twice)
  BY <1>2, UpdateOne, Zenon
<1>4. CASE id \in Named(channels)
  <2>1. PICK k \in 1..n : channels[k].id = id
    BY <1>4, TableFacts
  <2>2. WithKnown(channels, k, a, once) /\ WithKnown(channels, k, Overlay(a, b), both)
    BY <1>1, <2>1, UpdateOne, Zenon
  <2>3. k \in 1..Len(once) /\ once[k].id = id
    BY <2>1, <2>2 DEF WithKnown
  <2>4. WithKnown(once, k, b, twice)
    BY <1>2, <2>3, UpdateOne, Zenon
  <2>5. Overlay(Overlay(channels[k].metrics, a), b) = Overlay(channels[k].metrics, Overlay(a, b))
    BY <2>1, OverlayTwice, TableFacts
  <2> HIDE DEF once, twice, both
  <2>6. Len(twice) = Len(both) /\ \A j \in 1..Len(twice) : twice[j] = both[j]
    BY <2>1, <2>2, <2>4, <2>5 DEF WithKnown
  <2> QED
    BY <1>2, <1>3, <2>6, SameTable DEF once, twice, both
<1>5. CASE id \notin Named(channels) /\ n < MaxChannels
  <2> DEFINE k == n + 1
  <2>1. WithNew(channels, id, a, once) /\ WithNew(channels, id, Overlay(a, b), both)
    BY <1>1, <1>5, UpdateOne, Zenon
  <2> HIDE DEF once, twice, both
  <2>2. k \in 1..Len(once) /\ once[k].id = id /\ n \in Nat
    BY <2>1, TableFacts DEF WithNew
  <2>3. WithKnown(once, k, b, twice)
    BY <1>2, <2>2, UpdateOne, Zenon DEF twice
  <2>4. Overlay(Overlay(NoMetrics, a), b) = Overlay(NoMetrics, Overlay(a, b))
    BY OverlayTwice, NothingTyped
  <2>5. Len(twice) = Len(both)
    BY <2>1, <2>3 DEF WithKnown, WithNew
  <2>6. twice[k] = both[k]
    BY <2>1, <2>3, <2>4 DEF WithKnown, WithNew
  <2>7. ASSUME NEW j \in 1..n PROVE twice[j] = both[j]
    <3>1. j # k /\ j \in 1..Len(once)
      BY <2>1, <2>2 DEF WithNew
    <3> QED
      BY <2>1, <2>3, <3>1 DEF WithKnown, WithNew
  <2>8. \A j \in 1..Len(twice) : j \in 1..n \/ j = k
    BY <2>1, <2>2, <2>5 DEF WithNew
  <2> QED
    BY <1>2, <1>3, <2>5, <2>6, <2>7, <2>8, SameTable DEF once, twice, both
<1>6. CASE id \notin Named(channels) /\ ~(n < MaxChannels)
  <2>1. once = channels /\ both = channels
    BY <1>1, <1>6, UpdateOne, Zenon
  <2>2. twice = channels
    BY <1>6, <2>1, UpdateOne, Zenon
  <2> QED
    BY <2>1, <2>2
<1> QED
  BY <1>4, <1>5, <1>6

\* Two channels are updated in any order, if the first has its place in the table or
\* there is no place.
LEMMA UpdatesCommute ==
    ASSUME NEW channels, IsTable(channels),
           NEW id \in {e.channel : e \in Entries}, NEW a \in MetricValues,
           NEW other \in {e.channel : e \in Entries}, NEW b \in MetricValues,
           id # other, id \in Named(channels) \/ ~(Len(channels) < MaxChannels)
    PROVE  UpdateChannel(UpdateChannel(channels, id, a), other, b)
               = UpdateChannel(UpdateChannel(channels, other, b), id, a)
<1> DEFINE first == UpdateChannel(channels, id, a)
           second == UpdateChannel(channels, other, b)
           left == UpdateChannel(first, other, b)
           right == UpdateChannel(second, id, a)
           n == Len(channels)
<1>1. IsTable(first) /\ IsTable(second)
  BY UpdateOne, Zenon
<1>2. IsTable(left) /\ IsTable(right)
  BY <1>1, UpdateOne, Zenon
<1>3. CASE id \notin Named(channels)
  <2>1. first = channels
    BY <1>3, UpdateOne, Zenon
  <2>2. Named(second) = Named(channels) /\ Len(second) = n
    <3>1. CASE other \in Named(channels)
      <4>1. PICK j \in 1..n : channels[j].id = other
        BY <3>1, TableFacts
      <4>2. WithKnown(channels, j, b, second)
        BY <4>1, UpdateOne, Zenon
      <4> QED
        BY <4>2, Zenon DEF WithKnown
    <3>2. CASE other \notin Named(channels)
      BY <1>3, <3>2, UpdateOne, Zenon
    <3> QED
      BY <3>1, <3>2
  <2>3. id \notin Named(second) /\ ~(Len(second) < MaxChannels)
    BY <1>3, <2>2
  <2>4. right = second
    BY <1>1, <2>3, UpdateOne, Zenon
  <2> QED
    BY <2>1, <2>4
<1>4. CASE id \in Named(channels)
  <2>1. PICK k \in 1..n : channels[k].id = id
    BY <1>4, TableFacts
  <2>2. WithKnown(channels, k, a, first)
    BY <2>1, UpdateOne, Zenon
  <2>3. CASE other \in Named(channels)
    <3>1. PICK j \in 1..n : channels[j].id = other
      BY <2>3, TableFacts
    <3>2. WithKnown(channels, j, b, second)
      BY <3>1, UpdateOne, Zenon
    <3>3. /\ j \in 1..Len(first) /\ first[j].id = other /\ first[j] = channels[j]
          /\ k \in 1..Len(second) /\ second[k].id = id /\ second[k] = channels[k]
          /\ j # k
      BY <2>1, <2>2, <3>1, <3>2 DEF WithKnown
    <3>4. WithKnown(first, j, b, left) /\ WithKnown(second, k, a, right)
      BY <1>1, <3>3, UpdateOne, Zenon
    <3> HIDE DEF first, second, left, right
    <3>5. Len(left) = Len(right) /\ Len(left) = n
      BY <2>2, <3>2, <3>4 DEF WithKnown
    <3>6. ASSUME NEW i \in 1..n PROVE left[i] = right[i]
      BY <2>1, <2>2, <3>1, <3>2, <3>3, <3>4 DEF WithKnown
    <3> QED
      BY <1>2, <3>5, <3>6, SameTable DEF first, second, left, right
  <2>4. CASE other \notin Named(channels) /\ n < MaxChannels
    <3> DEFINE l == n + 1
    <3>1. WithNew(channels, other, b, second)
      BY <2>4, UpdateOne, Zenon
    <3>2. other \notin Named(first) /\ Len(first) < MaxChannels
      BY <2>2, <2>4 DEF WithKnown
    <3>3. WithNew(first, other, b, left)
      BY <1>1, <3>2, UpdateOne, Zenon
    <3>4. k \in 1..Len(second) /\ second[k] = channels[k] /\ second[k].id = id /\ n \in Nat
      <4>1. n \in Nat
        BY TableFacts, Zenon
      <4>2. Len(second) = n + 1 /\ second[k] = channels[k]
        BY <2>1, <3>1, Zenon DEF WithNew
      <4> QED
        BY <2>1, <4>1, <4>2
    <3>5. WithKnown(second, k, a, right)
      BY <1>1, <3>4, UpdateOne, Zenon
    <3> HIDE DEF first, second, left, right
    <3>6. Len(left) = n + 1 /\ Len(right) = n + 1 /\ Len(second) = n + 1 /\ Len(first) = n
      BY <2>2, <3>1, <3>3, <3>5 DEF WithKnown, WithNew
    <3>7. left[l] = right[l]
      <4>1. l \in 1..Len(second) /\ l # k
        BY <2>1, <3>4, <3>6
      <4>2. right[l] = second[l]
        BY <3>5, <4>1, Zenon DEF WithKnown
      <4>3. second[l] = [id |-> other, metrics |-> Overlay(NoMetrics, b)]
        BY <3>1, Zenon DEF WithNew
      <4>4. left[l] = [id |-> other, metrics |-> Overlay(NoMetrics, b)]
        BY <3>3, <3>6 DEF WithNew
      <4> QED
        BY <4>2, <4>3, <4>4
    <3>8. ASSUME NEW i \in 1..n PROVE left[i] = right[i]
      <4>1. left[i] = first[i]
        BY <3>3, <3>6 DEF WithNew
      <4>2. second[i] = channels[i]
        BY <3>1 DEF WithNew
      <4>3. i \in 1..Len(second)
        BY <3>4, <3>6
      <4>4. CASE i = k
        BY <2>2, <3>4, <3>5, <4>1, <4>4 DEF WithKnown
      <4>5. CASE i # k
        BY <2>2, <3>5, <4>1, <4>2, <4>3, <4>5 DEF WithKnown
      <4> QED
        BY <4>4, <4>5
    <3>9. \A i \in 1..Len(left) : i \in 1..n \/ i = l
      BY <3>4, <3>6
    <3>10. Len(left) = Len(right) /\ \A i \in 1..Len(left) : left[i] = right[i]
      BY <3>6, <3>7, <3>8, <3>9
    <3> QED
      BY <1>2, <3>10, SameTable DEF first, second, left, right
  <2>5. CASE other \notin Named(channels) /\ ~(n < MaxChannels)
    <3>1. second = channels
      BY <2>5, UpdateOne, Zenon
    <3>2. other \notin Named(first) /\ ~(Len(first) < MaxChannels)
      BY <2>2, <2>5 DEF WithKnown
    <3>3. left = first
      BY <1>1, <3>2, UpdateOne, Zenon
    <3> QED
      BY <3>1, <3>3
  <2> QED
    BY <2>3, <2>4, <2>5
<1> QED
  BY <1>3, <1>4

-----------------------------------------------------------------------------
(* Two tables merged.                                                       *)

\* Where a run of merges has come to: a table that has all channels merged so far, if
\* there was room.
LEMMA MergingTables ==
    ASSUME NEW channels, IsTable(channels), NEW others, IsTable(others),
           NEW f, Merging(f, channels, others, Len(others))
    PROVE  \A i \in 0..Len(others) :
               /\ IsTable(f[i])
               /\ \A k \in 1..i : others[k].id \in Named(f[i]) \/ ~(Len(f[i]) < MaxChannels)
<1> DEFINE n == Len(others)
           Taken(id, t) == id \in Named(t) \/ ~(Len(t) < MaxChannels)
           Holds(i) == IsTable(f[i]) /\ \A k \in 1..i : Taken(others[k].id, f[i])
           S == {i \in Nat : i <= n => Holds(i)}
<1>0. n \in Nat /\ f[0] = channels
  BY TableFacts, MergingSteps, Zenon
<1>1. 0 \in S
  BY <1>0
<1>2. ASSUME NEW i \in S PROVE i + 1 \in S
  <2> SUFFICES ASSUME i + 1 <= n PROVE Holds(i + 1)
    OBVIOUS
  <2>1. Holds(i) /\ i + 1 \in 1..n /\ i \in 0 .. n - 1
    BY <1>0, <1>2
  <2> DEFINE id == others[i + 1].id
             next == UpdateChannel(f[i], id, others[i + 1].metrics)
  <2>2. f[i + 1] = next
    BY <1>0, <2>1, MergingSteps
  <2>3. id \in {e.channel : e \in Entries} /\ others[i + 1].metrics \in MetricValues
    BY <2>1, TableFacts, Zenon
  <2>4. /\ IsTable(next)
        /\ \A k \in 1..Len(f[i]) :
               f[i][k].id = id => WithKnown(f[i], k, others[i + 1].metrics, next)
        /\ id \notin Named(f[i]) /\ Len(f[i]) < MaxChannels =>
               WithNew(f[i], id, others[i + 1].metrics, next)
        /\ id \notin Named(f[i]) /\ ~(Len(f[i]) < MaxChannels) => next = f[i]
    BY <2>1, <2>3, UpdateOne, Zenon
  <2> HIDE DEF next
  <2>5. /\ Named(f[i]) \subseteq Named(next) /\ Len(f[i]) <= Len(next)
        /\ Taken(id, next)
    <3>0. Len(f[i]) \in Nat
      BY <2>1, TableFacts, Zenon
    <3>1. CASE id \in Named(f[i])
      <4>1. PICK k \in 1..Len(f[i]) : f[i][k].id = id
        BY <2>1, <3>1, TableFacts
      <4>2. Named(next) = Named(f[i]) /\ Len(next) = Len(f[i])
        BY <2>4, <4>1, Zenon DEF WithKnown
      <4> QED
        BY <3>0, <3>1, <4>2
    <3>2. CASE id \notin Named(f[i]) /\ Len(f[i]) < MaxChannels
      <4>1. Named(next) = Named(f[i]) \cup {id} /\ Len(next) = Len(f[i]) + 1
        BY <2>4, <3>2, Zenon DEF WithNew
      <4> QED
        BY <3>0, <4>1
    <3>3. CASE id \notin Named(f[i]) /\ ~(Len(f[i]) < MaxChannels)
      BY <2>4, <3>0, <3>3
    <3> QED
      BY <3>1, <3>2, <3>3, Zenon
  <2>6. Len(f[i]) \in Nat /\ Len(next) \in Nat /\ MaxChannels \in Nat
    BY <2>1, <2>4, TableBound, TableFacts, Zenon
  <2>7. ASSUME NEW k \in 1 .. i + 1 PROVE Taken(others[k].id, next)
    <3>1. CASE k = i + 1
      BY <2>5, <3>1
    <3>2. CASE k \in 1..i
      <4>1. Taken(others[k].id, f[i])
        BY <2>1, <3>2, Zenon
      <4> QED
        BY <2>5, <2>6, <4>1
    <3> QED
      BY <3>1, <3>2
  <2> QED
    BY <2>2, <2>4, <2>7, Zenon
<1>3. Nat \subseteq S
  <2> HIDE DEF S
  <2> QED
    BY <1>1, <1>2, AllNaturals
<1>4. ASSUME NEW i \in 0..n PROVE Holds(i)
  <2>1. i \in Nat /\ i <= n
    BY <1>0
  <2>2. i \in S
    BY <1>3, <2>1, Zenon
  <2> QED
    BY <2>1, <2>2, Zenon
<1> QED
  BY <1>4, Zenon

\* Runs of merges of tables with the same first k channels agree so far.
LEMMA MergingsAgree ==
    ASSUME NEW channels, NEW others, NEW f, NEW n \in Nat, Merging(f, channels, others, n),
           NEW more, NEW g, NEW l \in Nat, Merging(g, channels, more, l),
           NEW k \in Nat, k <= n, k <= l, \A i \in 1..k : more[i] = others[i]
    PROVE  \A i \in 0..k : g[i] = f[i]
<1> DEFINE S == {i \in Nat : i <= k => g[i] = f[i]}
<1>1. 0 \in S
  BY MergingSteps
<1>2. ASSUME NEW i \in S PROVE i + 1 \in S
  <2> SUFFICES ASSUME i + 1 <= k PROVE g[i + 1] = f[i + 1]
    OBVIOUS
  <2>1. /\ g[i] = f[i] /\ more[i + 1] = others[i + 1]
        /\ i \in 0 .. n - 1 /\ i \in 0 .. l - 1
    BY <1>2
  <2>2. f[i + 1] = UpdateChannel(f[i], others[i + 1].id, others[i + 1].metrics)
    BY <2>1, MergingSteps
  <2>3. g[i + 1] = UpdateChannel(g[i], more[i + 1].id, more[i + 1].metrics)
    BY <2>1, MergingSteps
  <2> QED
    BY <2>1, <2>2, <2>3, Zenon
<1>3. Nat \subseteq S
  <2> HIDE DEF S
  <2> QED
    BY <1>1, <1>2, AllNaturals
<1> QED
  BY <1>3

LEMMA MergeIsTable ==
    ASSUME NEW channels, IsTable(channels), NEW others, IsTable(others)
    PROVE  IsTable(MergeChannels(channels, others))
<1>1. Len(others) \in Nat
  BY TableFacts, Zenon
<1>2. PICK f : /\ Merging(f, channels, others, Len(others))
               /\ MergeChannels(channels, others) = f[Len(others)]
  BY <1>1, MergeIsRun, Zenon
<1>3. Len(others) \in 0..Len(others)
  BY <1>1
<1>4. IsTable(f[Len(others)])
  BY <1>2, <1>3, MergingTables, Zenon
<1> QED
  BY <1>2, <1>4, Zenon

LEMMA MergeNothing ==
    ASSUME NEW channels
    PROVE  MergeChannels(channels, <<>>) = channels
<1>1. Len(<<>>) = 0 /\ 0 \in Nat
  OBVIOUS
<1>2. PICK f : /\ Merging(f, channels, <<>>, Len(<<>>))
               /\ MergeChannels(channels, <<>>) = f[Len(<<>>)]
  BY <1>1, MergeIsRun, Zenon
<1>3. f[0] = channels
  BY <1>1, <1>2, MergingSteps, Zenon
<1> QED
  BY <1>1, <1>2, <1>3

\* To merge a table that was updated is to merge it and to update the result, if the
\* table had room for the update.
LEMMA MergeUpdated ==
    ASSUME NEW channels, IsTable(channels), NEW others, IsTable(others),
           NEW id \in {e.channel : e \in Entries}, NEW metrics \in MetricValues,
           id \in Named(others) \/ Len(others) < MaxChannels
    PROVE  MergeChannels(channels, UpdateChannel(others, id, metrics))
               = UpdateChannel(MergeChannels(channels, others), id, metrics)
<1> DEFINE more == UpdateChannel(others, id, metrics)
           n == Len(others)
           l == Len(more)
<1>1. /\ n \in Nat /\ IsTable(more) /\ l \in Nat
  BY UpdateOne, TableFacts, Zenon
<1>2. PICK f : Merging(f, channels, others, n) /\ MergeChannels(channels, others) = f[n]
  BY <1>1, MergeIsRun, Zenon
<1>3. PICK g : Merging(g, channels, more, l) /\ MergeChannels(channels, more) = g[l]
  BY <1>1, MergeIsRun, Zenon
<1>4. \A i \in 0 .. n - 1 : f[i + 1] = UpdateChannel(f[i], others[i + 1].id, others[i + 1].metrics)
  BY <1>1, <1>2, MergingSteps
<1>5. \A i \in 0 .. l - 1 : g[i + 1] = UpdateChannel(g[i], more[i + 1].id, more[i + 1].metrics)
  BY <1>1, <1>3, MergingSteps
<1>6. \A i \in 0..n : /\ IsTable(f[i])
                      /\ \A k \in 1..i : others[k].id \in Named(f[i])
                                             \/ ~(Len(f[i]) < MaxChannels)
  BY <1>2, MergingTables, Zenon
<1>7. CASE id \notin Named(others) /\ n < MaxChannels
  <2>1. WithNew(others, id, metrics, more)
    BY <1>7, UpdateOne, Zenon
  <2> HIDE DEF more
  <2>2. /\ l = n + 1 /\ \A i \in 1..n : more[i] = others[i]
        /\ more[n + 1] = [id |-> id, metrics |-> Overlay(NoMetrics, metrics)]
    BY <2>1, Zenon DEF WithNew
  <2>3. n <= n /\ n <= l /\ n \in 0..n /\ n \in 0 .. l - 1
    BY <1>1, <2>2
  <2>4. g[n] = f[n]
    <3>1. \A i \in 1..n : more[i] = others[i]
      BY <2>2, Zenon
    <3> HIDE DEF n, l
    <3>2. \A i \in 0..n : g[i] = f[i]
      BY <1>1, <1>2, <1>3, <2>3, <3>1, MergingsAgree
    <3> QED
      BY <2>3, <3>2, Zenon
  <2>5. g[n + 1] = UpdateChannel(f[n], id, Overlay(NoMetrics, metrics))
    BY <1>5, <2>2, <2>3, <2>4
  <2>6. IsTable(f[n])
    BY <1>6, <2>3, Zenon
  <2>7. UpdateChannel(f[n], id, Overlay(NoMetrics, metrics)) = UpdateChannel(f[n], id, metrics)
    <3> DEFINE o == Overlay(NoMetrics, metrics)
               t == f[n]
    <3>1. o \in MetricValues /\ IsTable(t)
      BY <2>6, OverlayTyped, NothingTyped
    <3> HIDE DEF t
    <3>2. CASE id \in Named(t)
      <4>1. PICK k \in 1..Len(t) : t[k].id = id
        BY <3>1, <3>2, TableFacts, Zenon
      <4> DEFINE u == UpdateChannel(t, id, o)
                 v == UpdateChannel(t, id, metrics)
      <4>2. WithKnown(t, k, o, u) /\ WithKnown(t, k, metrics, v)
        BY <3>1, <4>1, UpdateOne, Zenon
      <4>3. Overlay(t[k].metrics, o) = Overlay(t[k].metrics, metrics)
        <5>1. t[k].metrics \in MetricValues
          BY <3>1, TableFacts, Zenon
        <5> QED
          BY <5>1, OverlayTwice, Zenon
      <4> HIDE DEF u, v, o
      <4>4. /\ IsTable(u) /\ IsTable(v) /\ Len(u) = Len(v)
            /\ \A j \in 1..Len(u) : u[j] = v[j]
        BY <4>2, <4>3 DEF WithKnown
      <4>5. u = v
        BY <4>4, SameTable, Zenon
      <4> QED
        BY <4>5 DEF u, v, t, o
    <3>3. CASE id \notin Named(t)
      <4>1. Overlay(NoMetrics, o) = Overlay(NoMetrics, metrics)
        BY OverlayTwice, NothingTyped, Zenon
      <4>2. ~ \E i \in DOMAIN t : t[i].id = id
        BY <3>3 DEF Named
      <4> HIDE DEF o
      <4>3. UpdateChannel(t, id, o) = UpdateChannel(t, id, metrics)
        BY <4>1, <4>2, Zenon DEF UpdateChannel
      <4> QED
        BY <4>3 DEF t, o
    <3> QED
      BY <3>2, <3>3
  <2> QED
    BY <1>2, <1>3, <2>2, <2>5, <2>7 DEF more
<1>8. CASE id \in Named(others)
  <2>1. PICK k \in 1..n : others[k].id = id
    BY <1>8, TableFacts, Zenon
  <2>2. WithKnown(others, k, metrics, more)
    BY <2>1, UpdateOne, Zenon
  <2> HIDE DEF more
  <2>3. /\ l = n /\ \A i \in 1..n : i # k => more[i] = others[i]
        /\ more[k] = [id |-> id, metrics |-> Overlay(others[k].metrics, metrics)]
    BY <2>1, <2>2 DEF WithKnown
  <2>4. \A i \in 1..n : /\ others[i].metrics \in MetricValues
                        /\ others[i].id \in {e.channel : e \in Entries}
                        /\ others[i].id = id => i = k
    BY <2>1, TableFacts, Zenon
  <2> DEFINE S == {i \in Nat : i >= k /\ i <= n => g[i] = UpdateChannel(f[i], id, metrics)}
  <2>5. \A i \in 0 .. k - 1 : g[i] = f[i]
    <3> DEFINE m == k - 1
    <3>1. m \in Nat /\ m <= n /\ m <= l /\ \A i \in 1..m : more[i] = others[i]
      BY <1>1, <2>1, <2>3
    <3> HIDE DEF m
    <3>2. \A i \in 0..m : g[i] = f[i]
      BY <1>1, <1>2, <1>3, <3>1, MergingsAgree
    <3> QED
      BY <3>2 DEF m
  <2>6. g[k] = UpdateChannel(f[k], id, metrics)
    <3> DEFINE m == k - 1
    <3>1. m \in 0 .. n - 1 /\ m \in 0 .. l - 1 /\ m + 1 = k /\ m \in 0..n /\ m \in 0 .. k - 1
      BY <1>1, <2>1, <2>3
    <3>2. g[k] = UpdateChannel(f[m], id, Overlay(others[k].metrics, metrics))
      BY <1>5, <2>3, <2>5, <3>1
    <3>3. f[k] = UpdateChannel(f[m], id, others[k].metrics)
      BY <1>4, <2>1, <3>1
    <3>4. IsTable(f[m]) /\ others[k].metrics \in MetricValues
      BY <1>6, <2>4, <3>1, Zenon
    <3> QED
      BY <3>2, <3>3, <3>4, UpdateTwice
  <2>7. 0 \in S
    BY <2>1
  <2>8. ASSUME NEW i \in S PROVE i + 1 \in S
    <3> SUFFICES ASSUME i + 1 >= k, i + 1 <= n
                 PROVE  g[i + 1] = UpdateChannel(f[i + 1], id, metrics)
      OBVIOUS
    <3>1. CASE i + 1 = k
      BY <2>6, <3>1
    <3>2. CASE i + 1 # k
      <4>1. i >= k /\ i <= n /\ i \in 0 .. n - 1 /\ i \in 0 .. l - 1 /\ k \in 1..i /\ i \in 0..n
                /\ i + 1 \in 1..n
        BY <1>1, <2>1, <2>3, <3>2
      <4>2. g[i] = UpdateChannel(f[i], id, metrics)
        BY <2>8, <4>1
      <4> DEFINE x == others[i + 1].id
                 b == others[i + 1].metrics
      <4>3. /\ x # id /\ x \in {e.channel : e \in Entries} /\ b \in MetricValues
            /\ more[i + 1] = others[i + 1]
        BY <2>3, <2>4, <3>2, <4>1
      <4>4. g[i + 1] = UpdateChannel(g[i], x, b)
        BY <1>5, <4>1, <4>3, Zenon
      <4>5. f[i + 1] = UpdateChannel(f[i], x, b)
        BY <1>4, <4>1, Zenon
      <4>6. IsTable(f[i]) /\ (id \in Named(f[i]) \/ ~(Len(f[i]) < MaxChannels))
        BY <1>6, <2>1, <4>1, Zenon
      <4> DEFINE t == f[i]
      <4> HIDE DEF x, b, t
      <4>7. /\ IsTable(t) /\ id # x /\ x \in {e.channel : e \in Entries} /\ b \in MetricValues
            /\ id \in Named(t) \/ ~(Len(t) < MaxChannels)
        BY <4>3, <4>6 DEF t
      <4>8. UpdateChannel(UpdateChannel(t, id, metrics), x, b)
                = UpdateChannel(UpdateChannel(t, x, b), id, metrics)
        BY <4>7, UpdatesCommute
      <4> QED
        BY <4>2, <4>4, <4>5, <4>8, Zenon DEF t
    <3> QED
      BY <3>1, <3>2
  <2>9. Nat \subseteq S
    <3> HIDE DEF S
    <3> QED
      BY <2>7, <2>8, AllNaturals
  <2>10. n >= k /\ n <= n
    BY <1>1, <2>1
  <2>11. g[n] = UpdateChannel(f[n], id, metrics)
    BY <1>1, <2>9, <2>10
  <2> QED
    BY <1>2, <1>3, <2>3, <2>11 DEF more
<1> QED
  BY <1>7, <1>8

-----------------------------------------------------------------------------
(* What is made of a message.                                               *)

LEMMA ReadingsTyped ==
    ASSUME NEW payload \in Seq(Entries)
    PROVE  Readings(payload) \in Seq(Entries)
<1> DEFINE Known(e) == e.type \in DOMAIN MetricOf \cup SkippedTypes
           unknown == {i \in DOMAIN payload : ~Known(payload[i])}
           least == CHOOSE i \in unknown : \A j \in unknown : i <= j
           before == IF unknown = {} THEN payload ELSE SubSeq(payload, 1, least - 1)
           each == [i \in DOMAIN before |-> Optional(IsReading(before[i]), before[i])]
<1>1. Readings(payload) = FlattenSeq(each)
  BY Zenon DEF Readings
<1>2. unknown \in SUBSET (1..Len(payload)) /\ Len(payload) \in Nat
  <2>1. DOMAIN payload = 1..Len(payload) /\ Len(payload) \in Nat
    OBVIOUS
  <2> HIDE DEF Known
  <2> QED
    BY <2>1
<1> HIDE DEF unknown
<1>3. unknown # {} => least \in 1..Len(payload)
  <2>1. unknown # {} => \E k \in unknown : \A j \in unknown : k <= j
    BY <1>2, FirstAndLast
  <2>2. unknown # {} => least \in unknown
    BY <2>1, Zenon
  <2> QED
    BY <1>2, <2>2
<1> HIDE DEF least
<1>4. before \in Seq(Entries)
  BY <1>3
<1> HIDE DEF before
<1>5. ASSUME NEW i \in DOMAIN before
      PROVE  Optional(IsReading(before[i]), before[i]) \in Seq(Entries)
  <2>1. before[i] \in Entries
    BY <1>4
  <2> DEFINE e == before[i]
  <2> HIDE DEF e
  <2>2. <<e>> \in Seq(Entries) /\ <<>> \in Seq(Entries)
    BY <2>1 DEF e
  <2> QED
    BY <2>2, Zenon DEF Optional, e
<1>6. each \in Seq(Seq(Entries))
  <2> DEFINE T == Seq(Entries)
             One(i) == Optional(IsReading(before[i]), before[i])
  <2>1. DOMAIN before = 1..Len(before) /\ Len(before) \in Nat
    BY <1>4
  <2>2. \A i \in 1..Len(before) : One(i) \in T
    BY <1>5, <2>1
  <2>3. each = [i \in 1..Len(before) |-> One(i)]
    BY <2>1
  <2> HIDE DEF T, One, each
  <2>4. each \in Seq(T)
    BY <2>1, <2>2, <2>3
  <2> QED
    BY <2>4 DEF T
<1> HIDE DEF each
<1> QED
  BY <1>1, <1>6, FlattenTyped

LEMMA FirstSaidAppend ==
    ASSUME NEW readings \in Seq(Entries), NEW e \in Entries, NEW m \in Metrics
    PROVE  FirstSaid(Append(readings, e), m)
               = IF FirstSaid(readings, m) # Unset THEN FirstSaid(readings, m) ELSE Said(e)[m]
<1> DEFINE more == Append(readings, e)
           n == Len(readings)
           Says(x) == Said(x)[m] # Unset
           First(T) == CHOOSE k \in T : \A j \in T : k <= j
           about == {k \in DOMAIN readings : Says(readings[k])}
           aboutMore == {k \in DOMAIN more : Says(more[k])}
<1>1. /\ n \in Nat /\ DOMAIN readings = 1..n /\ DOMAIN more = 1 .. n + 1
      /\ \A k \in 1..n : more[k] = readings[k]
      /\ more[n + 1] = e
  OBVIOUS
<1>2. /\ FirstSaid(readings, m) = IF about = {} THEN Unset ELSE readings[First(about)].value
      /\ FirstSaid(more, m) = IF aboutMore = {} THEN Unset ELSE more[First(aboutMore)].value
  BY Zenon DEF FirstSaid
<1>3. \A x \in Entries : Said(x)[m] \in {x.value, Unset}
  BY SaidTyped
<1>4. \A k \in 1..n : readings[k] \in Entries
  OBVIOUS
<1> HIDE DEF more, Says
<1>5. /\ \A k \in 1..n : k \in aboutMore <=> k \in about
      /\ n + 1 \in aboutMore <=> Says(e)
      /\ about \in SUBSET (1..n) /\ aboutMore \subseteq 1 .. n + 1
  <2>1. \A k \in 1..n : k \in aboutMore <=> k \in about
    BY <1>1
  <2>2. n + 1 \in aboutMore <=> Says(e)
    BY <1>1
  <2>3. about \in SUBSET (1..n) /\ aboutMore \subseteq 1 .. n + 1
    BY <1>1
  <2> QED
    BY <2>1, <2>2, <2>3, Zenon
<1>6. \A k \in about : readings[k].value # Unset
  <2> SUFFICES ASSUME NEW k \in about PROVE readings[k].value # Unset
    OBVIOUS
  <2>1. k \in 1..n /\ Says(readings[k])
    BY <1>1
  <2> QED
    BY <1>3, <1>4, <2>1 DEF Says
<1> HIDE DEF about, aboutMore
<1>7. \A k \in 1 .. n + 1 : k \in 1..n \/ k = n + 1
  BY <1>1
<1>8. CASE about # {}
  <2>1. PICK k \in about : \A j \in about : k <= j
    BY <1>1, <1>5, <1>8, FirstAndLast
  <2>2. k \in 1..n /\ k <= n + 1 /\ k \in aboutMore
    BY <1>1, <1>5, <2>1
  <2>3. \A j \in about : (\A i \in about : j <= i) <=> j = k
    BY <1>1, <1>5, <2>1
  <2>4. \A j \in aboutMore : k <= j
    BY <1>5, <1>7, <2>1, <2>2
  <2>5. \A j \in aboutMore : (\A i \in aboutMore : j <= i) <=> j = k
    <3>1. \A j \in aboutMore : j \in Int
      BY <1>1, <1>5
    <3>2. k \in Int
      BY <2>2
    <3> QED
      BY <2>2, <2>4, <3>1, <3>2
  <2>6. First(about) = k
    BY <2>1, <2>3, Zenon
  <2>7. First(aboutMore) = k
    BY <2>2, <2>5, Zenon
  <2>8. FirstSaid(readings, m) = readings[k].value /\ FirstSaid(more, m) = readings[k].value
    BY <1>1, <1>2, <1>8, <2>2, <2>6, <2>7
  <2>9. readings[k].value # Unset
    BY <1>6, <2>1
  <2> QED
    BY <2>8, <2>9 DEF more
<1>9. CASE about = {}
  <2>1. FirstSaid(readings, m) = Unset
    BY <1>2, <1>9
  <2>2. \A k \in aboutMore : k = n + 1
    BY <1>5, <1>7, <1>9
  <2>3. CASE Says(e)
    <3>1. n + 1 \in aboutMore /\ \A k \in aboutMore : (\A j \in aboutMore : k <= j) <=> k = n + 1
      BY <1>1, <1>5, <2>2, <2>3
    <3>2. First(aboutMore) = n + 1
      BY <3>1, Zenon
    <3>3. FirstSaid(more, m) = e.value
      BY <1>1, <1>2, <3>1, <3>2
    <3> QED
      BY <1>3, <2>1, <2>3, <3>3 DEF Says, more
  <2>4. CASE ~Says(e)
    <3>1. aboutMore = {}
      BY <1>5, <2>2, <2>4
    <3>2. FirstSaid(more, m) = Unset
      BY <1>2, <3>1
    <3> QED
      BY <2>1, <2>4, <3>2 DEF Says, more
  <2> QED
    BY <2>3, <2>4
<1> QED
  BY <1>8, <1>9

LEMMA KeptNothing == Kept(<<>>) = <<>>
<1> DEFINE T == Seq(Entries)
           none == Chosen(<<>>, Retained(<<>>))
<1>1. <<>> \in Seq(Entries)
  OBVIOUS
<1>2. Kept(<<>>) = FlattenSeq(none) /\ none \in Seq(T)
  BY <1>1, KeptTyped, ChosenTyped, Zenon
<1>3. DOMAIN none = DOMAIN <<>>
  BY Zenon DEF Chosen
<1> HIDE DEF T, none
<1>4. none = <<>>
  BY <1>2, <1>3
<1> QED
  BY <1>2, <1>4, FlattenEmpty

\* t is the telemetry made of the message b alone: its table shows b and what is kept
\* of it, its view is what b says first, and merged into another table it is what is
\* kept of b that is added to what that table shows.
MadeOf(t, b) ==
    /\ t \in Telemetries /\ b \in Seq(Entries)
    /\ IsTable(t.channels) /\ Shows(b, t.channels) /\ Shows(Kept(b), t.channels)
    /\ \A m \in Metrics : t.view[m] = FirstSaid(b, m)
    /\ \A told \in Seq(Entries), channels \in Seq(Channel) :
           IsTable(channels) /\ Shows(told, channels) =>
               Shows(told \o Kept(b), MergeChannels(channels, t.channels))

LEMMA TelemetryTyped ==
    Telemetries = [heard : Nat, signal : Nat \cup {Unset}, view : MetricValues,
                   channels : Seq(Channel)]
BY Zenon DEF Telemetries, Channel

LEMMA MadeStart ==
    ASSUME NEW stamp \in Nat, NEW signal \in Nat
    PROVE  LET t == [NoTelemetry(stamp) EXCEPT !.signal = signal]
           IN  MadeOf(t, <<>>) /\ t.heard = stamp /\ t.signal = signal
<1> DEFINE t == [NoTelemetry(stamp) EXCEPT !.signal = signal]
<1>1. t = [heard |-> stamp, signal |-> signal, view |-> NoMetrics, channels |-> <<>>]
  BY DEF NoTelemetry
<1>2. <<>> \in Seq(Channel) /\ <<>> \in Seq(Entries)
  OBVIOUS
<1>3. t \in Telemetries
  BY <1>1, <1>2, NothingTyped, TelemetryTyped
<1>4. ASSUME NEW m \in Metrics PROVE t.view[m] = FirstSaid(<<>>, m)
  <2>1. {k \in DOMAIN <<>> : Said(<<>>[k])[m] # Unset} = {}
    OBVIOUS
  <2>2. FirstSaid(<<>>, m) = Unset
    BY <2>1, Zenon DEF FirstSaid
  <2> QED
    BY <1>1, <2>2, NothingTyped
<1>5. \A told \in Seq(Entries) : told \o <<>> = told
  OBVIOUS
<1>6. t.channels = <<>>
  BY <1>1
<1> HIDE DEF t
<1>7. IsTable(t.channels) /\ Shows(<<>>, t.channels) /\ Shows(Kept(<<>>), t.channels)
  BY <1>6, KeptNothing, ShowsNothing
<1>8. \A told \in Seq(Entries), channels \in Seq(Channel) :
          IsTable(channels) /\ Shows(told, channels) =>
              Shows(told \o Kept(<<>>), MergeChannels(channels, t.channels))
  BY <1>5, <1>6, KeptNothing, MergeNothing
<1>9. MadeOf(t, <<>>)
  BY <1>2, <1>3, <1>4, <1>7, <1>8, Zenon DEF MadeOf
<1> QED
  BY <1>1, <1>9 DEF t

LEMMA MadeStep ==
    ASSUME NEW t, NEW b, MadeOf(t, b), NEW e \in Entries
    PROVE  /\ MadeOf(SetChannel(t, e), Append(b, e))
           /\ SetChannel(t, e).heard = t.heard /\ SetChannel(t, e).signal = t.signal
<1> DEFINE s == SetChannel(t, e)
           more == Append(b, e)
           c == e.channel
           next == UpdateChannel(t.channels, c, Said(e))
           view == Overlay(Said(e), t.view)
<1>1. t \in Telemetries /\ b \in Seq(Entries) /\ IsTable(t.channels)
  BY Zenon DEF MadeOf
<1>2. /\ Said(e) \in MetricValues /\ c \in {x.channel : x \in Entries}
      /\ t.view \in MetricValues /\ t.channels \in Seq(Channel)
  BY <1>1, SaidTyped, TelemetryTyped
<1>3. /\ IsTable(next) /\ Shows(more, next)
      /\ ~Room(e, t.channels) => next = t.channels
  BY <1>1, ShowsUpdate DEF MadeOf
<1>4. view \in MetricValues
      /\ \A m \in Metrics : view[m] = IF t.view[m] # Unset THEN t.view[m] ELSE Said(e)[m]
  BY <1>2, OverlayTyped
<1>5. s = [t EXCEPT !.view = view, !.channels = next]
  BY DEF SetChannel
<1> HIDE DEF next, view, s
<1>6. /\ s \in Telemetries /\ s.heard = t.heard /\ s.signal = t.signal
      /\ s.view = view /\ s.channels = next
  <2>1. next \in Seq(Channel)
    BY <1>3, TableFacts, Zenon
  <2> QED
    BY <1>1, <1>4, <1>5, <2>1, TelemetryTyped
<1>7. ASSUME NEW m \in Metrics PROVE s.view[m] = FirstSaid(more, m)
  <2>1. t.view[m] = FirstSaid(b, m)
    BY Zenon DEF MadeOf
  <2>2. FirstSaid(more, m) = IF FirstSaid(b, m) # Unset THEN FirstSaid(b, m) ELSE Said(e)[m]
    BY <1>1, FirstSaidAppend
  <2> QED
    BY <1>4, <1>6, <2>1, <2>2
<1>8. more \in Seq(Entries)
  BY <1>1
<1>9. Kept(more) = IF Room(e, t.channels) THEN Append(Kept(b), e) ELSE Kept(b)
  BY <1>1, KeptAppend DEF MadeOf
<1>10. Kept(b) \in Seq(Entries)
  BY <1>1, KeptTyped
<1> HIDE DEF more
<1>11. CASE Room(e, t.channels)
  <2> DEFINE kept == Kept(b)
  <2>1. Kept(more) = Append(kept, e)
    BY <1>9, <1>11, Zenon
  <2>2. Shows(Kept(more), next)
    <3>1. Shows(kept, t.channels)
      BY Zenon DEF MadeOf
    <3> QED
      BY <1>1, <1>10, <2>1, <3>1, ShowsUpdate DEF next
  <2>3. ASSUME NEW told \in Seq(Entries), NEW channels \in Seq(Channel),
               IsTable(channels), Shows(told, channels)
        PROVE  Shows(told \o Kept(more), MergeChannels(channels, next))
    <3> DEFINE merged == MergeChannels(channels, t.channels)
               all == told \o kept
    <3>1. IsTable(merged)
      BY <1>1, <2>3, MergeIsTable, Zenon
    <3>2. Shows(all, merged)
      BY <2>3, Zenon DEF MadeOf
    <3>3. MergeChannels(channels, next) = UpdateChannel(merged, c, Said(e))
      BY <1>1, <1>2, <1>11, <2>3, MergeUpdated, ZenonT(60) DEF Room, next
    <3> HIDE DEF kept
    <3>4. all \in Seq(Entries) /\ told \o Append(kept, e) = Append(all, e)
      BY <1>10 DEF kept
    <3> HIDE DEF merged, all
    <3>5. Shows(Append(all, e), UpdateChannel(merged, c, Said(e)))
      BY <3>1, <3>2, <3>4, ShowsUpdate
    <3> QED
      BY <2>1, <3>3, <3>4, <3>5
  <2>4. \A told \in Seq(Entries), channels \in Seq(Channel) :
            IsTable(channels) /\ Shows(told, channels) =>
                Shows(told \o Kept(more), MergeChannels(channels, s.channels))
    BY <1>6, <2>3
  <2>5. MadeOf(s, more)
    BY <1>3, <1>6, <1>7, <1>8, <2>2, <2>4, Zenon DEF MadeOf, more
  <2> QED
    BY <1>6, <2>5 DEF s, more
<1>12. CASE ~Room(e, t.channels)
  <2>1. Kept(more) = Kept(b) /\ s.channels = t.channels /\ next = t.channels
    BY <1>3, <1>6, <1>9, <1>12
  <2>2. Shows(Kept(more), s.channels)
    BY <2>1 DEF MadeOf
  <2>3. \A told \in Seq(Entries), channels \in Seq(Channel) :
            IsTable(channels) /\ Shows(told, channels) =>
                Shows(told \o Kept(more), MergeChannels(channels, s.channels))
    BY <2>1, Zenon DEF MadeOf
  <2>4. MadeOf(s, more)
    BY <1>1, <1>3, <1>6, <1>7, <1>8, <2>1, <2>2, <2>3, Zenon DEF MadeOf, more
  <2> QED
    BY <1>6, <2>4 DEF s, more
<1> QED
  BY <1>11, <1>12

LEMMA MadeDecode ==
    ASSUME NEW t, NEW b, MadeOf(t, b), NEW payload \in Seq(Entries)
    PROVE  /\ MadeOf(Decode(t, payload), b \o Readings(payload))
           /\ Decode(t, payload).heard = t.heard /\ Decode(t, payload).signal = t.signal
<1> DEFINE readings == Readings(payload)
           n == Len(readings)
           Upto(i) == b \o SubSeq(readings, 1, i)
<1>1. /\ readings \in Seq(Entries) /\ n \in Nat /\ b \in Seq(Entries)
  BY ReadingsTyped DEF MadeOf
<1>2. PICK f : Decoding(f, t, readings, n) /\ Decode(t, payload) = f[n]
  BY <1>1, DecodeIsRun, Zenon
<1> HIDE DEF readings, n
<1>3. f[0] = t /\ \A i \in 0 .. n - 1 : f[i + 1] = SetChannel(f[i], readings[i + 1])
  BY <1>1, <1>2, DecodingSteps
<1> DEFINE Holds(i) == MadeOf(f[i], Upto(i)) /\ f[i].heard = t.heard /\ f[i].signal = t.signal
           S == {i \in Nat : i <= n => Holds(i)}
<1>4. 0 \in S
  <2>1. Upto(0) = b
    BY <1>1
  <2> HIDE DEF Upto
  <2> QED
    BY <1>3, <2>1
<1>5. ASSUME NEW i \in S PROVE i + 1 \in S
  <2> SUFFICES ASSUME i + 1 <= n PROVE Holds(i + 1)
    OBVIOUS
  <2>1. Holds(i) /\ i \in 0 .. n - 1 /\ i + 1 \in 1..n
    <3> HIDE DEF Holds
    <3> QED
      BY <1>1, <1>5
  <2>2. readings[i + 1] \in Entries /\ Upto(i + 1) = Append(Upto(i), readings[i + 1])
    BY <1>1, <2>1 DEF n
  <2> HIDE DEF Upto
  <2>3. f[i + 1] = SetChannel(f[i], readings[i + 1])
    BY <1>3, <2>1, Zenon
  <2> DEFINE x == f[i]
             e == readings[i + 1]
  <2>4. MadeOf(x, Upto(i)) /\ e \in Entries
    BY <2>1, <2>2
  <2> HIDE DEF x, e
  <2>5. /\ MadeOf(SetChannel(x, e), Append(Upto(i), e))
        /\ SetChannel(x, e).heard = x.heard /\ SetChannel(x, e).signal = x.signal
    BY <2>4, MadeStep, Zenon
  <2> QED
    BY <2>1, <2>2, <2>3, <2>5 DEF x, e
<1>6. Nat \subseteq S
  <2> HIDE DEF S
  <2> QED
    BY <1>4, <1>5, AllNaturals
<1>7. Holds(n)
  <2> HIDE DEF Holds
  <2> QED
    BY <1>1, <1>6
<1>8. Upto(n) = b \o readings
  BY <1>1 DEF n
<1> HIDE DEF Upto
<1> QED
  BY <1>2, <1>7, <1>8 DEF readings

-----------------------------------------------------------------------------
(* Messages one after the other.                                            *)

\* What is kept of each message.
KeptOf(messages) == [k \in DOMAIN messages |-> Kept(messages[k])]

LEMMA ToldTyped ==
    ASSUME NEW messages \in Seq(Seq(Entries))
    PROVE  KeptOf(messages) \in Seq(Seq(Entries)) /\ Told(messages) \in Seq(Entries)
<1> DEFINE T == Seq(Entries)
           One(k) == Kept(messages[k])
<1>1. DOMAIN messages = 1..Len(messages) /\ Len(messages) \in Nat
  OBVIOUS
<1>2. \A k \in 1..Len(messages) : messages[k] \in Seq(Entries)
  OBVIOUS
<1>3. \A k \in 1..Len(messages) : One(k) \in T
  BY <1>2, KeptTyped, Zenon
<1>4. KeptOf(messages) = [k \in 1..Len(messages) |-> One(k)]
  BY <1>1, Zenon DEF KeptOf
<1> HIDE DEF T, One
<1>5. KeptOf(messages) \in Seq(T)
  BY <1>1, <1>3, <1>4
<1>6. Told(messages) = FlattenSeq(KeptOf(messages))
  BY Zenon DEF Told, KeptOf
<1> QED
  BY <1>5, <1>6, FlattenTyped DEF T

LEMMA ToldAppend ==
    ASSUME NEW messages \in Seq(Seq(Entries)), NEW b \in Seq(Entries)
    PROVE  Told(Append(messages, b)) = Told(messages) \o Kept(b)
<1> DEFINE T == Seq(Entries)
           n == Len(messages)
           more == Append(messages, b)
           left == KeptOf(more)
           old == KeptOf(messages)
           last == Kept(b)
           right == Append(old, last)
<1>1. /\ n \in Nat /\ DOMAIN messages = 1..n /\ DOMAIN more = 1 .. n + 1
      /\ \A k \in 1..n : more[k] = messages[k]
      /\ more[n + 1] = b
  OBVIOUS
<1>2. old \in Seq(T) /\ last \in T
  BY ToldTyped, KeptTyped, Zenon
<1>3. DOMAIN old = 1..n /\ \A k \in 1..n : old[k] = Kept(messages[k])
  BY <1>1, Zenon DEF KeptOf
<1>4. /\ left = [k \in 1 .. n + 1 |-> left[k]]
      /\ \A k \in 1 .. n + 1 : left[k] = Kept(more[k])
  BY <1>1, Zenon DEF KeptOf
<1> HIDE DEF T, left, old, last, more
<1>5. Len(old) = n
  BY <1>1, <1>2, <1>3
<1>6. /\ right = [k \in 1 .. n + 1 |-> right[k]]
      /\ \A k \in 1..n : right[k] = old[k]
      /\ right[n + 1] = last
  <2> HIDE DEF n
  <2>1. right \in Seq(T) /\ Len(right) = n + 1
    BY <1>1, <1>2, <1>5
  <2>2. (\A k \in 1..n : right[k] = old[k]) /\ right[n + 1] = last
    BY <1>1, <1>2, <1>5
  <2> HIDE DEF right
  <2>3. right = [k \in 1 .. n + 1 |-> right[k]]
    BY <2>1
  <2> QED
    BY <2>2, <2>3 DEF right
<1> HIDE DEF right
<1>7. ASSUME NEW k \in 1 .. n + 1 PROVE left[k] = right[k]
  <2>1. CASE k = n + 1
    <3>1. left[k] = Kept(b)
      BY <1>1, <1>4, <2>1, Zenon
    <3> QED
      BY <1>6, <2>1, <3>1, Zenon DEF last
  <2>2. CASE k # n + 1
    <3>1. k \in 1..n
      BY <1>1, <2>2
    <3> QED
      BY <1>1, <1>3, <1>4, <1>6, <3>1, Zenon
  <2> QED
    BY <2>1, <2>2
<1>8. left = right
  BY <1>4, <1>6, <1>7, Zenon
<1>9. FlattenSeq(left) = FlattenSeq(old) \o last
  BY <1>2, <1>8, FlattenAppend DEF right, T
<1>10. Told(more) = FlattenSeq(left) /\ Told(messages) = FlattenSeq(old)
  BY Zenon DEF Told, KeptOf, left, old
<1> QED
  BY <1>9, <1>10 DEF last, more

LEMMA ToldNothing == Told(<<>>) = <<>>
<1> DEFINE T == Seq(Entries)
           none == KeptOf(<<>>)
<1>1. <<>> \in Seq(Seq(Entries))
  OBVIOUS
<1>2. none \in Seq(T)
  BY <1>1, ToldTyped, Zenon
<1>3. DOMAIN none = DOMAIN <<>>
  BY Zenon DEF KeptOf
<1>4. Told(<<>>) = FlattenSeq(none)
  BY Zenon DEF Told, KeptOf
<1> HIDE DEF T, none
<1>5. none = <<>>
  BY <1>2, <1>3
<1> QED
  BY <1>4, <1>5, FlattenEmpty

\* What the newest message that says anything of a metric says first.
NewestSaid(messages, m) ==
    LET saying == {k \in DOMAIN messages : FirstSaid(messages[k], m) # Unset}
    IN  IF saying = {} THEN Unset
        ELSE FirstSaid(messages[CHOOSE k \in saying : \A j \in saying : j <= k], m)

LEMMA NewestNothing ==
    ASSUME NEW m
    PROVE  NewestSaid(<<>>, m) = Unset
<1>1. {k \in DOMAIN <<>> : FirstSaid(<<>>[k], m) # Unset} = {}
  OBVIOUS
<1> QED
  BY <1>1, Zenon DEF NewestSaid

LEMMA NewestAppend ==
    ASSUME NEW messages \in Seq(Seq(Entries)), NEW b \in Seq(Entries), NEW m
    PROVE  NewestSaid(Append(messages, b), m)
               = IF FirstSaid(b, m) # Unset THEN FirstSaid(b, m) ELSE NewestSaid(messages, m)
<1> DEFINE more == Append(messages, b)
           n == Len(messages)
           Says(x) == FirstSaid(x, m) # Unset
           Latest(T) == CHOOSE k \in T : \A j \in T : j <= k
           saying == {k \in DOMAIN messages : Says(messages[k])}
           sayingMore == {k \in DOMAIN more : Says(more[k])}
<1>1. /\ n \in Nat /\ DOMAIN messages = 1..n /\ DOMAIN more = 1 .. n + 1
      /\ \A k \in 1..n : more[k] = messages[k]
      /\ more[n + 1] = b
  OBVIOUS
<1>2. /\ NewestSaid(messages, m)
             = IF saying = {} THEN Unset ELSE FirstSaid(messages[Latest(saying)], m)
      /\ NewestSaid(more, m)
             = IF sayingMore = {} THEN Unset ELSE FirstSaid(more[Latest(sayingMore)], m)
  BY Zenon DEF NewestSaid
<1> HIDE DEF more, Says
<1>3. /\ \A k \in 1..n : k \in sayingMore <=> k \in saying
      /\ n + 1 \in sayingMore <=> Says(b)
      /\ saying \in SUBSET (1..n) /\ sayingMore \subseteq 1 .. n + 1
  <2>1. \A k \in 1..n : k \in sayingMore <=> k \in saying
    BY <1>1
  <2>2. n + 1 \in sayingMore <=> Says(b)
    BY <1>1
  <2>3. saying \in SUBSET (1..n) /\ sayingMore \subseteq 1 .. n + 1
    BY <1>1
  <2> QED
    BY <2>1, <2>2, <2>3, Zenon
<1> HIDE DEF saying, sayingMore
<1>4. \A k \in 1 .. n + 1 : k \in 1..n \/ k = n + 1
  BY <1>1
<1>5. CASE Says(b)
  <2>1. n + 1 \in sayingMore /\ sayingMore # {}
    BY <1>3, <1>5
  <2>2. \A k \in sayingMore : (\A j \in sayingMore : j <= k) <=> k = n + 1
    BY <1>1, <1>3, <1>4, <2>1
  <2>3. Latest(sayingMore) = n + 1
    BY <2>1, <2>2, Zenon
  <2>4. NewestSaid(more, m) = FirstSaid(b, m)
    BY <1>1, <1>2, <2>1, <2>3, Zenon
  <2> QED
    BY <1>5, <2>4, Zenon DEF Says, more
<1>6. CASE ~Says(b)
  <2>1. sayingMore = saying
    <3>1. \A k \in sayingMore : k \in 1..n
      BY <1>3, <1>4, <1>6
    <3>2. \A k \in saying : k \in 1..n
      BY <1>3
    <3> QED
      BY <1>3, <3>1, <3>2, Zenon
  <2>2. CASE saying = {}
    BY <1>2, <1>6, <2>1, <2>2, Zenon DEF Says, more
  <2>3. CASE saying # {}
    <3>1. \E k \in saying : \A j \in saying : j <= k
      BY <1>1, <1>3, <2>3, FirstAndLast
    <3>2. Latest(saying) \in saying
      BY <3>1, Zenon
    <3>3. Latest(saying) \in 1..n
      BY <1>3, <3>2
    <3>4. more[Latest(saying)] = messages[Latest(saying)]
      BY <1>1, <3>3, Zenon
    <3> QED
      BY <1>2, <1>6, <2>1, <2>3, <3>4, Zenon DEF Says, more
  <2> QED
    BY <2>2, <2>3
<1> QED
  BY <1>5, <1>6

\* What a record holds is what the messages say.
Recorded(r, messages) ==
    /\ (r = None) <=> (messages = <<>>)
    /\ r # None => /\ IsTable(r.channels) /\ Shows(Told(messages), r.channels)
                   /\ \A m \in Metrics : r.view[m] = NewestSaid(messages, m)

LEMMA NoneIsNoTelemetry == None \notin Telemetries /\ None \notin Nat
BY StoreAssumption

LEMMA RecordedFirst ==
    ASSUME NEW t, NEW b, MadeOf(t, b)
    PROVE  Recorded(t, <<b>>) /\ t \in Telemetries /\ t # None
<1>1. t \in Telemetries /\ b \in Seq(Entries) /\ IsTable(t.channels)
  BY Zenon DEF MadeOf
<1>2. <<b>> = Append(<<>>, b) /\ <<>> \in Seq(Seq(Entries)) /\ <<b>> # <<>>
  OBVIOUS
<1>3. Kept(b) \in Seq(Entries)
  BY <1>1, KeptTyped
<1>4. Told(<<b>>) = Kept(b)
  <2>1. Told(<<b>>) = <<>> \o Kept(b)
    BY <1>1, <1>2, ToldAppend, ToldNothing
  <2> QED
    BY <1>3, <2>1
<1>5. ASSUME NEW m \in Metrics PROVE t.view[m] = NewestSaid(<<b>>, m)
  <2>1. NewestSaid(Append(<<>>, b), m)
            = IF FirstSaid(b, m) # Unset THEN FirstSaid(b, m) ELSE NewestSaid(<<>>, m)
    BY <1>1, <1>2, NewestAppend, Zenon
  <2>2. NewestSaid(<<b>>, m) = IF FirstSaid(b, m) # Unset THEN FirstSaid(b, m) ELSE Unset
    BY <1>2, <2>1, NewestNothing, Zenon
  <2> QED
    BY <2>2 DEF MadeOf
<1>6. Shows(Told(<<b>>), t.channels)
  BY <1>4 DEF MadeOf
<1>7. t # None
  BY <1>1, NoneIsNoTelemetry
<1> QED
  BY <1>1, <1>2, <1>5, <1>6, <1>7, Zenon DEF Recorded

LEMMA RecordedMerge ==
    ASSUME NEW r \in Telemetries, NEW messages \in Seq(Seq(Entries)), Recorded(r, messages),
           NEW t, NEW b, MadeOf(t, b)
    PROVE  /\ Recorded(MergeFrom(r, t), Append(messages, b))
           /\ MergeFrom(r, t) \in Telemetries /\ MergeFrom(r, t) # None
           /\ MergeFrom(r, t).heard = t.heard
<1> DEFINE view == Overlay(r.view, t.view)
           table == MergeChannels(r.channels, t.channels)
           merged == MergeFrom(r, t)
<1>1. t \in Telemetries /\ b \in Seq(Entries) /\ IsTable(t.channels)
  BY Zenon DEF MadeOf
<1>2. r # None
  BY NoneIsNoTelemetry
<1>3. /\ IsTable(r.channels) /\ Shows(Told(messages), r.channels)
      /\ \A m \in Metrics : r.view[m] = NewestSaid(messages, m)
  BY <1>2, Zenon DEF Recorded
<1>4. IsTable(table)
  BY <1>1, <1>3, MergeIsTable, Zenon
<1>5. Told(messages) \in Seq(Entries) /\ r.channels \in Seq(Channel)
  <2>1. Told(messages) \in Seq(Entries)
    BY ToldTyped, Zenon
  <2>2. r.channels \in Seq(Channel)
    BY <1>3, TableFacts, Zenon
  <2> QED
    BY <2>1, <2>2
<1>6. Shows(Told(messages) \o Kept(b), table)
  BY <1>3, <1>5, Zenon DEF MadeOf
<1>7. r.view \in MetricValues /\ t.view \in MetricValues
  BY <1>1, TelemetryTyped
<1>8. view \in MetricValues
      /\ \A m \in Metrics : view[m] = IF t.view[m] # Unset THEN t.view[m] ELSE r.view[m]
  BY <1>7, OverlayTyped
<1>9. table \in Seq(Channel)
  BY <1>4, TableFacts, Zenon
<1>10. merged = [heard |-> t.heard, signal |-> t.signal, view |-> view, channels |-> table]
  BY DEF MergeFrom
<1> HIDE DEF view, table, merged
<1>11. /\ merged \in Telemetries /\ merged.heard = t.heard
       /\ merged.view = view /\ merged.channels = table
  BY <1>1, <1>8, <1>9, <1>10, TelemetryTyped
<1>12. merged # None
  BY <1>11, NoneIsNoTelemetry
<1>13. ASSUME NEW m \in Metrics PROVE merged.view[m] = NewestSaid(Append(messages, b), m)
  <2>1. t.view[m] = FirstSaid(b, m)
    BY Zenon DEF MadeOf
  <2>2. NewestSaid(Append(messages, b), m)
            = IF FirstSaid(b, m) # Unset THEN FirstSaid(b, m) ELSE NewestSaid(messages, m)
    BY <1>1, NewestAppend
  <2> QED
    BY <1>3, <1>8, <1>11, <2>1, <2>2
<1>14. Shows(Told(Append(messages, b)), merged.channels)
  <2>1. Told(Append(messages, b)) = Told(messages) \o Kept(b)
    BY <1>1, ToldAppend, Zenon
  <2> QED
    BY <1>6, <1>11, <2>1, Zenon
<1>15. Append(messages, b) # <<>>
  <2>1. Len(Append(messages, b)) = Len(messages) + 1 /\ Len(messages) \in Nat /\ Len(<<>>) = 0
    OBVIOUS
  <2> QED
    BY <2>1
<1>16. Recorded(merged, Append(messages, b))
  BY <1>4, <1>11, <1>12, <1>13, <1>14, <1>15 DEF Recorded
<1> QED
  BY <1>11, <1>12, <1>16, Zenon DEF merged

-----------------------------------------------------------------------------
(* The invariant.                                                           *)

\* A stamp under way is not in the future, polls and a drain are not under way at once,
\* and no telemetry is newer than what it is stamped with next.
Stamped ==
    /\ tick # None => tick <= now /\ drain = None
    /\ drain # None => drain <= now
    /\ \A i \in Ids : records[i] # None =>
           /\ records[i].heard <= now
           /\ tick # None => records[i].heard <= tick
           /\ drain # None => records[i].heard <= drain

StoreInv ==
    /\ StoreTypeOK
    /\ \A i \in Ids : Recorded(records[i], said[i])
    /\ Stamped

Received == [frame : {AdvertFrame(n, form) : n \in Nodes, form \in WireForms},
             signal : 1..MaxFrames]

LEMMA StoreBounds ==
    /\ RxCap \in Nat /\ MaxTime \in Nat /\ MaxFrames \in Nat /\ MaxAnswers \in Nat
    /\ \A payload \in Payloads : payload \in Seq(Entries)
    /\ Len(Producers) \in Nat /\ Ids = 1..Len(Producers)
<1>1. /\ {RxCap, MaxTime, MaxFrames, MaxAnswers} \subseteq Nat
      /\ \A payload \in Payloads : payload \in Seq(Entries)
      /\ Producers \in Seq([node : Nodes \cup DOMAIN PublicText, name : STRING,
                            enabled : BOOLEAN])
  BY Zenon, StoreAssumption
<1>2. Len(Producers) \in Nat /\ Ids = 1..Len(Producers)
  BY <1>1 DEF Ids
<1> QED
  BY <1>1, <1>2

\* A frame is read as a message, from which telemetry is made.
LEMMA FrameRead ==
    ASSUME NEW received \in Received, NEW stamp \in Nat
    PROVE  /\ MadeOf(FromFrame(received, stamp), BodyReadings(received.frame))
           /\ FromFrame(received, stamp).heard = stamp
<1> DEFINE f == received.frame
           fresh == [NoTelemetry(stamp) EXCEPT !.signal = received.signal]
           first == AdvertBytes[f.body.key][1]
           second == AdvertBytes[f.body.key][2]
<1>1. PICK n \in Nodes, form \in WireForms : f = AdvertFrame(n, form)
  <2>1. f \in {AdvertFrame(n, form) : n \in Nodes, form \in WireForms}
    BY DEF Received
  <2> QED
    BY <2>1
<1>2. received.signal \in Nat
  BY StoreBounds DEF Received
<1> HIDE DEF f
<1>3. f.body.key \in Nodes
  BY <1>1 DEF AdvertFrame, WireFrame
<1>4. first \in Seq(Entries) /\ second \in Seq(Entries)
  <2>1. first \in Payloads /\ second \in Payloads
    BY <1>3 DEF Payloads
  <2> QED
    BY <2>1, StoreBounds, Zenon
<1>5. MadeOf(fresh, <<>>) /\ fresh.heard = stamp
  BY <1>2, MadeStart, Zenon
<1> HIDE DEF fresh, first, second
<1>6. CASE ParseWire(f).error # "none"
  <2>1. FromFrame(received, stamp) = fresh /\ BodyReadings(received.frame) = <<>>
    BY <1>6 DEF FromFrame, BodyReadings, f, fresh
  <2> QED
    BY <1>5, <2>1
<1>7. CASE ParseWire(f).error = "none"
  <2> DEFINE once == Decode(fresh, first)
             twice == Decode(once, second)
             a == <<>> \o Readings(first)
             b == a \o Readings(second)
  <2>1. MadeOf(once, a) /\ once.heard = stamp
    BY <1>4, <1>5, MadeDecode
  <2> HIDE DEF once, a
  <2>2. MadeOf(twice, b) /\ twice.heard = stamp
    BY <1>4, <2>1, MadeDecode
  <2>3. a = Readings(first)
    <3>1. Readings(first) \in Seq(Entries)
      BY <1>4, ReadingsTyped
    <3> QED
      BY <3>1 DEF a
  <2>4. /\ FromFrame(received, stamp) = twice
        /\ BodyReadings(received.frame) = Readings(first) \o Readings(second)
    BY <1>7, Zenon DEF FromFrame, BodyReadings, f, fresh, first, second, once
  <2> QED
    BY <2>2, <2>3, <2>4
<1> QED
  BY <1>6, <1>7

LEMMA ProducerFound ==
    ASSUME NEW f
    PROVE  ProducerOf(f) \in Ids \cup {None}
<1> DEFINE matching == {i \in Ids : Producers[i].enabled /\ Matches(i, PacketMeta(f).advert)}
<1>1. matching \in SUBSET (1..Len(Producers)) /\ Len(Producers) \in Nat
  BY StoreBounds
<1>2. ProducerOf(f) = IF matching = {} THEN None
                      ELSE CHOOSE i \in matching : \A j \in matching : i <= j
  BY Zenon DEF ProducerOf
<1>3. matching \subseteq Ids
  OBVIOUS
<1> HIDE DEF matching
<1>4. matching # {} => \E i \in matching : \A j \in matching : i <= j
  BY <1>1, FirstAndLast
<1>5. matching # {} => (CHOOSE i \in matching : \A j \in matching : i <= j) \in matching
  BY <1>4, Zenon
<1> QED
  BY <1>2, <1>3, <1>5

\* What is written with a stamp: what was said is recorded, and new telemetry has
\* the stamp.
Written(stamp) ==
    /\ records' \in [Ids -> Telemetries \cup {None}]
    /\ said' \in [Ids -> Seq(Seq(Entries))]
    /\ \A i \in Ids : Recorded(records'[i], said'[i])
    /\ \A i \in Ids : \/ records'[i] = records[i]
                      \/ records'[i] # None /\ records'[i].heard = stamp

LEMMA ObserveWrites ==
    ASSUME StoreInv, NEW stamp \in Nat, Observe(stamp)
    PROVE  /\ Written(stamp)
           /\ rxq' \in Seq(Received) /\ Len(rxq') <= RxCap
<1>1. /\ rxq \in Seq(Received) /\ rxq # <<>> /\ Len(rxq) <= RxCap /\ rxq' = Tail(rxq)
  BY DEF StoreInv, StoreTypeOK, Observe, Received
<1>2. Head(rxq) \in Received
  BY <1>1
<1>3. rxq' \in Seq(Received) /\ Len(rxq') <= RxCap
  BY <1>1, StoreBounds
<1> DEFINE received == Head(rxq)
           i == ProducerOf(received.frame)
           t == FromFrame(received, stamp)
           b == BodyReadings(received.frame)
<1>4. \/ i = None /\ UNCHANGED <<records, said>>
      \/ /\ i # None /\ records' = [records EXCEPT ![i] = MergeProducer(i, t)]
         /\ said' = [said EXCEPT ![i] = Append(said[i], b)]
  BY Zenon DEF Observe
<1>5. MadeOf(t, b) /\ t.heard = stamp
  BY <1>2, FrameRead, Zenon
<1>6. i \in Ids \cup {None}
  BY ProducerFound, Zenon
<1> HIDE DEF i, t, b
<1>7. /\ records \in [Ids -> Telemetries \cup {None}] /\ said \in [Ids -> Seq(Seq(Entries))]
      /\ \A j \in Ids : Recorded(records[j], said[j])
  BY DEF StoreInv, StoreTypeOK
<1>8. CASE i = None
  BY <1>3, <1>4, <1>7, <1>8 DEF Written
<1>9. CASE i \in Ids /\ i # None
  <2> DEFINE r == records[i]
             ms == said[i]
             new == MergeProducer(i, t)
  <2>1. r \in Telemetries \cup {None} /\ ms \in Seq(Seq(Entries)) /\ Recorded(r, ms)
    BY <1>7, <1>9
  <2>2. b \in Seq(Entries)
    BY <1>5, Zenon DEF MadeOf
  <2>3. new = IF r = None THEN t ELSE MergeFrom(r, t)
    BY Zenon DEF MergeProducer
  <2> HIDE DEF r, ms, new
  <2>4. new \in Telemetries /\ new # None /\ new.heard = stamp /\ Recorded(new, Append(ms, b))
    <3>1. CASE r = None
      <4>1. ms = <<>>
        BY <2>1, <3>1 DEF Recorded
      <4>2. Append(ms, b) = <<b>>
        BY <4>1
      <4>3. Recorded(t, <<b>>) /\ t \in Telemetries /\ t # None
        BY <1>5, RecordedFirst, Zenon
      <4> QED
        BY <1>5, <2>3, <3>1, <4>2, <4>3
    <3>2. CASE r # None
      <4>1. r \in Telemetries
        BY <2>1, <3>2
      <4>2. /\ Recorded(MergeFrom(r, t), Append(ms, b))
            /\ MergeFrom(r, t) \in Telemetries /\ MergeFrom(r, t) # None
            /\ MergeFrom(r, t).heard = t.heard
        BY <1>5, <2>1, <4>1, RecordedMerge, Zenon
      <4> QED
        BY <1>5, <2>3, <3>2, <4>2
    <3> QED
      BY <3>1, <3>2
  <2>5. /\ records' = [records EXCEPT ![i] = new] /\ said' = [said EXCEPT ![i] = Append(ms, b)]
    BY <1>4, <1>9, Zenon DEF new, ms
  <2>6. Append(ms, b) \in Seq(Seq(Entries))
    BY <2>1, <2>2
  <2>7. /\ records' \in [Ids -> Telemetries \cup {None}]
        /\ said' \in [Ids -> Seq(Seq(Entries))]
    BY <1>7, <2>4, <2>5, <2>6
  <2>8. ASSUME NEW j \in Ids
        PROVE  /\ Recorded(records'[j], said'[j])
               /\ \/ records'[j] = records[j]
                  \/ records'[j] # None /\ records'[j].heard = stamp
    <3>1. CASE j = i
      <4>1. records'[j] = new /\ said'[j] = Append(ms, b)
        BY <1>7, <2>5, <3>1
      <4> QED
        BY <2>4, <4>1
    <3>2. CASE j # i
      <4>1. records'[j] = records[j] /\ said'[j] = said[j]
        BY <1>7, <2>5, <3>2
      <4> QED
        BY <1>7, <4>1
    <3> QED
      BY <3>1, <3>2
  <2> QED
    BY <1>3, <2>7, <2>8 DEF Written
<1> QED
  BY <1>4, <1>6, <1>8, <1>9

LEMMA AnswerWrites ==
    ASSUME StoreInv, NEW i \in Ids, PollAnswered(i)
    PROVE  Written(tick)
<1>1. tick # None /\ tick \in Nat
  BY StoreBounds DEF PollAnswered, StoreInv, StoreTypeOK
<1>2. PICK payload \in Answers :
          /\ records' = [records EXCEPT ![i] =
                            Decode([NoTelemetry(tick) EXCEPT !.signal = 0], payload)]
          /\ said' = [said EXCEPT ![i] = <<Readings(payload)>>]
  BY Zenon DEF PollAnswered, UpdateProducer
<1> DEFINE fresh == [NoTelemetry(tick) EXCEPT !.signal = 0]
           t == Decode(fresh, payload)
           b == Readings(payload)
<1>3. payload \in Seq(Entries)
  <2>1. payload \in Payloads
    BY DEF Payloads
  <2> QED
    BY <2>1, StoreBounds, Zenon
<1>4. MadeOf(fresh, <<>>) /\ fresh.heard = tick
  <2>1. 0 \in Nat
    OBVIOUS
  <2> QED
    BY <1>1, <2>1, MadeStart, Zenon
<1> HIDE DEF fresh
<1>5. MadeOf(t, <<>> \o b) /\ t.heard = tick
  BY <1>3, <1>4, MadeDecode
<1>6. b \in Seq(Entries)
  BY <1>3, ReadingsTyped
<1> HIDE DEF t, b
<1>7. <<>> \o b = b
  BY <1>6
<1>8. Recorded(t, <<b>>) /\ t \in Telemetries /\ t # None
  BY <1>5, <1>7, RecordedFirst
<1>9. records' = [records EXCEPT ![i] = t] /\ said' = [said EXCEPT ![i] = <<b>>]
  BY <1>2, Zenon DEF t, b, fresh
<1>10. <<b>> \in Seq(Seq(Entries))
  BY <1>6
<1>11. /\ records \in [Ids -> Telemetries \cup {None}] /\ said \in [Ids -> Seq(Seq(Entries))]
       /\ \A j \in Ids : Recorded(records[j], said[j])
  BY DEF StoreInv, StoreTypeOK
<1>12. /\ records' \in [Ids -> Telemetries \cup {None}]
       /\ said' \in [Ids -> Seq(Seq(Entries))]
  BY <1>8, <1>9, <1>10, <1>11
<1>13. ASSUME NEW j \in Ids
       PROVE  /\ Recorded(records'[j], said'[j])
              /\ \/ records'[j] = records[j]
                 \/ records'[j] # None /\ records'[j].heard = tick
  <2>1. CASE j = i
    <3>1. records'[j] = t /\ said'[j] = <<b>>
      BY <1>9, <1>11, <2>1
    <3> QED
      BY <1>5, <1>8, <3>1
  <2>2. CASE j # i
    <3>1. records'[j] = records[j] /\ said'[j] = said[j]
      BY <1>9, <1>11, <2>2
    <3> QED
      BY <1>11, <3>1
  <2> QED
    BY <2>1, <2>2
<1> QED
  BY <1>12, <1>13 DEF Written

\* What is written with the stamp of the polls or of the drain keeps the stamps in order.
LEMMA WrittenStamped ==
    ASSUME StoreInv, NEW stamp \in Nat, Written(stamp),
           \/ stamp = tick /\ tick' = tick /\ drain' = drain
           \/ stamp = drain /\ tick' = tick /\ drain' \in {drain, None},
           stamp # None, now' = now
    PROVE  /\ Stamped'
           /\ \A i \in Ids : records[i] # None =>
                  /\ records'[i] # None
                  /\ records[i].heard \in Nat /\ records'[i].heard \in Nat
                  /\ records[i].heard <= now /\ records'[i].heard <= now'
                  /\ records'[i].heard >= records[i].heard
<1>1. /\ Stamped /\ now \in Nat /\ records \in [Ids -> Telemetries \cup {None}]
      /\ tick \in Nat \cup {None} /\ drain \in Nat \cup {None}
  BY StoreBounds DEF StoreInv, StoreTypeOK
<1>2. \A i \in Ids : records[i] # None => records[i].heard \in Nat
  <2>1. \A t \in Telemetries : t.heard \in Nat
    BY TelemetryTyped
  <2> QED
    BY <1>1, <2>1
<1>3. /\ \A i \in Ids : \/ records'[i] = records[i]
                        \/ records'[i] # None /\ records'[i].heard = stamp
  BY Zenon DEF Written
<1>4. None \notin Nat
  BY NoneIsNoTelemetry
<1>5. /\ stamp <= now
      /\ \A i \in Ids : records[i] # None => records[i].heard <= stamp
      /\ tick # None => tick <= now /\ drain = None
      /\ drain # None => drain <= now
  BY <1>1 DEF Stamped
<1>6. \A i \in Ids : records[i] # None =>
          records'[i] # None /\ records'[i].heard \in Nat
            /\ records'[i].heard <= stamp /\ records'[i].heard >= records[i].heard
  BY <1>2, <1>3, <1>5
<1>7. \A i \in Ids : records'[i] # None => records'[i].heard <= stamp
  BY <1>3, <1>5
<1>8. Stamped'
  <2>1. \A i \in Ids : records'[i] # None => records'[i].heard \in Nat
    BY <1>2, <1>3
  <2>2. /\ tick' # None => tick' <= now' /\ drain' = None /\ tick' = stamp
        /\ drain' # None => drain' <= now' /\ drain' = stamp
    BY <1>5
  <2>3. \A i \in Ids : records'[i] # None =>
           /\ records'[i].heard <= now'
           /\ tick' # None => records'[i].heard <= tick'
           /\ drain' # None => records'[i].heard <= drain'
    BY <1>1, <1>5, <1>7, <2>1, <2>2
  <2> QED
    BY <2>2, <2>3 DEF Stamped
<1> QED
  BY <1>1, <1>2, <1>5, <1>6, <1>8

LEMMA StoreStart == StoreInit => StoreInv
<1> SUFFICES ASSUME StoreInit PROVE StoreInv
  OBVIOUS
<1>1. <<>> \in Seq(Received) /\ Len(<<>>) = 0 /\ <<>> \in Seq(Seq(Entries))
  OBVIOUS
<1>2. StoreTypeOK
  BY <1>1, StoreBounds DEF StoreInit, StoreTypeOK, Received
<1>3. ASSUME NEW i \in Ids PROVE Recorded(records[i], said[i])
  BY DEF StoreInit, Recorded
<1>4. Stamped
  BY DEF StoreInit, Stamped
<1> QED
  BY <1>2, <1>3, <1>4 DEF StoreInv

\* Later: every producer that was heard is still heard, and not earlier.
Later == \A i \in Ids : records[i] # None =>
             records'[i] # None /\ records'[i].heard >= records[i].heard

\* A step that writes no telemetry.
LEMMA NothingWritten ==
    ASSUME StoreInv, UNCHANGED <<records, said>>
    PROVE  /\ Later
           /\ records' \in [Ids -> Telemetries \cup {None}]
           /\ said' \in [Ids -> Seq(Seq(Entries))]
           /\ \A i \in Ids : Recorded(records'[i], said'[i])
<1>1. /\ records \in [Ids -> Telemetries \cup {None}] /\ said \in [Ids -> Seq(Seq(Entries))]
      /\ \A i \in Ids : Recorded(records[i], said[i])
  BY DEF StoreInv, StoreTypeOK
<1>2. \A i \in Ids : records[i] # None => records[i].heard \in Nat
  <2>1. \A t \in Telemetries : t.heard \in Nat
    BY TelemetryTyped
  <2> QED
    BY <1>1, <2>1
<1> QED
  BY <1>1, <1>2 DEF Later

LEMMA StoreStep ==
    ASSUME StoreInv, [StoreNext]_storeVars
    PROVE  StoreInv' /\ Later
<1>1. /\ StoreTypeOK /\ Stamped
      /\ records \in [Ids -> Telemetries \cup {None}]
      /\ totals \in [Ids -> [success : Nat, failure : Nat]]
      /\ rxq \in Seq(Received) /\ Len(rxq) <= RxCap
      /\ now \in 0..MaxTime
      /\ tick \in 0..MaxTime \cup {None} /\ drain \in 0..MaxTime \cup {None}
      /\ heard \in 0..MaxFrames /\ answers \in 0..MaxAnswers
  BY DEF StoreInv, StoreTypeOK, Received
<1>2. /\ RxCap \in Nat /\ MaxTime \in Nat /\ MaxFrames \in Nat /\ MaxAnswers \in Nat
      /\ None \notin Nat
  BY StoreBounds, NoneIsNoTelemetry, Zenon
<1>3. \A i \in Ids : records[i] # None => records[i].heard \in Nat
  <2>1. \A t \in Telemetries : t.heard \in Nat
    BY TelemetryTyped
  <2> QED
    BY <1>1, <2>1
<1> DEFINE Typed == /\ totals' \in [Ids -> [success : Nat, failure : Nat]]
                    /\ rxq' \in Seq(Received) /\ Len(rxq') <= RxCap
                    /\ now' \in 0..MaxTime
                    /\ tick' \in 0..MaxTime \cup {None} /\ drain' \in 0..MaxTime \cup {None}
                    /\ heard' \in 0..MaxFrames /\ answers' \in 0..MaxAnswers
           Told1 == /\ records' \in [Ids -> Telemetries \cup {None}]
                    /\ said' \in [Ids -> Seq(Seq(Entries))]
                    /\ \A i \in Ids : Recorded(records'[i], said'[i])
<1>4. ASSUME Typed, Told1, Stamped' PROVE StoreInv'
  <2>1. StoreTypeOK'
    BY <1>4 DEF StoreTypeOK, Received
  <2>2. (\A i \in Ids : Recorded(records[i], said[i]))'
    BY <1>4
  <2> QED
    BY <1>4, <2>1, <2>2 DEF StoreInv
<1>5. ASSUME UNCHANGED <<records, said>>, Typed, Stamped' PROVE StoreInv' /\ Later
  <2>1. Later /\ Told1
    BY <1>5, NothingWritten
  <2> HIDE DEF Typed, Told1
  <2> QED
    BY <1>4, <1>5, <2>1
<1>6. ASSUME NEW stamp \in Nat, Written(stamp), Stamped', Typed,
             \A i \in Ids : records[i] # None =>
                  /\ records'[i] # None
                  /\ records[i].heard \in Nat /\ records'[i].heard \in Nat
                  /\ records[i].heard <= now /\ records'[i].heard <= now'
                  /\ records'[i].heard >= records[i].heard
      PROVE  StoreInv' /\ Later
  <2>1. Told1
    BY <1>6 DEF Written
  <2>2. Later
    BY <1>6, Zenon DEF Later
  <2> HIDE DEF Typed, Told1
  <2> QED
    BY <1>4, <1>6, <2>1, <2>2
<1> HIDE DEF Told1
<1>7. CASE UNCHANGED storeVars
  <2>1. UNCHANGED <<records, said>> /\ Typed
    BY <1>1, <1>7 DEF storeVars
  <2>2. Stamped'
    BY <1>1, <1>7 DEF storeVars, Stamped
  <2> HIDE DEF Typed
  <2> QED
    BY <1>5, <2>1, <2>2
<1>8. CASE Pass
  <2>1. UNCHANGED <<records, said>> /\ Typed
    BY <1>1, <1>2, <1>8 DEF Pass
  <2>2. Stamped'
    BY <1>1, <1>2, <1>3, <1>8 DEF Pass, Waiting, Stamped
  <2> HIDE DEF Typed
  <2> QED
    BY <1>5, <2>1, <2>2
<1>9. CASE Hear
  <2>1. /\ heard < MaxFrames /\ heard' = heard + 1
        /\ UNCHANGED <<records, totals, now, tick, drain, said, answers>>
    BY <1>9, Zenon DEF Hear
  <2>2. PICK n \in Nodes, form \in WireForms :
            rxq' = IF Len(rxq) < RxCap
                   THEN Append(rxq, [frame |-> AdvertFrame(n, form), signal |-> heard'])
                   ELSE rxq
    BY <1>9 DEF Hear
  <2> DEFINE received == [frame |-> AdvertFrame(n, form), signal |-> heard']
  <2>3. received \in Received
    BY <1>1, <1>2, <2>1 DEF Received
  <2> HIDE DEF received
  <2>4. rxq' = IF Len(rxq) < RxCap THEN Append(rxq, received) ELSE rxq
    BY <2>2, Zenon DEF received
  <2>5. rxq' \in Seq(Received) /\ Len(rxq') <= RxCap
    BY <1>1, <1>2, <2>3, <2>4
  <2>6. UNCHANGED <<records, said>> /\ Typed
    BY <1>1, <1>2, <2>1, <2>5
  <2>7. Stamped'
    BY <1>1, <2>1 DEF Stamped
  <2> HIDE DEF Typed
  <2> QED
    BY <1>5, <2>6, <2>7
<1>10. CASE BeginPolls
  <2>1. UNCHANGED <<records, said>> /\ Typed
    BY <1>1, <1>10 DEF BeginPolls
  <2>2. Stamped'
    BY <1>1, <1>2, <1>10 DEF BeginPolls, Stamped
  <2> HIDE DEF Typed
  <2> QED
    BY <1>5, <2>1, <2>2
<1>11. CASE PollObserves
  <2>1. /\ tick # None /\ Observe(tick)
        /\ UNCHANGED <<totals, now, tick, drain, heard, answers>>
    BY <1>11 DEF PollObserves, ObservationStamp
  <2>2. tick \in Nat
    BY <1>1, <2>1
  <2>3. Written(tick) /\ rxq' \in Seq(Received) /\ Len(rxq') <= RxCap
    BY <2>1, <2>2, ObserveWrites
  <2>4. Typed
    BY <1>1, <2>1, <2>3
  <2>5. tick' = tick /\ drain' = drain /\ now' = now
    BY <2>1
  <2> HIDE DEF Typed
  <2> QED
    BY <1>6, <2>1, <2>2, <2>3, <2>4, <2>5, WrittenStamped
<1>12. CASE EndPolls
  <2>1. UNCHANGED <<records, said>> /\ Typed
    BY <1>1, <1>12 DEF EndPolls
  <2>2. Stamped'
    BY <1>1, <1>12 DEF EndPolls, Stamped
  <2> HIDE DEF Typed
  <2> QED
    BY <1>5, <2>1, <2>2
<1>13. ASSUME NEW i \in Ids, PollAnswered(i) PROVE StoreInv' /\ Later
  <2>1. /\ tick # None /\ answers < MaxAnswers /\ answers' = answers + 1
        /\ totals' = [totals EXCEPT ![i] = [totals[i] EXCEPT !.success = totals[i].success + 1]]
        /\ UNCHANGED <<rxq, now, tick, drain, heard>>
    BY <1>13 DEF PollAnswered
  <2>2. tick \in Nat
    BY <1>1, <2>1
  <2>3. Written(tick)
    BY <1>13, AnswerWrites
  <2>4. Typed
    <3> DEFINE counted == [totals[i] EXCEPT !.success = totals[i].success + 1]
    <3>0. totals[i] \in [success : Nat, failure : Nat]
      BY <1>1
    <3>1. counted \in [success : Nat, failure : Nat]
      BY <3>0
    <3> HIDE DEF counted
    <3>2. totals' \in [Ids -> [success : Nat, failure : Nat]]
      BY <1>1, <2>1, <3>1 DEF counted
    <3> QED
      BY <1>1, <1>2, <2>1, <3>2, SMTT(30)
  <2>5. tick' = tick /\ drain' = drain /\ now' = now
    BY <2>1
  <2> HIDE DEF Typed
  <2> QED
    BY <1>6, <2>1, <2>2, <2>3, <2>4, <2>5, WrittenStamped
<1>14. ASSUME NEW i \in Ids, PollFailed(i) PROVE StoreInv' /\ Later
  <2>1. /\ answers < MaxAnswers /\ answers' = answers + 1
        /\ totals' = [totals EXCEPT ![i] = [totals[i] EXCEPT !.failure = totals[i].failure + 1]]
        /\ UNCHANGED <<records, rxq, now, tick, drain, said, heard>>
    BY <1>14 DEF PollFailed
  <2>2. UNCHANGED <<records, said>> /\ Typed
    <3> DEFINE counted == [totals[i] EXCEPT !.failure = totals[i].failure + 1]
    <3>0. totals[i] \in [success : Nat, failure : Nat]
      BY <1>1
    <3>1. counted \in [success : Nat, failure : Nat]
      BY <3>0
    <3> HIDE DEF counted
    <3>2. totals' \in [Ids -> [success : Nat, failure : Nat]]
      BY <1>1, <2>1, <3>1 DEF counted
    <3> QED
      BY <1>1, <1>2, <2>1, <3>2, SMTT(30)
  <2>3. Stamped'
    BY <1>1, <2>1 DEF Stamped
  <2> HIDE DEF Typed
  <2> QED
    BY <1>5, <2>2, <2>3
<1>15. CASE BeginDrain
  <2>1. UNCHANGED <<records, said>> /\ Typed
    BY <1>1, <1>15 DEF BeginDrain
  <2>2. Stamped'
    BY <1>1, <1>15 DEF BeginDrain, Stamped
  <2> HIDE DEF Typed
  <2> QED
    BY <1>5, <2>1, <2>2
<1>16. CASE DrainObserves
  <2>1. /\ drain # None /\ Observe(drain) /\ drain' \in {drain, None}
        /\ UNCHANGED <<totals, now, tick, heard, answers>>
    BY <1>16 DEF DrainObserves
  <2>2. drain \in Nat
    BY <1>1, <2>1
  <2>3. Written(drain) /\ rxq' \in Seq(Received) /\ Len(rxq') <= RxCap
    BY <2>1, <2>2, ObserveWrites
  <2>4. Typed
    BY <1>1, <2>1, <2>3
  <2>5. tick' = tick /\ now' = now
    BY <2>1
  <2> HIDE DEF Typed
  <2> QED
    BY <1>6, <2>1, <2>2, <2>3, <2>4, <2>5, WrittenStamped
<1> QED
  BY <1>7, <1>8, <1>9, <1>10, <1>11, <1>12, <1>13, <1>14, <1>15, <1>16 DEF StoreNext

-----------------------------------------------------------------------------
(* What holds of every run.                                                 *)

\* The records agree with the history of what was said, and the stamps are in order.
THEOREM StoreInvariance == StoreSpec => []StoreInv
<1>1. StoreInv /\ [StoreNext]_storeVars => StoreInv'
  BY StoreStep
<1> QED
  BY StoreStart, <1>1, PTL DEF StoreSpec

\* The variables of the store have their types: no table is longer than MAX_TELEMETRY_CHANNELS,
\* and telemetry is made of the metrics that payloads and adverts carry.
THEOREM StoreTypeCorrect == StoreSpec => []StoreTypeOK
<1>1. StoreInv => StoreTypeOK
  BY DEF StoreInv
<1> QED
  BY StoreInvariance, <1>1, PTL

\* The table of a producer holds the newest value of every metric of every channel there
\* was room for, of the last answer and all observations since (update_producer,
\* merge_producer, decode_lpp_payload), whatever payloads and adverts say.
THEOREM TableOfHeard == StoreSpec => []TableMatchesHeard
<1>1. ASSUME StoreInv PROVE TableMatchesHeard
  <2> SUFFICES ASSUME NEW i \in Ids
               PROVE  /\ (records[i] = None) <=> (said[i] = <<>>)
                      /\ records[i] # None =>
                             /\ {c.id : c \in ToSet(records[i].channels)} = Retained(Told(said[i]))
                             /\ \A c \in ToSet(records[i].channels), m \in Metrics :
                                    c.metrics[m] = LastSaid(Told(said[i]), c.id, m)
    BY Zenon DEF TableMatchesHeard
  <2>1. Recorded(records[i], said[i])
    BY <1>1, Zenon DEF StoreInv
  <2>2. (records[i] = None) <=> (said[i] = <<>>)
    BY <2>1, Zenon DEF Recorded
  <2>3. ASSUME records[i] # None
        PROVE  /\ {c.id : c \in ToSet(records[i].channels)} = Retained(Told(said[i]))
               /\ \A c \in ToSet(records[i].channels), m \in Metrics :
                      c.metrics[m] = LastSaid(Told(said[i]), c.id, m)
    <3> DEFINE channels == records[i].channels
               readings == Told(said[i])
    <3>1. IsTable(channels) /\ Shows(readings, channels)
      BY <2>1, <2>3, Zenon DEF Recorded
    <3> HIDE DEF channels, readings
    <3>2. /\ ToSet(channels) = {channels[k] : k \in 1..Len(channels)}
          /\ DOMAIN channels = 1..Len(channels)
      BY <3>1 DEF IsTable, ToSet
    <3>3. {c.id : c \in ToSet(channels)} = Named(channels)
      BY <3>2 DEF Named
    <3>4. \A c \in ToSet(channels), m \in Metrics : c.metrics[m] = LastSaid(readings, c.id, m)
      BY <3>1, <3>2 DEF Shows
    <3>5. Named(channels) = Retained(readings)
      BY <3>1, Zenon DEF Shows
    <3> QED
      BY <3>3, <3>4, <3>5, Zenon DEF channels, readings
  <2> QED
    BY <2>2, <2>3
<1> QED
  BY StoreInvariance, <1>1, PTL

\* The default view shows of each metric what the newest message that says anything of it
\* said first (merge_from overlays, decode_lpp_payload keeps the first): what the code does,
\* not the first value ever seen, of which the design documents speak.
THEOREM ViewOfNewest == StoreSpec => []ViewIsCurrent
<1>1. ASSUME StoreInv PROVE ViewIsCurrent
  <2>1. \A i \in Ids : records[i] # None =>
            \A m \in Metrics : records[i].view[m] = NewestSaid(said[i], m)
    BY <1>1, Zenon DEF StoreInv, Recorded
  <2> QED
    BY <2>1, Zenon DEF ViewIsCurrent, NewestSaid
<1> QED
  BY StoreInvariance, <1>1, PTL

LEMMA LastHeardIs ==
    ASSUME NEW n \in Nat, NEW h \in Nat, h <= n
    PROVE  n - Age(n, h) = h
BY DEF Age

\* The time a producer was last heard never goes back, nor does it become unknown,
\* however answers, observations within a poll and those of the drain alternate.
THEOREM HeardForward == StoreSpec => HeardNeverGoesBack
<1>1. ASSUME StoreInv, [StoreNext]_storeVars
      PROVE  [ \A i \in Ids : records[i] # None =>
                   records'[i] # None /\ LastHeard(i)' >= LastHeard(i) ]_storeVars
  <2>1. StoreInv' /\ Later
    BY <1>1, StoreStep
  <2>2. ASSUME NEW i \in Ids, records[i] # None
        PROVE  records'[i] # None /\ LastHeard(i)' >= LastHeard(i)
    <3>1. /\ records'[i] # None /\ records'[i].heard >= records[i].heard
      BY <2>1, <2>2, Zenon DEF Later
    <3>2. /\ now \in Nat /\ records[i].heard \in Nat /\ records[i].heard <= now
      <4>1. \A t \in Telemetries : t.heard \in Nat
        BY TelemetryTyped
      <4> QED
        BY <1>1, <2>2, <4>1, StoreBounds DEF StoreInv, StoreTypeOK, Stamped
    <3>3. /\ now' \in Nat /\ records'[i].heard \in Nat /\ records'[i].heard <= now'
      <4>1. \A t \in Telemetries : t.heard \in Nat
        BY TelemetryTyped
      <4>2. records' \in [Ids -> Telemetries \cup {None}] /\ now' \in 0..MaxTime
        BY <2>1 DEF StoreInv, StoreTypeOK
      <4>3. records'[i].heard <= now'
        BY <2>1, <3>1 DEF StoreInv, Stamped
      <4> QED
        BY <3>1, <4>1, <4>2, <4>3, StoreBounds
    <3>4. LastHeard(i) = records[i].heard
      BY <3>2, LastHeardIs DEF LastHeard
    <3>5. LastHeard(i)' = records'[i].heard
      BY <3>3, LastHeardIs DEF LastHeard
    <3> QED
      BY <3>1, <3>4, <3>5
  <2> QED
    BY <2>2
<1> QED
  BY StoreInvariance, <1>1, PTL DEF StoreSpec, HeardNeverGoesBack

-----------------------------------------------------------------------------
(* The series of the metrics page.                                          *)

NamesOf(words) == {words[k] : k \in 1..Len(words)}

\* The words of the page, the names of the producers apart.
Words ==
    NamesOf(RadioSeries) \cup NamesOf(StationSeries) \cup NamesOf(HttpSeries)
    \cup NamesOf(LoopSeries) \cup NamesOf(SocketStates) \cup NamesOf(AgedStates)
    \cup NamesOf(MetricOrder)
    \cup {"up", "uptime_ms", "http_sockets", "http_oldest_socket_age_ms",
          "node_poll_success_total", "node_poll_failure_total",
          "node_last_heard_age_ms", "node_rssi", "node_snr"}

Labels == Words \cup STRING \cup {e.channel : e \in Entries}

Series ==
    [name : Words, labels : Seq(Labels),
     value : Nat \cup {None, Unset} \cup {e.value : e \in Entries}]

Key(sample) == <<sample.name, sample.labels>>

Keys(samples) == {Key(samples[k]) : k \in 1..Len(samples)}

\* No two samples are of the same series.
Unique(samples) ==
    /\ samples \in Seq(Series)
    /\ \A j, k \in 1..Len(samples) : Key(samples[j]) = Key(samples[k]) => j = k

LEMMA UniqueNothing == Unique(<<>>) /\ Keys(<<>>) = {}
<1>1. <<>> \in Seq(Series) /\ Len(<<>>) = 0
  OBVIOUS
<1> QED
  BY <1>1 DEF Unique, Keys

LEMMA UniqueConcat ==
    ASSUME NEW a, Unique(a), NEW b, Unique(b), Keys(a) \cap Keys(b) = {}
    PROVE  Unique(a \o b) /\ Keys(a \o b) = Keys(a) \cup Keys(b)
<1> DEFINE n == Len(a)
           m == Len(b)
           all == a \o b
<1>1. /\ a \in Seq(Series) /\ b \in Seq(Series) /\ n \in Nat /\ m \in Nat
      /\ all \in Seq(Series) /\ Len(all) = n + m
      /\ \A k \in 1..n : all[k] = a[k]
      /\ \A k \in 1..m : all[n + k] = b[k]
  BY DEF Unique
<1> HIDE DEF all
<1>2. \A k \in 1..Len(all) : k \in 1..n \/ \E l \in 1..m : k = n + l
  <2> SUFFICES ASSUME NEW k \in 1..Len(all), k \notin 1..n PROVE k - n \in 1..m /\ k = n + (k - n)
    OBVIOUS
  <2> QED
    BY <1>1
<1>3. /\ \A k \in 1..n : Key(all[k]) = Key(a[k]) /\ Key(a[k]) \in Keys(a)
      /\ \A l \in 1..m : Key(all[n + l]) = Key(b[l]) /\ Key(b[l]) \in Keys(b)
  BY <1>1 DEF Keys
<1>4. /\ \A j, k \in 1..n : Key(a[j]) = Key(a[k]) => j = k
      /\ \A j, k \in 1..m : Key(b[j]) = Key(b[k]) => j = k
  BY Zenon DEF Unique
<1>5. ASSUME NEW j \in 1..Len(all), NEW k \in 1..Len(all), Key(all[j]) = Key(all[k])
      PROVE  j = k
  <2>1. CASE j \in 1..n /\ k \in 1..n
    BY <1>3, <1>4, <1>5, <2>1
  <2>2. CASE j \in 1..n /\ k \notin 1..n
    <3>1. PICK l \in 1..m : k = n + l
      BY <1>2, <2>2
    <3> QED
      BY <1>3, <1>5, <2>2, <3>1
  <2>3. CASE j \notin 1..n /\ k \in 1..n
    <3>1. PICK l \in 1..m : j = n + l
      BY <1>2, <2>3
    <3> QED
      BY <1>3, <1>5, <2>3, <3>1
  <2>4. CASE j \notin 1..n /\ k \notin 1..n
    <3>1. PICK l \in 1..m : j = n + l
      BY <1>2, <2>4
    <3>2. PICK i \in 1..m : k = n + i
      BY <1>2, <2>4
    <3> QED
      BY <1>3, <1>4, <1>5, <3>1, <3>2
  <2> QED
    BY <2>1, <2>2, <2>3, <2>4
<1>6. Keys(all) = Keys(a) \cup Keys(b)
  <2>1. ASSUME NEW x \in Keys(all) PROVE x \in Keys(a) \cup Keys(b)
    <3>1. PICK k \in 1..Len(all) : x = Key(all[k])
      BY <2>1 DEF Keys
    <3>2. CASE k \in 1..n
      BY <1>3, <3>1, <3>2
    <3>3. CASE k \notin 1..n
      <4>1. PICK l \in 1..m : k = n + l
        BY <1>2, <3>3
      <4> QED
        BY <1>3, <3>1, <4>1
    <3> QED
      BY <3>2, <3>3
  <2>2. ASSUME NEW x \in Keys(a) PROVE x \in Keys(all)
    <3>1. PICK k \in 1..n : x = Key(a[k])
      BY <2>2 DEF Keys
    <3>2. k \in 1..Len(all)
      BY <1>1
    <3> QED
      BY <1>3, <3>1, <3>2 DEF Keys
  <2>3. ASSUME NEW x \in Keys(b) PROVE x \in Keys(all)
    <3>1. PICK l \in 1..m : x = Key(b[l])
      BY <2>3 DEF Keys
    <3>2. n + l \in 1..Len(all)
      BY <1>1
    <3> QED
      BY <1>3, <3>1, <3>2 DEF Keys
  <2> QED
    BY <2>1, <2>2, <2>3
<1>7. Unique(all)
  BY <1>1, <1>5 DEF Unique
<1> QED
  BY <1>6, <1>7 DEF all

\* Pages of parts that have no series in common.
Parts(seqs) ==
    /\ \A k \in 1..Len(seqs) : Unique(seqs[k])
    /\ \A j, k \in 1..Len(seqs) : j # k => Keys(seqs[j]) \cap Keys(seqs[k]) = {}

LEMMA UniqueFlatten ==
    ASSUME NEW seqs \in Seq(Seq(Series)), Parts(seqs)
    PROVE  /\ Unique(FlattenSeq(seqs))
           /\ \A x \in Keys(FlattenSeq(seqs)) : \E k \in 1..Len(seqs) : x \in Keys(seqs[k])
<1> DEFINE T == Seq(Series)
           Good(s) == /\ Unique(FlattenSeq(s))
                      /\ \A x \in Keys(FlattenSeq(s)) : \E k \in 1..Len(s) : x \in Keys(s[k])
           S == {s \in Seq(T) : Parts(s) => Good(s)}
<1>1. <<>> \in S
  <2>1. <<>> \in Seq(T)
    OBVIOUS
  <2>2. Good(<<>>)
    BY FlattenEmpty, UniqueNothing
  <2> HIDE DEF T, Good
  <2> QED
    BY <2>1, <2>2
<1>2. ASSUME NEW s \in Seq(T), NEW e \in T, s \in S PROVE Append(s, e) \in S
  <2> DEFINE more == Append(s, e)
             n == Len(s)
  <2>1. /\ n \in Nat /\ more \in Seq(T) /\ Len(more) = n + 1
        /\ \A k \in 1..n : more[k] = s[k] /\ k \in 1 .. n + 1 /\ k # n + 1
        /\ more[n + 1] = e /\ n + 1 \in 1 .. n + 1
    <3> HIDE DEF T
    <3> QED
      OBVIOUS
  <2>2. FlattenSeq(more) = FlattenSeq(s) \o e
    BY FlattenAppend
  <2> SUFFICES ASSUME Parts(more) PROVE Good(more)
    <3> HIDE DEF Good
    <3> QED
      BY <2>1
  <2> HIDE DEF more, T, n
  <2>3. /\ \A k \in 1 .. n + 1 : Unique(more[k])
        /\ \A j, k \in 1 .. n + 1 : j # k => Keys(more[j]) \cap Keys(more[k]) = {}
    BY <2>1, Zenon DEF Parts
  <2>4. Parts(s) /\ Unique(e) /\ \A k \in 1..n : Keys(s[k]) \cap Keys(e) = {}
    BY <2>1, <2>3 DEF Parts, n
  <2>5. Good(s)
    <3> HIDE DEF Good
    <3> QED
      BY <1>2, <2>4
  <2>6. Keys(FlattenSeq(s)) \cap Keys(e) = {}
    BY <2>4, <2>5 DEF n
  <2>7. /\ Unique(FlattenSeq(s) \o e)
        /\ Keys(FlattenSeq(s) \o e) = Keys(FlattenSeq(s)) \cup Keys(e)
    BY <2>4, <2>5, <2>6, UniqueConcat
  <2>8. ASSUME NEW x \in Keys(FlattenSeq(more))
        PROVE  \E k \in 1 .. n + 1 : x \in Keys(more[k])
    <3>1. CASE x \in Keys(e)
      BY <2>1, <3>1
    <3>2. CASE x \in Keys(FlattenSeq(s))
      <4>1. PICK k \in 1..n : x \in Keys(s[k])
        BY <2>5, <3>2 DEF n
      <4> QED
        BY <2>1, <4>1
    <3> QED
      BY <2>2, <2>7, <2>8, <3>1, <3>2
  <2> QED
    BY <2>1, <2>2, <2>7, <2>8
<1>3. Seq(T) \subseteq S
  <2> HIDE DEF S, T
  <2> QED
    BY <1>1, <1>2, AllSequences
<1> QED
  <2> HIDE DEF Good
  <2>1. Good(seqs)
    BY <1>3
  <2> QED
    BY <2>1 DEF Good

\* Labels of different lengths differ.
LEMMA LabelsDiffer ==
    ASSUME NEW a, NEW b, NEW c, NEW d
    PROVE  /\ <<>> # <<a>> /\ <<>> # <<a, b>> /\ <<c>> # <<a, b>>
           /\ <<a>> = <<c>> => a = c
           /\ <<a, b>> = <<c, d>> => a = c /\ b = d
<1>1. Len(<<>>) = 0 /\ Len(<<a>>) = 1 /\ Len(<<c>>) = 1 /\ Len(<<a, b>>) = 2
  OBVIOUS
<1> QED
  BY <1>1

\* Words, each of them once.
OneEach(words) ==
    /\ words \in Seq(Words)
    /\ \A j, k \in 1..Len(words) : words[j] = words[k] => j = k

Apart(a, b) == \A j \in 1..Len(a), k \in 1..Len(b) : a[j] # b[k]

LEMMA WordsTyped ==
    ASSUME NEW words, Len(words) \in Nat, words = [k \in 1..Len(words) |-> words[k]],
           NamesOf(words) \subseteq Words
    PROVE  words \in Seq(Words)
<1>1. \A k \in 1..Len(words) : words[k] \in Words
  BY DEF NamesOf
<1> QED
  BY <1>1

LEMMA RadioWords == OneEach(RadioSeries)
<1>1. Len(RadioSeries) \in Nat /\ RadioSeries = [k \in 1..Len(RadioSeries) |-> RadioSeries[k]]
  BY DEF RadioSeries
<1>2. \A j, k \in 1..Len(RadioSeries) : RadioSeries[j] = RadioSeries[k] => j = k
  BY DEF RadioSeries
<1> QED
  BY <1>1, <1>2, WordsTyped DEF OneEach, Words

LEMMA StationWords == OneEach(StationSeries)
<1>1. /\ Len(StationSeries) \in Nat
      /\ StationSeries = [k \in 1..Len(StationSeries) |-> StationSeries[k]]
  BY DEF StationSeries
<1>2. \A j, k \in 1..Len(StationSeries) : StationSeries[j] = StationSeries[k] => j = k
  BY DEF StationSeries
<1> QED
  BY <1>1, <1>2, WordsTyped DEF OneEach, Words

LEMMA HttpWords == OneEach(HttpSeries)
<1>1. Len(HttpSeries) \in Nat /\ HttpSeries = [k \in 1..Len(HttpSeries) |-> HttpSeries[k]]
  BY DEF HttpSeries
<1>2. \A j, k \in 1..Len(HttpSeries) : HttpSeries[j] = HttpSeries[k] => j = k
  BY DEF HttpSeries
<1> QED
  BY <1>1, <1>2, WordsTyped DEF OneEach, Words

LEMMA LoopWords == OneEach(LoopSeries)
<1>1. Len(LoopSeries) \in Nat /\ LoopSeries = [k \in 1..Len(LoopSeries) |-> LoopSeries[k]]
  BY DEF LoopSeries
<1>2. \A j, k \in 1..Len(LoopSeries) : LoopSeries[j] = LoopSeries[k] => j = k
  BY DEF LoopSeries
<1> QED
  BY <1>1, <1>2, WordsTyped DEF OneEach, Words

LEMMA StateWords == OneEach(SocketStates) /\ OneEach(AgedStates)
<1>1. /\ Len(SocketStates) \in Nat
      /\ SocketStates = [k \in 1..Len(SocketStates) |-> SocketStates[k]]
  BY DEF SocketStates
<1>2. \A j, k \in 1..Len(SocketStates) : SocketStates[j] = SocketStates[k] => j = k
  BY DEF SocketStates
<1>3. Len(AgedStates) \in Nat /\ AgedStates = [k \in 1..Len(AgedStates) |-> AgedStates[k]]
  BY DEF AgedStates
<1>4. \A j, k \in 1..Len(AgedStates) : AgedStates[j] = AgedStates[k] => j = k
  BY DEF AgedStates
<1>5. OneEach(SocketStates)
  BY <1>1, <1>2, WordsTyped DEF OneEach, Words
<1>6. OneEach(AgedStates)
  BY <1>3, <1>4, WordsTyped DEF OneEach, Words
<1> QED
  BY <1>5, <1>6

LEMMA MetricWords ==
    OneEach(MetricOrder) /\ \A k \in 1..Len(MetricOrder) : MetricOrder[k] \in Metrics
<1>1. Len(MetricOrder) \in Nat /\ MetricOrder = [k \in 1..Len(MetricOrder) |-> MetricOrder[k]]
  BY DEF MetricOrder
<1>2. \A j, k \in 1..Len(MetricOrder) : MetricOrder[j] = MetricOrder[k] => j = k
  BY DEF MetricOrder
<1>3. \A k \in 1..Len(MetricOrder) : MetricOrder[k] \in Metrics
  BY DEF MetricOrder, Metrics, MetricOf
<1>4. OneEach(MetricOrder)
  BY <1>1, <1>2, WordsTyped DEF OneEach, Words
<1> QED
  BY <1>3, <1>4

\* The series of the gateway have different names.
LEMMA SeriesApart ==
    /\ Apart(RadioSeries, StationSeries) /\ Apart(RadioSeries, HttpSeries)
    /\ Apart(StationSeries, HttpSeries) /\ Apart(RadioSeries, LoopSeries)
    /\ Apart(StationSeries, LoopSeries) /\ Apart(HttpSeries, LoopSeries)
<1>1. Apart(RadioSeries, StationSeries)
  BY DEF Apart, RadioSeries, StationSeries
<1>2. Apart(RadioSeries, HttpSeries)
  BY DEF Apart, RadioSeries, HttpSeries
<1>3. Apart(StationSeries, HttpSeries)
  BY DEF Apart, StationSeries, HttpSeries
<1>4. Apart(RadioSeries, LoopSeries)
  BY DEF Apart, RadioSeries, LoopSeries
<1>5. Apart(StationSeries, LoopSeries)
  BY DEF Apart, StationSeries, LoopSeries
<1>6. Apart(HttpSeries, LoopSeries)
  BY DEF Apart, HttpSeries, LoopSeries
<1> QED
  BY <1>1, <1>2, <1>3, <1>4, <1>5, <1>6

LEMMA UptimeApart ==
    \A x \in {"up", "uptime_ms"} :
        /\ \A k \in 1..Len(RadioSeries) : RadioSeries[k] # x
        /\ \A k \in 1..Len(StationSeries) : StationSeries[k] # x
        /\ \A k \in 1..Len(HttpSeries) : HttpSeries[k] # x
        /\ \A k \in 1..Len(LoopSeries) : LoopSeries[k] # x
<1> SUFFICES ASSUME NEW x \in {"up", "uptime_ms"}
             PROVE  /\ \A k \in 1..Len(RadioSeries) : RadioSeries[k] # x
                    /\ \A k \in 1..Len(StationSeries) : StationSeries[k] # x
                    /\ \A k \in 1..Len(HttpSeries) : HttpSeries[k] # x
                    /\ \A k \in 1..Len(LoopSeries) : LoopSeries[k] # x
  OBVIOUS
<1>1. \A k \in 1..Len(RadioSeries) : RadioSeries[k] # x
  BY DEF RadioSeries
<1>2. \A k \in 1..Len(StationSeries) : StationSeries[k] # x
  BY DEF StationSeries
<1>3. \A k \in 1..Len(HttpSeries) : HttpSeries[k] # x
  BY DEF HttpSeries
<1>4. \A k \in 1..Len(LoopSeries) : LoopSeries[k] # x
  BY DEF LoopSeries
<1> QED
  BY <1>1, <1>2, <1>3, <1>4

\* Samples without labels, of words that are there once.
LEMMA SamplesUnique ==
    ASSUME NEW words, OneEach(words)
    PROVE  /\ Unique(Samples(words))
           /\ Keys(Samples(words)) = {<<x, <<>> >> : x \in NamesOf(words)}
<1> DEFINE n == Len(words)
           samples == Samples(words)
<1>1. words \in Seq(Words) /\ n \in Nat /\ DOMAIN words = 1..n
  BY DEF OneEach
<1>2. samples = [k \in 1..n |-> [name |-> words[k], labels |-> <<>>, value |-> None]]
  BY <1>1 DEF Samples, Sample
<1>3. ASSUME NEW k \in 1..n
      PROVE  [name |-> words[k], labels |-> <<>>, value |-> None] \in Series
  <2>1. words[k] \in Words /\ <<>> \in Seq(Labels)
    BY <1>1
  <2> QED
    BY <2>1 DEF Series
<1> HIDE DEF samples, n
<1>4. samples \in Seq(Series) /\ Len(samples) = n
  BY <1>1, <1>2, <1>3
<1>5. \A k \in 1..n : Key(samples[k]) = <<words[k], <<>> >>
  BY <1>2 DEF Key
<1>6. \A j, k \in 1..n : words[j] = words[k] => j = k
  BY DEF OneEach, n
<1>7. \A j, k \in 1..n : Key(samples[j]) = Key(samples[k]) => j = k
  BY <1>5, <1>6
<1>8. Keys(samples) = {<<x, <<>> >> : x \in NamesOf(words)}
  BY <1>4, <1>5 DEF Keys, NamesOf, n
<1> QED
  BY <1>4, <1>7, <1>8 DEF Unique, samples

LEMMA SamplesConcat ==
    ASSUME NEW a \in Seq(Words), NEW b \in Seq(Words)
    PROVE  Samples(a \o b) = Samples(a) \o Samples(b)
<1> DEFINE n == Len(a)
           m == Len(b)
           One(x) == Sample(x, None)
<1>1. /\ n \in Nat /\ m \in Nat /\ DOMAIN a = 1..n /\ DOMAIN b = 1..m
      /\ a \o b \in Seq(Words) /\ Len(a \o b) = n + m /\ DOMAIN (a \o b) = 1 .. n + m
  OBVIOUS
<1>2. /\ Samples(a) = [k \in 1..n |-> One(a[k])] /\ Samples(b) = [k \in 1..m |-> One(b[k])]
      /\ Samples(a \o b) = [k \in 1 .. n + m |-> One((a \o b)[k])]
  BY <1>1, Zenon DEF Samples
<1> HIDE DEF One
<1> QED
  BY <1>1, <1>2

LEMMA SamplesApart ==
    ASSUME NEW a, OneEach(a), NEW b, OneEach(b), Apart(a, b)
    PROVE  Keys(Samples(a)) \cap Keys(Samples(b)) = {}
<1>1. \A x \in NamesOf(a), y \in NamesOf(b) : x # y
  BY DEF NamesOf, Apart
<1>2. /\ Keys(Samples(a)) = {<<x, <<>> >> : x \in NamesOf(a)}
      /\ Keys(Samples(b)) = {<<x, <<>> >> : x \in NamesOf(b)}
  BY SamplesUnique, Zenon
<1> QED
  BY <1>1, <1>2

\* Samples of one name, each with a label that is there once.
LEMMA StatesUnique ==
    ASSUME NEW name \in Words, NEW states, OneEach(states)
    PROVE  LET samples == [k \in DOMAIN states |-> StateSample(name, states[k], None)]
           IN  /\ Unique(samples)
               /\ \A x \in Keys(samples) : \E s : x = <<name, <<s>> >>
<1> DEFINE n == Len(states)
           samples == [k \in DOMAIN states |-> StateSample(name, states[k], None)]
<1>1. states \in Seq(Words) /\ n \in Nat /\ DOMAIN states = 1..n
  BY DEF OneEach
<1>2. samples = [k \in 1..n |-> [name |-> name, labels |-> <<states[k]>>, value |-> None]]
  BY <1>1 DEF StateSample
<1>3. ASSUME NEW k \in 1..n
      PROVE  [name |-> name, labels |-> <<states[k]>>, value |-> None] \in Series
  <2>1. states[k] \in Labels
    BY <1>1 DEF Labels
  <2>2. <<states[k]>> \in Seq(Labels)
    BY <2>1
  <2> QED
    BY <2>2 DEF Series
<1> HIDE DEF samples, n
<1>4. samples \in Seq(Series) /\ Len(samples) = n
  BY <1>1, <1>2, <1>3
<1>5. \A k \in 1..n : Key(samples[k]) = <<name, <<states[k]>> >>
  BY <1>2 DEF Key
<1>6. \A j, k \in 1..n : states[j] = states[k] => j = k
  BY DEF OneEach, n
<1>7. \A j, k \in 1..n : Key(samples[j]) = Key(samples[k]) => j = k
  <2> SUFFICES ASSUME NEW j \in 1..n, NEW k \in 1..n, Key(samples[j]) = Key(samples[k])
               PROVE  states[j] = states[k]
    BY <1>6
  <2>1. <<states[j]>> = <<states[k]>>
    BY <1>5
  <2> QED
    BY <2>1, LabelsDiffer
<1>8. \A x \in Keys(samples) : \E s : x = <<name, <<s>> >>
  BY <1>4, <1>5 DEF Keys
<1> QED
  BY <1>4, <1>7, <1>8 DEF Unique, samples

LEMMA SocketsUnique ==
    /\ Unique(SocketSamples)
    /\ \A x \in Keys(SocketSamples) :
           \E s : x \in {<<"http_sockets", <<s>> >>, <<"http_oldest_socket_age_ms", <<s>> >>}
<1> DEFINE a == [k \in DOMAIN SocketStates |-> StateSample("http_sockets", SocketStates[k], None)]
           b == [k \in DOMAIN AgedStates |->
                    StateSample("http_oldest_socket_age_ms", AgedStates[k], None)]
<1>1. "http_sockets" \in Words /\ "http_oldest_socket_age_ms" \in Words
  BY DEF Words
<1>2. Unique(a) /\ \A x \in Keys(a) : \E s : x = <<"http_sockets", <<s>> >>
  BY <1>1, StateWords, StatesUnique, Zenon
<1>3. Unique(b) /\ \A x \in Keys(b) : \E s : x = <<"http_oldest_socket_age_ms", <<s>> >>
  BY <1>1, StateWords, StatesUnique, Zenon
<1> HIDE DEF a, b
<1>4. Keys(a) \cap Keys(b) = {}
  BY <1>2, <1>3
<1>5. Unique(a \o b) /\ Keys(a \o b) = Keys(a) \cup Keys(b)
  BY <1>2, <1>3, <1>4, UniqueConcat, Zenon
<1>6. SocketSamples = a \o b
  BY Zenon DEF SocketSamples, a, b
<1> QED
  BY <1>2, <1>3, <1>5, <1>6

LEMMA FewUnique ==
    ASSUME NEW a \in Series, NEW b \in Series, NEW c \in Series,
           Key(a) # Key(b), Key(a) # Key(c), Key(b) # Key(c)
    PROVE  /\ Unique(<<a, b>>) /\ Keys(<<a, b>>) = {Key(a), Key(b)}
           /\ Unique(<<a, b, c>>) /\ Keys(<<a, b, c>>) = {Key(a), Key(b), Key(c)}
<1> DEFINE two == <<a, b>>
           three == <<a, b, c>>
<1>1. /\ two \in Seq(Series) /\ Len(two) = 2 /\ two[1] = a /\ two[2] = b
      /\ three \in Seq(Series) /\ Len(three) = 3
      /\ three[1] = a /\ three[2] = b /\ three[3] = c
  OBVIOUS
<1>2. 1..2 = {1, 2} /\ 1..3 = {1, 2, 3}
  OBVIOUS
<1> HIDE DEF two, three
<1>3. Unique(two) /\ Keys(two) = {Key(a), Key(b)}
  BY <1>1, <1>2 DEF Unique, Keys
<1>4. Unique(three) /\ Keys(three) = {Key(a), Key(b), Key(c)}
  BY <1>1, <1>2 DEF Unique, Keys
<1> QED
  BY <1>3, <1>4 DEF two, three

\* What the series of the gateway itself look like.
OfGateway(x) ==
    \/ \E name : x = <<name, <<>> >>
    \/ \E s : x \in {<<"http_sockets", <<s>> >>, <<"http_oldest_socket_age_ms", <<s>> >>}

LEMMA GatewayUnique ==
    ASSUME NEW uptime \in Nat
    PROVE  /\ Unique(GatewaySamples(uptime))
           /\ \A x \in Keys(GatewaySamples(uptime)) : OfGateway(x)
<1> DEFINE head == <<Sample("up", 1), Sample("uptime_ms", uptime)>>
           radio == Samples(RadioSeries)
           station == Samples(StationSeries)
           http == Samples(HttpSeries)
           loop == Samples(LoopSeries)
           Plain(words) == {<<x, <<>> >> : x \in NamesOf(words)}
<1>1. Unique(head) /\ Keys(head) = {<<"up", <<>> >>, <<"uptime_ms", <<>> >>}
  <2> DEFINE one == Sample("up", 1)
             two == Sample("uptime_ms", uptime)
  <2>0. "up" \in Words /\ "uptime_ms" \in Words /\ <<>> \in Seq(Labels)
    BY DEF Words
  <2>1. one \in Series /\ two \in Series
    BY <2>0 DEF Sample, Series
  <2>2. Key(one) = <<"up", <<>> >> /\ Key(two) = <<"uptime_ms", <<>> >>
    BY DEF Key, Sample
  <2>3. \E other \in Series : Key(other) # Key(one) /\ Key(other) # Key(two)
    <3> DEFINE other == Sample("http_sockets", 1)
    <3>1. "http_sockets" \in Words
      BY DEF Words
    <3>2. other \in Series
      BY <2>0, <3>1 DEF Sample, Series
    <3>3. Key(other) = <<"http_sockets", <<>> >>
      BY DEF Key, Sample
    <3> QED
      BY <2>2, <3>2, <3>3
  <2>4. Key(one) # Key(two)
    BY <2>2
  <2> HIDE DEF one, two
  <2> QED
    BY <2>1, <2>2, <2>3, <2>4, FewUnique, ZenonT(60) DEF one, two
<1>2. /\ Unique(radio) /\ Keys(radio) = Plain(RadioSeries)
      /\ Unique(station) /\ Keys(station) = Plain(StationSeries)
      /\ Unique(http) /\ Keys(http) = Plain(HttpSeries)
      /\ Unique(loop) /\ Keys(loop) = Plain(LoopSeries)
  BY RadioWords, StationWords, HttpWords, LoopWords, SamplesUnique, Zenon
<1>3. /\ Keys(radio) \cap Keys(station) = {} /\ Keys(radio) \cap Keys(http) = {}
      /\ Keys(station) \cap Keys(http) = {} /\ Keys(radio) \cap Keys(loop) = {}
      /\ Keys(station) \cap Keys(loop) = {} /\ Keys(http) \cap Keys(loop) = {}
  BY RadioWords, StationWords, HttpWords, LoopWords, SeriesApart, SamplesApart, Zenon
<1>4. /\ Keys(head) \cap Keys(radio) = {} /\ Keys(head) \cap Keys(station) = {}
      /\ Keys(head) \cap Keys(http) = {} /\ Keys(head) \cap Keys(loop) = {}
  <2>1. \A x \in {"up", "uptime_ms"} :
            x \notin NamesOf(RadioSeries) /\ x \notin NamesOf(StationSeries)
              /\ x \notin NamesOf(HttpSeries) /\ x \notin NamesOf(LoopSeries)
    BY UptimeApart DEF NamesOf
  <2> HIDE DEF head, radio, station, http, loop
  <2>2. \A words : (\A x \in {"up", "uptime_ms"} : x \notin NamesOf(words)) =>
                       Keys(head) \cap Plain(words) = {}
    BY <1>1
  <2> QED
    BY <1>2, <2>1, <2>2
<1>5. Samples(RadioSeries \o StationSeries \o HttpSeries) = (radio \o station) \o http
  <2>1. /\ RadioSeries \in Seq(Words) /\ StationSeries \in Seq(Words) /\ HttpSeries \in Seq(Words)
    BY RadioWords, StationWords, HttpWords, Zenon DEF OneEach
  <2>2. RadioSeries \o StationSeries \in Seq(Words)
    BY <2>1
  <2> QED
    BY <2>1, <2>2, SamplesConcat, Zenon
<1>6. GatewaySamples(uptime) = ((head \o ((radio \o station) \o http)) \o SocketSamples) \o loop
  BY <1>5, Zenon DEF GatewaySamples
<1> DEFINE a == radio \o station
           b == a \o http
           c == head \o b
           d == c \o SocketSamples
<1> HIDE DEF head, radio, station, http, loop
<1>7. Unique(a) /\ Keys(a) = Keys(radio) \cup Keys(station)
  BY <1>2, <1>3, UniqueConcat, Zenon
<1> HIDE DEF a
<1>8. Unique(b) /\ Keys(b) = Keys(a) \cup Keys(http)
  <2>1. Keys(a) \cap Keys(http) = {}
    BY <1>3, <1>7
  <2> QED
    BY <1>2, <1>7, <2>1, UniqueConcat, Zenon
<1> HIDE DEF b
<1>9. Unique(c) /\ Keys(c) = Keys(head) \cup Keys(b)
  <2>1. Keys(head) \cap Keys(b) = {}
    BY <1>4, <1>7, <1>8
  <2> QED
    BY <1>1, <1>8, <2>1, UniqueConcat, Zenon
<1> HIDE DEF c
<1>10. \A x \in Keys(c) \cup Keys(loop) : \E name : x = <<name, <<>> >>
  BY <1>1, <1>2, <1>7, <1>8, <1>9
<1>11. \A x \in Keys(SocketSamples) : ~ \E name : x = <<name, <<>> >>
  <2> SUFFICES ASSUME NEW x \in Keys(SocketSamples), NEW name, x = <<name, <<>> >> PROVE FALSE
    OBVIOUS
  <2>1. PICK s : x \in {<<"http_sockets", <<s>> >>, <<"http_oldest_socket_age_ms", <<s>> >>}
    BY SocketsUnique
  <2>2. <<>> = <<s>>
    BY <2>1
  <2> QED
    BY <2>2, LabelsDiffer
<1>12. Unique(d) /\ Keys(d) = Keys(c) \cup Keys(SocketSamples)
  <2>1. Keys(c) \cap Keys(SocketSamples) = {}
    BY <1>10, <1>11
  <2> QED
    BY <1>9, <2>1, SocketsUnique, UniqueConcat, Zenon
<1> HIDE DEF d
<1>13. Keys(d) \cap Keys(loop) = {}
  <2>1. Keys(c) \cap Keys(loop) = {}
    BY <1>3, <1>4, <1>7, <1>8, <1>9
  <2>2. Keys(SocketSamples) \cap Keys(loop) = {}
    BY <1>10, <1>11
  <2> QED
    BY <1>12, <2>1, <2>2
<1>14. Unique(d \o loop) /\ Keys(d \o loop) = Keys(d) \cup Keys(loop)
  BY <1>2, <1>12, <1>13, UniqueConcat, Zenon
<1>15. GatewaySamples(uptime) = d \o loop
  BY <1>6, Zenon DEF a, b, c, d
<1>16. \A x \in Keys(d \o loop) : OfGateway(x)
  <2> SUFFICES ASSUME NEW x \in Keys(d \o loop) PROVE OfGateway(x)
    OBVIOUS
  <2>1. CASE x \in Keys(c) \cup Keys(loop)
    BY <1>10, <2>1, Zenon DEF OfGateway
  <2>2. CASE x \in Keys(SocketSamples)
    BY <2>2, SocketsUnique, Zenon DEF OfGateway
  <2> QED
    BY <1>12, <1>14, <2>1, <2>2
<1> QED
  BY <1>14, <1>15, <1>16

LEMMA OptionalUnique ==
    ASSUME NEW present, NEW sample \in Series
    PROVE  LET samples == Optional(present, sample)
           IN  /\ samples \in Seq(Series) /\ Unique(samples)
               /\ \A x \in Keys(samples) : x = Key(sample)
<1>1. CASE present
  <2> DEFINE samples == <<sample>>
  <2>1. samples \in Seq(Series) /\ Len(samples) = 1 /\ samples[1] = sample /\ 1..1 = {1}
    OBVIOUS
  <2> HIDE DEF samples
  <2>2. Unique(samples) /\ \A x \in Keys(samples) : x = Key(sample)
    BY <2>1 DEF Unique, Keys
  <2>3. Optional(present, sample) = samples
    BY <1>1, Zenon DEF Optional, samples
  <2> QED
    BY <2>1, <2>2, <2>3, Zenon
<1>2. CASE ~present
  <2>1. Optional(present, sample) = <<>>
    BY <1>2, Zenon DEF Optional
  <2>2. <<>> \in Seq(Series)
    OBVIOUS
  <2> QED
    BY <2>1, <2>2, UniqueNothing
<1> QED
  BY <1>1, <1>2

LEMMA ProducerNamed ==
    ASSUME NEW i \in Ids
    PROVE  Producers[i].name \in Labels
<1>1. Producers \in Seq([node : Nodes \cup DOMAIN PublicText, name : STRING,
                         enabled : BOOLEAN])
  BY Zenon, StoreAssumption
<1>2. i \in 1..Len(Producers)
  BY StoreBounds
<1> DEFINE T == [node : Nodes \cup DOMAIN PublicText, name : STRING, enabled : BOOLEAN]
           p == Producers[i]
<1>3. Producers \in Seq(T)
  BY <1>1, Zenon DEF T
<1> HIDE DEF T
<1>4. p \in T
  BY <1>2, <1>3 DEF p
<1> HIDE DEF p
<1>5. p.name \in STRING
  BY <1>4 DEF T
<1> QED
  BY <1>5, Zenon DEF Labels, p

\* The lines of a channel: one for each of its metrics that was reported.
LEMMA ChannelUnique ==
    ASSUME NEW i \in Ids, NEW channel \in Channel
    PROVE  /\ ChannelSamples(i, channel) \in Seq(Series)
           /\ Unique(ChannelSamples(i, channel))
           /\ \A x \in Keys(ChannelSamples(i, channel)) :
                  \E m : x = <<m, <<Producers[i].name, channel.id>> >>
<1> DEFINE n == Len(MetricOrder)
           pname == Producers[i].name
           One(m) == ChannelSample(m, i, channel.id, channel.metrics[m])
           Line(m) == Optional(channel.metrics[m] # Unset, One(m))
           lines == [k \in DOMAIN MetricOrder |-> Line(MetricOrder[k])]
<1>1. /\ MetricOrder \in Seq(Words) /\ n \in Nat /\ DOMAIN MetricOrder = 1..n
      /\ \A j, k \in 1..n : MetricOrder[j] = MetricOrder[k] => j = k
      /\ \A k \in 1..n : MetricOrder[k] \in Metrics /\ MetricOrder[k] \in Words
  BY MetricWords DEF OneEach
<1>2. pname \in Labels /\ channel.id \in Labels /\ channel.metrics \in MetricValues
  BY ProducerNamed DEF Channel, Labels
<1>3. <<pname, channel.id>> \in Seq(Labels)
  BY <1>2
<1>4. ASSUME NEW m \in Metrics, m \in Words
      PROVE  One(m) \in Series /\ Key(One(m)) = <<m, <<pname, channel.id>> >>
  <2>1. One(m) = [name |-> m, labels |-> <<pname, channel.id>>, value |-> channel.metrics[m]]
    BY DEF ChannelSample
  <2>2. channel.metrics[m] \in {e.value : e \in Entries} \cup {Unset}
    BY <1>2, <1>4 DEF MetricValues
  <2> DEFINE v == channel.metrics[m]
             l == <<pname, channel.id>>
             one == One(m)
  <2> HIDE DEF v, l, one
  <2>3. one = [name |-> m, labels |-> l, value |-> v]
    BY <2>1, Zenon DEF one, v, l
  <2>4. one \in Series
    BY <1>3, <1>4, <2>2, <2>3 DEF Series, v, l
  <2>5. Key(one) = <<m, l>>
    BY <2>3 DEF Key
  <2> QED
    BY <2>4, <2>5, Zenon DEF one, l
<1> HIDE DEF One, n
<1>5. ASSUME NEW k \in 1..n
      PROVE  /\ Line(MetricOrder[k]) \in Seq(Series) /\ Unique(Line(MetricOrder[k]))
             /\ \A x \in Keys(Line(MetricOrder[k])) :
                    x = <<MetricOrder[k], <<pname, channel.id>> >>
  <2>1. One(MetricOrder[k]) \in Series
        /\ Key(One(MetricOrder[k])) = <<MetricOrder[k], <<pname, channel.id>> >>
    BY <1>1, <1>4, Zenon
  <2> QED
    BY <2>1, OptionalUnique, Zenon
<1> HIDE DEF Line
<1>6. lines \in Seq(Seq(Series)) /\ Len(lines) = n /\ \A k \in 1..n : lines[k] = Line(MetricOrder[k])
  <2> DEFINE T == Seq(Series)
  <2>1. \A k \in 1..n : Line(MetricOrder[k]) \in T
    BY <1>5
  <2> HIDE DEF T
  <2>2. lines \in Seq(T) /\ Len(lines) = n /\ \A k \in 1..n : lines[k] = Line(MetricOrder[k])
    BY <1>1, <2>1
  <2> QED
    BY <2>2 DEF T
<1>7. ChannelSamples(i, channel) = FlattenSeq(lines)
  BY Zenon DEF ChannelSamples, Line, One
<1> HIDE DEF lines, pname
<1>8. Parts(lines)
  <2>1. ASSUME NEW j \in 1..n, NEW k \in 1..n, j # k
        PROVE  Keys(lines[j]) \cap Keys(lines[k]) = {}
    <3>1. MetricOrder[j] # MetricOrder[k]
      BY <1>1, <2>1
    <3> QED
      BY <1>5, <1>6, <3>1
  <2> QED
    BY <1>5, <1>6, <2>1 DEF Parts
<1>9. /\ Unique(FlattenSeq(lines))
      /\ \A x \in Keys(FlattenSeq(lines)) : \E k \in 1..Len(lines) : x \in Keys(lines[k])
  BY <1>6, <1>8, UniqueFlatten, Zenon
<1>10. \A x \in Keys(FlattenSeq(lines)) : \E m : x = <<m, <<pname, channel.id>> >>
  BY <1>5, <1>6, <1>9
<1>11. FlattenSeq(lines) \in Seq(Series)
  BY <1>6, FlattenTyped
<1> QED
  BY <1>7, <1>9, <1>10, <1>11 DEF pname

\* What the series of a producer look like.
OfProducer(i, x) ==
    \/ \E name \in {"node_poll_success_total", "node_poll_failure_total",
                    "node_last_heard_age_ms", "node_rssi", "node_snr"} :
           x = <<name, <<Producers[i].name>> >>
    \/ \E m, id : x = <<m, <<Producers[i].name, id>> >>

LEMMA ProducerUnique ==
    ASSUME StoreInv, NEW i \in Ids, NEW uptime \in Nat
    PROVE  /\ ProducerSamples(i, uptime) \in Seq(Series)
           /\ Unique(ProducerSamples(i, uptime))
           /\ \A x \in Keys(ProducerSamples(i, uptime)) : OfProducer(i, x)
<1> DEFINE t == records[i]
           pname == Producers[i].name
           succeeded == NodeSample("node_poll_success_total", i, totals[i].success)
           failed == NodeSample("node_poll_failure_total", i, totals[i].failure)
           polls == <<succeeded, failed>>
           age == NodeSample("node_last_heard_age_ms", i, Age(uptime, t.heard))
           rssi == NodeSample("node_rssi", i, t.signal)
           snr == NodeSample("node_snr", i, t.signal)
           link == <<age, rssi, snr>>
           each == [k \in DOMAIN t.channels |-> ChannelSamples(i, t.channels[k])]
           of == FlattenSeq(each)
<1>1. pname \in Labels /\ <<pname>> \in Seq(Labels)
  <2>1. pname \in Labels
    BY ProducerNamed
  <2> QED
    BY <2>1
<1>2. totals[i].success \in Nat /\ totals[i].failure \in Nat
  BY DEF StoreInv, StoreTypeOK
<1>3. ASSUME NEW name \in Words, NEW value \in Nat \cup {Unset}
      PROVE  /\ NodeSample(name, i, value) \in Series
             /\ Key(NodeSample(name, i, value)) = <<name, <<pname>> >>
  <2>1. NodeSample(name, i, value) = [name |-> name, labels |-> <<pname>>, value |-> value]
    BY DEF NodeSample
  <2> QED
    BY <1>1, <2>1 DEF Series, Key
<1>4. /\ "node_poll_success_total" \in Words /\ "node_poll_failure_total" \in Words
      /\ "node_last_heard_age_ms" \in Words /\ "node_rssi" \in Words /\ "node_snr" \in Words
  BY DEF Words
<1>5. /\ succeeded \in Series /\ Key(succeeded) = <<"node_poll_success_total", <<pname>> >>
      /\ failed \in Series /\ Key(failed) = <<"node_poll_failure_total", <<pname>> >>
  BY <1>2, <1>3, <1>4
<1>6. Unique(polls) /\ Keys(polls) = {Key(succeeded), Key(failed)}
  <2>1. NodeSample("node_rssi", i, 0) \in Series
        /\ Key(NodeSample("node_rssi", i, 0)) = <<"node_rssi", <<pname>> >>
    BY <1>3, <1>4
  <2>2. \E other \in Series : Key(other) # Key(succeeded) /\ Key(other) # Key(failed)
    BY <1>5, <2>1
  <2>3. Key(succeeded) # Key(failed)
    BY <1>5
  <2> HIDE DEF succeeded, failed
  <2> QED
    BY <1>5, <2>2, <2>3, FewUnique
<1>7. \A x \in Keys(polls) : OfProducer(i, x)
  BY <1>5, <1>6 DEF OfProducer
<1>8. polls \in Seq(Series)
  BY <1>6, Zenon DEF Unique
<1> HIDE DEF succeeded, failed, polls
<1>9. CASE t = None
  <2>1. ProducerSamples(i, uptime) = polls \o <<>>
    BY <1>9, Zenon DEF ProducerSamples, polls, succeeded, failed
  <2>2. ProducerSamples(i, uptime) = polls
    BY <1>8, <2>1
  <2> QED
    BY <1>6, <1>7, <1>8, <2>2
<1>10. CASE t # None
  <2>1. t \in Telemetries /\ IsTable(t.channels)
    <3>1. t \in Telemetries
      BY <1>10 DEF StoreInv, StoreTypeOK
    <3>2. IsTable(t.channels)
      BY <1>10, Zenon DEF StoreInv, Recorded
    <3> QED
      BY <3>1, <3>2
  <2>2. t.heard \in Nat /\ t.signal \in Nat \cup {Unset}
    BY <2>1, TelemetryTyped
  <2>3. Age(uptime, t.heard) \in Nat
    BY <2>2 DEF Age
  <2>4. /\ age \in Series /\ Key(age) = <<"node_last_heard_age_ms", <<pname>> >>
        /\ rssi \in Series /\ Key(rssi) = <<"node_rssi", <<pname>> >>
        /\ snr \in Series /\ Key(snr) = <<"node_snr", <<pname>> >>
    BY <1>3, <1>4, <2>2, <2>3, Zenon
  <2>5. Unique(link) /\ Keys(link) = {Key(age), Key(rssi), Key(snr)}
    <3>1. Key(age) # Key(rssi) /\ Key(age) # Key(snr) /\ Key(rssi) # Key(snr)
      BY <2>4
    <3> HIDE DEF age, rssi, snr
    <3> QED
      BY <2>4, <3>1, FewUnique
  <2>6. \A x \in Keys(link) : OfProducer(i, x)
    BY <2>4, <2>5 DEF OfProducer
  <2> DEFINE channels == t.channels
             n == Len(channels)
  <2>7. /\ n \in Nat /\ DOMAIN channels = 1..n
        /\ \A k \in 1..n : channels[k] \in Channel
        /\ \A j, k \in 1..n : channels[j].id = channels[k].id => j = k
    <3>1. DOMAIN channels = 1..n
      BY <2>1 DEF IsTable
    <3> QED
      BY <2>1, <3>1, TableFacts, Zenon
  <2> HIDE DEF age, rssi, snr, link, channels, n
  <2> DEFINE One(k) == ChannelSamples(i, channels[k])
  <2>8. \A k \in 1..n : /\ One(k) \in Seq(Series) /\ Unique(One(k))
                        /\ \A x \in Keys(One(k)) : \E m : x = <<m, <<pname, channels[k].id>> >>
    BY <2>7, ChannelUnique, Zenon
  <2> HIDE DEF One
  <2>9. each \in Seq(Seq(Series)) /\ Len(each) = n /\ \A k \in 1..n : each[k] = One(k)
    <3> DEFINE T == Seq(Series)
    <3>1. \A k \in 1..n : One(k) \in T
      BY <2>8
    <3>2. each = [k \in 1..n |-> One(k)]
      BY <2>7, Zenon DEF One, channels
    <3> HIDE DEF T, each
    <3>3. each \in Seq(T) /\ Len(each) = n /\ \A k \in 1..n : each[k] = One(k)
      BY <2>7, <3>1, <3>2
    <3> QED
      BY <3>3 DEF T
  <2> HIDE DEF each
  <2>10. Parts(each)
    <3>1. ASSUME NEW j \in 1..n, NEW k \in 1..n, j # k
          PROVE  Keys(One(j)) \cap Keys(One(k)) = {}
      <4> SUFFICES ASSUME NEW x \in Keys(One(j)), x \in Keys(One(k)) PROVE FALSE
        OBVIOUS
      <4>1. PICK a : x = <<a, <<pname, channels[j].id>> >>
        BY <2>8
      <4>2. PICK b : x = <<b, <<pname, channels[k].id>> >>
        BY <2>8
      <4>3. <<pname, channels[j].id>> = <<pname, channels[k].id>>
        BY <4>1, <4>2
      <4>4. channels[j].id = channels[k].id
        BY <4>3, LabelsDiffer
      <4> QED
        BY <2>7, <3>1, <4>4
    <3> QED
      BY <2>8, <2>9, <3>1 DEF Parts
  <2>11. /\ Unique(of)
         /\ \A x \in Keys(of) : \E k \in 1..Len(each) : x \in Keys(each[k])
    BY <2>9, <2>10, UniqueFlatten, Zenon
  <2> HIDE DEF of
  <2>12. \A x \in Keys(of) : \E m, id : x = <<m, <<pname, id>> >>
    BY <2>8, <2>9, <2>11
  <2>13. \A x \in Keys(of) : OfProducer(i, x)
    BY <2>12, Zenon DEF OfProducer
  <2>14. \A x \in Keys(of) : x \notin Keys(polls) /\ x \notin Keys(link)
    <3> SUFFICES ASSUME NEW x \in Keys(of) PROVE x \notin Keys(polls) /\ x \notin Keys(link)
      OBVIOUS
    <3>1. PICK m, id : x = <<m, <<pname, id>> >>
      BY <2>12
    <3>2. <<pname>> # <<pname, id>>
      BY LabelsDiffer
    <3>3. \A name : x # <<name, <<pname>> >>
      BY <3>1, <3>2
    <3> QED
      BY <1>5, <1>6, <2>4, <2>5, <3>3
  <2>15. Unique(link \o of) /\ Keys(link \o of) = Keys(link) \cup Keys(of)
    <3>1. Keys(link) \cap Keys(of) = {}
      BY <2>14
    <3> QED
      BY <2>5, <2>11, <3>1, UniqueConcat, Zenon
  <2> DEFINE rest == link \o of
             all == polls \o rest
  <2> HIDE DEF rest
  <2>16. Keys(polls) \cap Keys(rest) = {}
    <3>1. Keys(polls) \cap Keys(link) = {}
      BY <1>5, <1>6, <2>4, <2>5
    <3> QED
      BY <2>14, <2>15, <3>1 DEF rest
  <2>17. Unique(all) /\ Keys(all) = Keys(polls) \cup Keys(rest)
    BY <1>6, <2>15, <2>16, UniqueConcat, Zenon DEF rest
  <2>18. ProducerSamples(i, uptime) = all
    BY <1>10, Zenon DEF ProducerSamples, polls, succeeded, failed, rest, link, age, rssi, snr,
                        of, each
  <2>19. all \in Seq(Series)
    BY <2>17, Zenon DEF Unique
  <2>20. \A x \in Keys(all) : OfProducer(i, x)
    BY <1>7, <2>6, <2>13, <2>15, <2>17 DEF rest
  <2> HIDE DEF all
  <2> QED
    BY <2>17, <2>18, <2>19, <2>20
<1> QED
  BY <1>9, <1>10

\* A series tells the name of its producer.
LEMMA SharedName ==
    ASSUME NEW i \in Ids, NEW j \in Ids, NEW x, OfProducer(i, x), OfProducer(j, x)
    PROVE  Producers[i].name = Producers[j].name
<1> SUFFICES ASSUME Producers[i].name # Producers[j].name PROVE FALSE
  OBVIOUS
<1> DEFINE a == Producers[i].name
           b == Producers[j].name
<1>1. \A c, d : <<a>> # <<b>> /\ <<a>> # <<b, c>> /\ <<b>> # <<a, c>> /\ <<a, c>> # <<b, d>>
  BY LabelsDiffer
<1> QED
  BY <1>1 DEF OfProducer

LEMMA GatewayApart ==
    ASSUME NEW i \in Ids, NEW x, OfProducer(i, x)
    PROVE  ~OfGateway(x)
<1> DEFINE a == Producers[i].name
<1>1. \A c, d : <<>> # <<a>> /\ <<>> # <<a, c>> /\ <<d>> # <<a, c>>
  BY LabelsDiffer
<1>2. CASE \E name \in {"node_poll_success_total", "node_poll_failure_total",
                        "node_last_heard_age_ms", "node_rssi", "node_snr"} :
               x = <<name, <<a>> >>
  BY <1>1, <1>2 DEF OfGateway
<1>3. CASE \E m, id : x = <<m, <<a, id>> >>
  BY <1>1, <1>3 DEF OfGateway
<1> QED
  BY <1>2, <1>3 DEF OfProducer

\* A part of the page with no series twice has as many series as samples.
LEMMA OnceCounted ==
    ASSUME NEW part, Unique(part)
    PROVE  SeriesOf(part) = Keys(part) /\ Cardinality(SeriesOf(part)) = Len(part)
<1> DEFINE l == Len(part)
           f == [k \in 1..l |-> Key(part[k])]
           keys == SeriesOf(part)
<1>1. l \in Nat /\ DOMAIN part = 1..l
  BY DEF Unique
<1>2. \A j, k \in 1..l : Key(part[j]) = Key(part[k]) => j = k
  BY Zenon DEF Unique
<1>3. keys = {Key(part[k]) : k \in 1..l}
  BY <1>1, Zenon DEF Key, SeriesOf
<1> HIDE DEF keys
<1>4. f \in Bijection(1..l, keys)
  BY <1>2, <1>3 DEF Bijection, Injection, Surjection, IsInjective
<1>5. ExistsBijection(1..l, keys)
  BY <1>4, Zenon DEF ExistsBijection
<1>6. IsFiniteSet(1..l) /\ Cardinality(1..l) = l
  <2>1. 1 \in Int /\ l \in Int
    BY <1>1
  <2>2. /\ IsFiniteSet(1..l)
        /\ Cardinality(1..l) = IF 1 > l THEN 0 ELSE l - 1 + 1
    BY <2>1, FS_Interval, Zenon
  <2> QED
    BY <1>1, <2>2
<1> HIDE DEF l
<1>7. Cardinality(keys) = l
  BY <1>5, <1>6, FS_Bijection, Zenon
<1> QED
  BY <1>3, <1>7, Zenon DEF keys, l, Keys

\* Whatever was reported of whatever channels, and with every optional line there, the page
\* names no series of the gateway or of one producer twice, and no series of two producers
\* that differ in name (update_channel, write_producer_metrics).
THEOREM SeriesNamedOnce == StoreSpec => []SeriesOnce
<1>1. ASSUME StoreInv PROVE SeriesOnce
  <2> DEFINE gateway == GatewaySamples(now)
             One(i) == ProducerSamples(i, now)
             own == [i \in Ids |-> One(i)]
  <2>1. now \in Nat
    BY <1>1, StoreBounds DEF StoreInv, StoreTypeOK
  <2>2. Unique(gateway) /\ \A x \in Keys(gateway) : OfGateway(x)
    BY <2>1, GatewayUnique, Zenon
  <2>3. \A i \in Ids : Unique(One(i)) /\ \A x \in Keys(One(i)) : OfProducer(i, x)
    BY <1>1, <2>1, ProducerUnique, Zenon
  <2> HIDE DEF gateway, One
  <2>4. ASSUME NEW i \in Ids
        PROVE  Cardinality(SeriesOf(gateway \o own[i])) = Len(gateway \o own[i])
    <3>1. own[i] = One(i)
      OBVIOUS
    <3>2. Keys(gateway) \cap Keys(One(i)) = {}
      BY <2>2, <2>3, GatewayApart
    <3>3. Unique(gateway \o One(i))
      BY <2>2, <2>3, <3>2, UniqueConcat, Zenon
    <3> QED
      BY <3>1, <3>3, OnceCounted, Zenon
  <2>5. ASSUME NEW i \in Ids, NEW j \in Ids, SeriesOf(own[i]) \cap SeriesOf(own[j]) # {}
        PROVE  Producers[i].name = Producers[j].name
    <3>1. own[i] = One(i) /\ own[j] = One(j)
      OBVIOUS
    <3>2. SeriesOf(own[i]) = Keys(One(i)) /\ SeriesOf(own[j]) = Keys(One(j))
      BY <2>3, <3>1, OnceCounted, Zenon
    <3> HIDE DEF own
    <3>3. PICK x : x \in Keys(One(i)) /\ x \in Keys(One(j))
      BY <2>5, <3>2
    <3> QED
      BY <2>3, <3>3, SharedName, Zenon
  <2>6. own = [i \in Ids |-> ProducerSamples(i, now)]
    BY Zenon DEF One
  <2> HIDE DEF own
  <2> QED
    BY <2>4, <2>5, <2>6, Zenon DEF SeriesOnce, PageUptime, gateway
<1> QED
  BY StoreInvariance, <1>1, PTL
=============================================================================

-------------------------- MODULE SingleLeaderProofs ---------------------------
(****************************************************************************)
(* With one leader, and no readmission of suspected nodes, every follower's *)
(* file is a prefix of the leader's, for clusters of any size and any       *)
(* number of rounds, and the consensus implements ReplicatedLog.            *)
(****************************************************************************)
EXTENDS SingleLeader, ConsensusProofs

\* Two different nodes have an entry for each other in their tables.
LEMMA IndexType ==
  ASSUME NEW a \in Node, NEW b \in Node, a # b
  PROVE  idToIndex(a, b) \in Index
BY ClusterSizeAssumption DEF idToIndex, Index, Node

\* The leader is a node, and every other node is a follower.
LEMMA LeaderAndFollowers ==
  /\ Leader \in Node
  /\ \A f \in Follower : f \in Node /\ f # Leader
  /\ \A n \in Node : n # Leader => n \in Follower
BY SingleLeaderAssumption DEF Follower

--------------------------------------------------------------------------------
(* What taking a message does to each channel.                              *)

\* The channel loses its first message, the others nothing.
LEMMA ConsumeEffect ==
  ASSUME NEW chan \in Channels, NEW s \in Node, NEW d \in Node,
         NEW a \in Node, NEW b \in Node
  PROVE  consume(chan, s, d)[a][b] =
           IF a = s /\ b = d THEN Tail(chan[a][b]) ELSE chan[a][b]
BY DEF consume, Channels

--------------------------------------------------------------------------------
(* How the lines under way to one follower change.                          *)

FollowerInv(f) ==
  /\ LinesAreWritten(f)
  /\ LinesAscend(f)
  /\ LinesFollow(f)
  /\ NoLineMissing(f)

\* The steps that neither add nor remove a line: the ones f has are kept.
LEMMA QuietStep ==
  ASSUME TypeInv, NEW f \in Follower, FollowerInv(f),
         Lines(f)' = Lines(f),
         \A k \in Lines(f) : net'[Leader][f][k] = net[Leader][f][k],
         Sent' = Sent,
         \A p \in 1 .. Sent : log'[Leader][p] = log[Leader][p],
         log'[f] = log[f],
         Listening(f)' => Listening(f),
         processIsAlive'[Leader][idToIndex(Leader, f)]
           => processIsAlive[Leader][idToIndex(Leader, f)]
  PROVE  FollowerInv(f)'
<1>1. LinesAreWritten(f)'
  <2>1. (Len(log[f]) <= Sent)'
    BY DEF FollowerInv, LinesAreWritten
  <2>2. ASSUME NEW k \in Lines(f)'
        PROVE  /\ LineNo(f, k)' = LineNo(f, k)
               /\ LineNo(f, k) \in 1 .. Sent
               /\ net[Leader][f][k].value = log[Leader][LineNo(f, k)]
    BY <2>2 DEF FollowerInv, LinesAreWritten, LineNo
  <2>3. ASSUME NEW k \in Lines(f)'
        PROVE  /\ (LineNo(f, k) \in 1 .. Sent)'
               /\ (net[Leader][f][k].value = log[Leader][LineNo(f, k)])'
    BY <2>2, <2>3
  <2> QED
    BY <2>1, <2>3 DEF LinesAreWritten
<1>2. LinesAscend(f)'
  BY DEF FollowerInv, LinesAscend, LineNo
<1>3. LinesFollow(f)'
  BY DEF FollowerInv, LinesFollow, LineNo
<1>4. NoLineMissing(f)'
  BY DEF FollowerInv, NoLineMissing, LineNo
<1> QED
  BY <1>1, <1>2, <1>3, <1>4 DEF FollowerInv

\* A message that is not a line, behind the others.
LEMMA AppendLines ==
  ASSUME TypeInv, NEW f \in Follower, NEW m, m.code # "ACCEPTED",
         net'[Leader][f] = Append(net[Leader][f], m)
  PROVE  /\ Lines(f)' = Lines(f)
         /\ \A k \in Lines(f) : net'[Leader][f][k] = net[Leader][f][k]
<1>1. net[Leader][f] \in Seq(Message)
  BY LeaderAndFollowers DEF TypeInv, TypeOK
<1>2. DOMAIN Append(net[Leader][f], m) = 1 .. Len(net[Leader][f]) + 1
  BY <1>1
<1>3. \A k \in DOMAIN net[Leader][f] : net'[Leader][f][k] = net[Leader][f][k]
  BY <1>1
<1>4. net'[Leader][f][Len(net[Leader][f]) + 1] = m
  BY <1>1
<1> QED
  BY <1>1, <1>2, <1>3, <1>4 DEF Lines

\* The first message is taken off.
LEMMA TailLines ==
  ASSUME TypeInv, NEW f \in Follower, net[Leader][f] # << >>,
         net'[Leader][f] = Tail(net[Leader][f])
  PROVE  /\ \A k \in Lines(f)' : /\ k + 1 \in Lines(f)
                                 /\ net'[Leader][f][k] = net[Leader][f][k + 1]
         /\ \A k \in Lines(f) : k = 1 \/ k - 1 \in Lines(f)'
         /\ Lines(f) \subseteq Nat \ {0}
         /\ Lines(f)' \subseteq Nat \ {0}
<1>1. net[Leader][f] \in Seq(Message)
  BY LeaderAndFollowers DEF TypeInv, TypeOK
<1>2. /\ Len(net[Leader][f]) \in Nat \ {0}
      /\ DOMAIN net[Leader][f] = 1 .. Len(net[Leader][f])
      /\ DOMAIN net'[Leader][f] = 1 .. Len(net[Leader][f]) - 1
      /\ \A k \in 1 .. Len(net[Leader][f]) - 1 :
           net'[Leader][f][k] = net[Leader][f][k + 1]
  BY <1>1
<1>3. Lines(f) \subseteq Nat \ {0} /\ Lines(f)' \subseteq Nat \ {0}
  BY <1>2 DEF Lines
<1>4. ASSUME NEW k \in Lines(f)'
      PROVE  k + 1 \in Lines(f) /\ net'[Leader][f][k] = net[Leader][f][k + 1]
  <2>1. k \in 1 .. Len(net[Leader][f]) - 1 /\ net'[Leader][f][k].code = "ACCEPTED"
    BY <1>2 DEF Lines
  <2>2. k + 1 \in 1 .. Len(net[Leader][f])
    BY <1>2, <2>1
  <2> QED
    BY <1>2, <2>1, <2>2 DEF Lines
<1>5. ASSUME NEW k \in Lines(f), k # 1 PROVE k - 1 \in Lines(f)'
  <2>1. k \in 1 .. Len(net[Leader][f]) /\ net[Leader][f][k].code = "ACCEPTED"
    BY <1>2 DEF Lines
  <2>2. k - 1 \in 1 .. Len(net[Leader][f]) - 1 /\ (k - 1) + 1 = k
    BY <1>2, <1>5, <2>1
  <2> QED
    BY <1>2, <2>1, <2>2 DEF Lines
<1> QED
  BY <1>3, <1>4, <1>5

\* f takes a message that is no line, or drops one and hears no more.
LEMMA TailQuietStep ==
  ASSUME TypeInv, NEW f \in Follower, FollowerInv(f),
         net[Leader][f] # << >>,
         net'[Leader][f] = Tail(net[Leader][f]),
         UNCHANGED <<clientThread, processIsAlive, log>>,
         Listening(f)' => Listening(f) /\ 1 \notin Lines(f)
  PROVE  FollowerInv(f)'
<1>1. /\ Sent' = Sent
      /\ log'[Leader] = log[Leader]
      /\ log'[f] = log[f]
      /\ Len(log[f]) \in Nat
      /\ Sent \in Int
  BY LeaderAndFollowers DEF Sent, clientThread, TypeInv, TypeOK
<1>2. \A k \in Lines(f)' : k + 1 \in Lines(f) /\ LineNo(f, k)' = LineNo(f, k + 1)
  BY TailLines DEF LineNo
<1>3. ASSUME NEW k \in Lines(f), k # 1
      PROVE  k - 1 \in Lines(f)' /\ LineNo(f, k - 1)' = LineNo(f, k)
  <2>1. k - 1 \in Lines(f)' /\ k \in Nat
    BY <1>3, TailLines
  <2>2. net'[Leader][f][k - 1] = net[Leader][f][(k - 1) + 1]
    BY <2>1, TailLines
  <2>3. (k - 1) + 1 = k
    BY <2>1
  <2>4. net'[Leader][f][k - 1] = net[Leader][f][k]
    BY <2>2, <2>3
  <2> QED
    BY <2>1, <2>4 DEF LineNo
<1>4. LinesAreWritten(f)'
  BY <1>1, <1>2, TailLines DEF FollowerInv, LinesAreWritten
<1>5. LinesAscend(f)'
  <2> SUFFICES ASSUME NEW i \in Lines(f)', NEW j \in Lines(f)', i < j
               PROVE  LineNo(f, i)' < LineNo(f, j)'
    BY DEF LinesAscend
  <2>1. i + 1 < j + 1
    BY TailLines
  <2> QED
    BY <1>2, <2>1 DEF FollowerInv, LinesAscend
<1>6. LinesFollow(f)'
  <2> SUFFICES ASSUME Listening(f)', NEW k \in Lines(f)'
               PROVE  /\ LineNo(f, k)' > Len(log[f])
                      /\ \A p \in Len(log[f]) + 1 .. LineNo(f, k)' :
                           \E i \in Lines(f)' : i <= k /\ LineNo(f, i)' = p
    BY <1>1 DEF LinesFollow
  <2>1. LineNo(f, k)' > Len(log[f])
    BY <1>2 DEF FollowerInv, LinesFollow
  <2>2. ASSUME NEW p \in Len(log[f]) + 1 .. LineNo(f, k)'
        PROVE  \E i \in Lines(f)' : i <= k /\ LineNo(f, i)' = p
    <3>1. PICK j \in Lines(f) : j <= k + 1 /\ LineNo(f, j) = p
      BY <1>2, <2>2 DEF FollowerInv, LinesFollow
    <3>2. j - 1 \in Lines(f)' /\ LineNo(f, j - 1)' = p
      BY <1>3, <3>1
    <3>3. j - 1 <= k
      BY <3>1, TailLines
    <3> QED
      BY <3>2, <3>3
  <2> QED
    BY <2>1, <2>2
<1>7. NoLineMissing(f)'
  <2> SUFFICES ASSUME Listening(f)',
                      processIsAlive[Leader][idToIndex(Leader, f)],
                      NEW p \in Len(log[f]) + 1 .. Sent
               PROVE  \E i \in Lines(f)' : LineNo(f, i)' = p
    BY <1>1 DEF NoLineMissing
  <2>1. PICK j \in Lines(f) : LineNo(f, j) = p
    BY DEF FollowerInv, NoLineMissing
  <2> QED
    BY <1>3, <2>1
<1> QED
  BY <1>4, <1>5, <1>6, <1>7 DEF FollowerInv

(****************************************************************************)
(* f writes the line it has received: it is the next line of the leader's   *)
(* file, and the ones behind it still follow.                               *)
(****************************************************************************)
LEMMA WriteLineStep ==
  ASSUME TypeInv, NEW f \in Follower, FollowerInv(f),
         Listening(f), 1 \in Lines(f),
         net'[Leader][f] = Tail(net[Leader][f]),
         UNCHANGED <<clientThread, processIsAlive>>,
         log' = [log EXCEPT ![f] = Append(@, net[Leader][f][1].value)],
         Listening(f)' => Listening(f)
  PROVE  /\ FollowerInv(f)'
         /\ Len(log[f]) < Len(log[Leader])
         /\ net[Leader][f][1].value = log[Leader][Len(log[f]) + 1]
<1>0. /\ log \in [Node -> Seq(Value)]
      /\ net[Leader][f] \in Seq(Message)
      /\ f # Leader /\ f \in Node /\ Leader \in Node
      /\ 1 \in DOMAIN net[Leader][f]
  BY LeaderAndFollowers DEF TypeInv, TypeOK, Lines
<1>1. /\ Sent' = Sent
      /\ log'[Leader] = log[Leader]
      /\ log[f] \in Seq(Value)
      /\ Len(log[f]) \in Nat
      /\ Sent \in Int
      /\ Sent <= Len(log[Leader])
  BY <1>0 DEF Sent, clientThread
<1>2. net[Leader][f] # << >>
  BY <1>0
<1>3. net[Leader][f][1] \in Message
  BY <1>0
<1>4. Len(log'[f]) = Len(log[f]) + 1
  BY <1>0, <1>1
<1>5. LineNo(f, 1) = Len(log[f]) + 1
  <2>1. LineNo(f, 1) > Len(log[f]) /\ LineNo(f, 1) \in Int
    BY DEF FollowerInv, LinesFollow, LinesAreWritten
  <2>2. PICK i \in Lines(f) : i <= 1 /\ LineNo(f, i) = Len(log[f]) + 1
    BY <1>1, <2>1 DEF FollowerInv, LinesFollow
  <2>3. i = 1
    BY <1>2, <2>2, TailLines
  <2> QED
    BY <2>2, <2>3
<1>6. /\ Len(log[f]) < Len(log[Leader])
      /\ net[Leader][f][1].value = log[Leader][Len(log[f]) + 1]
  BY <1>1, <1>5 DEF FollowerInv, LinesAreWritten
<1>7. \A k \in Lines(f)' : k + 1 \in Lines(f) /\ LineNo(f, k)' = LineNo(f, k + 1)
  BY <1>2, TailLines DEF LineNo
<1>8. ASSUME NEW k \in Lines(f), k # 1
      PROVE  k - 1 \in Lines(f)' /\ LineNo(f, k - 1)' = LineNo(f, k)
  <2>1. k - 1 \in Lines(f)' /\ k \in Nat
    BY <1>2, <1>8, TailLines
  <2>2. net'[Leader][f][k - 1] = net[Leader][f][(k - 1) + 1]
    BY <1>2, <2>1, TailLines
  <2>3. (k - 1) + 1 = k
    BY <2>1
  <2>4. net'[Leader][f][k - 1] = net[Leader][f][k]
    BY <2>2, <2>3
  <2> QED
    BY <2>1, <2>4 DEF LineNo
<1>9. LinesAreWritten(f)'
  <2>1. Len(log'[f]) <= Sent'
    BY <1>1, <1>4, <1>5 DEF FollowerInv, LinesAreWritten
  <2>2. ASSUME NEW k \in Lines(f)'
        PROVE  /\ LineNo(f, k)' \in 1 .. Sent'
               /\ net'[Leader][f][k].value = log'[Leader][LineNo(f, k)']
    <3>1. net'[Leader][f][k] = net[Leader][f][k + 1]
      BY <1>2, TailLines
    <3> QED
      BY <1>1, <1>7, <3>1 DEF FollowerInv, LinesAreWritten
  <2> QED
    BY <2>1, <2>2 DEF LinesAreWritten
<1>10. LinesAscend(f)'
  <2> SUFFICES ASSUME NEW i \in Lines(f)', NEW j \in Lines(f)', i < j
               PROVE  LineNo(f, i)' < LineNo(f, j)'
    BY DEF LinesAscend
  <2>1. i + 1 < j + 1
    BY <1>2, TailLines
  <2> QED
    BY <1>7, <2>1 DEF FollowerInv, LinesAscend
<1>11. LinesFollow(f)'
  <2> SUFFICES ASSUME NEW k \in Lines(f)'
               PROVE  /\ LineNo(f, k)' > Len(log[f]) + 1
                      /\ \A p \in Len(log[f]) + 2 .. LineNo(f, k)' :
                           \E i \in Lines(f)' : i <= k /\ LineNo(f, i)' = p
    BY <1>1, <1>4 DEF LinesFollow
  <2>0. k \in Nat \ {0} /\ k + 1 \in Lines(f)
    BY <1>2, TailLines
  <2>1. LineNo(f, k)' > Len(log[f]) + 1
    BY <1>5, <1>7, <2>0 DEF FollowerInv, LinesAscend
  <2>2. ASSUME NEW p \in Len(log[f]) + 2 .. LineNo(f, k)'
        PROVE  \E i \in Lines(f)' : i <= k /\ LineNo(f, i)' = p
    <3>1. p \in Len(log[f]) + 1 .. LineNo(f, k + 1)
      BY <1>1, <1>7, <2>2
    <3>2. PICK j \in Lines(f) : j <= k + 1 /\ LineNo(f, j) = p
      BY <2>0, <3>1 DEF FollowerInv, LinesFollow
    <3>3. j # 1
      BY <1>1, <1>5, <2>2, <3>2
    <3>4. j - 1 \in Lines(f)' /\ LineNo(f, j - 1)' = p
      BY <1>8, <3>2, <3>3
    <3>5. j - 1 <= k
      BY <1>2, <2>0, <3>2, TailLines
    <3> QED
      BY <3>4, <3>5
  <2> QED
    BY <2>1, <2>2
<1>12. NoLineMissing(f)'
  <2> SUFFICES ASSUME processIsAlive[Leader][idToIndex(Leader, f)],
                      NEW p \in Len(log[f]) + 2 .. Sent
               PROVE  \E i \in Lines(f)' : LineNo(f, i)' = p
    BY <1>1, <1>4 DEF NoLineMissing
  <2>1. PICK j \in Lines(f) : LineNo(f, j) = p
    BY <1>1 DEF FollowerInv, NoLineMissing
  <2>2. j # 1
    BY <1>1, <1>5, <2>1
  <2> QED
    BY <1>8, <2>1, <2>2
<1> QED
  BY <1>6, <1>9, <1>10, <1>11, <1>12 DEF FollowerInv

(****************************************************************************)
(* The leader broadcasts the line it has just written: it goes behind the   *)
(* lines under way to f, or f is cut off and gets no line any more.         *)
(****************************************************************************)
LEMMA SendLineStep ==
  ASSUME TypeInv, NEW f \in Follower, FollowerInv(f), LastLineIsValue,
         phase[Leader] = "accepted", phase'[Leader] = "reset",
         UNCHANGED <<log, handling, processIsAlive>>,
         NEW m, m.code = "ACCEPTED", m.value = value[Leader],
         m.pos = Len(log[Leader]),
         \/ net'[Leader][f] = Append(net[Leader][f], m)
            /\ processIsAlive[Leader][idToIndex(Leader, f)]
         \/ net'[Leader][f] = net[Leader][f]
            /\ ~ processIsAlive[Leader][idToIndex(Leader, f)]
  PROVE  FollowerInv(f)'
<1>0. /\ net[Leader][f] \in Seq(Message)
      /\ Len(log[Leader]) \in Nat
      /\ Len(log[f]) \in Nat
      /\ Sent' = Sent + 1
      /\ Sent + 1 = Len(log[Leader])
      /\ Sent \in Nat
      /\ log[Leader][Sent + 1] = m.value
      /\ m.pos = Sent + 1
  BY LeaderAndFollowers DEF TypeInv, TypeOK, Sent, LastLineIsValue
<1>1. CASE /\ net'[Leader][f] = net[Leader][f]
           /\ ~ processIsAlive[Leader][idToIndex(Leader, f)]
  <2>1. Lines(f)' = Lines(f) /\ \A k : LineNo(f, k)' = LineNo(f, k)
    BY <1>1 DEF Lines, LineNo
  <2>2. LinesAreWritten(f)'
    BY <1>0, <1>1, <2>1 DEF FollowerInv, LinesAreWritten
  <2>3. LinesAscend(f)'
    BY <2>1 DEF FollowerInv, LinesAscend
  <2>4. LinesFollow(f)'
    BY <2>1 DEF FollowerInv, LinesFollow, Listening
  <2>5. NoLineMissing(f)'
    BY <1>1 DEF NoLineMissing
  <2> QED
    BY <2>2, <2>3, <2>4, <2>5 DEF FollowerInv
<1>2. CASE /\ net'[Leader][f] = Append(net[Leader][f], m)
           /\ processIsAlive[Leader][idToIndex(Leader, f)]
  <2>0. PICK last \in Nat : last = Len(net[Leader][f]) + 1
    BY <1>0
  <2>1. /\ DOMAIN net'[Leader][f] = 1 .. last
        /\ \A k \in 1 .. Len(net[Leader][f]) :
             net'[Leader][f][k] = net[Leader][f][k]
        /\ net'[Leader][f][last] = m
        /\ last - 1 = Len(net[Leader][f])
        /\ DOMAIN net[Leader][f] = 1 .. last - 1
    BY <1>0, <1>2, <2>0
  <2>2. /\ Lines(f)' = Lines(f) \cup {last}
        /\ \A k \in Lines(f) : k \in 1 .. last - 1
        /\ last \notin Lines(f)
    <3>1. \A k \in 1 .. last : k = last \/ k \in 1 .. last - 1
      OBVIOUS
    <3> QED
      BY <2>1, <3>1 DEF Lines
  <2>3. \A k \in Lines(f) : /\ LineNo(f, k)' = LineNo(f, k)
                            /\ net'[Leader][f][k] = net[Leader][f][k]
    BY <2>1, <2>2 DEF LineNo
  <2>4. LineNo(f, last)' = Sent + 1
    BY <1>0, <2>1 DEF LineNo
  <2>5. \A k \in Lines(f) : LineNo(f, k) \in 1 .. Sent
    BY DEF FollowerInv, LinesAreWritten
  <2>6. LinesAreWritten(f)'
    <3>1. ASSUME NEW k \in Lines(f)'
          PROVE  /\ LineNo(f, k)' \in 1 .. Sent + 1
                 /\ net'[Leader][f][k].value = log[Leader][LineNo(f, k)']
      <4>1. CASE k \in Lines(f)
        BY <1>0, <2>3, <2>5, <4>1 DEF FollowerInv, LinesAreWritten
      <4>2. CASE k = last
        BY <1>0, <2>1, <2>4, <4>2
      <4> QED
        BY <2>2, <4>1, <4>2
    <3> QED
      BY <1>0, <3>1 DEF FollowerInv, LinesAreWritten
  <2>7. LinesAscend(f)'
    <3> SUFFICES ASSUME NEW i \in Lines(f)', NEW j \in Lines(f)', i < j
                 PROVE  LineNo(f, i)' < LineNo(f, j)'
      BY DEF LinesAscend
    <3>1. i \in Lines(f)
      BY <2>1, <2>2
    <3>2. CASE j \in Lines(f)
      BY <2>3, <3>1, <3>2 DEF FollowerInv, LinesAscend
    <3>3. CASE j = last
      BY <1>0, <2>3, <2>4, <2>5, <3>1, <3>3
    <3> QED
      BY <2>2, <3>2, <3>3
  <2>8. ASSUME Listening(f), NEW p \in Len(log[f]) + 1 .. Sent
        PROVE  \E i \in Lines(f) : LineNo(f, i)' = p
    BY <1>2, <2>3, <2>8 DEF FollowerInv, NoLineMissing
  <2>9. LinesFollow(f)'
    <3> SUFFICES ASSUME Listening(f), NEW k \in Lines(f)'
                 PROVE  /\ LineNo(f, k)' > Len(log[f])
                        /\ \A p \in Len(log[f]) + 1 .. LineNo(f, k)' :
                             \E i \in Lines(f)' : i <= k /\ LineNo(f, i)' = p
      BY DEF LinesFollow, Listening
    <3>1. CASE k \in Lines(f)
      BY <2>2, <2>3, <3>1 DEF FollowerInv, LinesFollow
    <3>2. CASE k = last
      <4>1. LineNo(f, k)' > Len(log[f])
        BY <1>0, <2>4, <3>2 DEF FollowerInv, LinesAreWritten
      <4>2. ASSUME NEW p \in Len(log[f]) + 1 .. LineNo(f, k)'
            PROVE  \E i \in Lines(f)' : i <= k /\ LineNo(f, i)' = p
        <5>1. CASE p = Sent + 1
          BY <2>1, <2>2, <2>4, <3>2, <5>1
        <5>2. CASE p # Sent + 1
          <6>1. p \in Len(log[f]) + 1 .. Sent
            BY <1>0, <2>4, <3>2, <4>2, <5>2
          <6>2. PICK i \in Lines(f) : LineNo(f, i)' = p
            BY <2>8, <6>1
          <6>3. i \in Lines(f)' /\ i <= k
            BY <2>1, <2>2, <3>2
          <6> QED
            BY <6>2, <6>3
        <5> QED
          BY <5>1, <5>2
      <4> QED
        BY <4>1, <4>2
    <3> QED
      BY <2>2, <3>1, <3>2
  <2>10. NoLineMissing(f)'
    <3> SUFFICES ASSUME Listening(f), NEW p \in Len(log[f]) + 1 .. Sent + 1
                 PROVE  \E i \in Lines(f)' : LineNo(f, i)' = p
      BY <1>0 DEF NoLineMissing, Listening
    <3>1. CASE p = Sent + 1
      BY <2>2, <2>4, <3>1
    <3>2. CASE p # Sent + 1
      <4>1. p \in Len(log[f]) + 1 .. Sent
        BY <1>0, <3>2
      <4> QED
        BY <2>2, <2>8, <4>1
    <3> QED
      BY <3>1, <3>2
  <2> QED
    BY <2>6, <2>7, <2>9, <2>10 DEF FollowerInv
<1> QED
  BY <1>1, <1>2

--------------------------------------------------------------------------------
(* Only the leader sends lines, and only to followers.                      *)

LinesFromLeader(chan) ==
  \A s, d \in Node : \A k \in DOMAIN chan[s][d] :
    chan[s][d][k].code = "ACCEPTED" => s = Leader /\ d # Leader

\* The messages behind a new one are the old ones.
LEMMA AppendEffect ==
  ASSUME NEW q \in Seq(Message), NEW m, NEW k \in DOMAIN Append(q, m)
  PROVE  \/ k \in DOMAIN q /\ Append(q, m)[k] = q[k]
         \/ Append(q, m)[k] = m
<1>1. CASE k = Len(q) + 1
  BY <1>1
<1>2. CASE k # Len(q) + 1
  BY <1>2
<1> QED
  BY <1>1, <1>2

\* Replies are no lines, so sending one keeps where lines come from.
LEMMA SendKeepsSource ==
  ASSUME NEW chan \in Channels, LinesFromLeader(chan), NEW isAlive, NEW tag,
         NEW s \in Node, NEW d \in Node, NEW m, m.code # "ACCEPTED"
  PROVE  LinesFromLeader(send(chan, isAlive, s, d, tag, m))
<1> DEFINE new == send(chan, isAlive, s, d, tag, m)
<1>1. ASSUME NEW a \in Node, NEW b \in Node, NEW k \in DOMAIN new[a][b],
             new[a][b][k].code = "ACCEPTED"
      PROVE  a = Leader /\ b # Leader
  <2>1. \/ new[a][b] = chan[a][b]
        \/ new[a][b] = Append(chan[a][b], m)
    BY DEF send, Channels
  <2>2. chan[a][b] \in Seq(Message)
    BY DEF Channels
  <2>3. k \in DOMAIN chan[a][b] /\ new[a][b][k] = chan[a][b][k]
    <3> HIDE DEF new
    <3> QED
      BY <1>1, <2>1, <2>2, AppendEffect, Zenon
  <2> QED
    BY <1>1, <2>3 DEF LinesFromLeader
<1> QED
  BY <1>1 DEF LinesFromLeader

\* A broadcast goes to the others: the leader's lines reach followers only.
LEMMA BroadcastKeepsSource ==
  ASSUME NEW chan \in Channels, LinesFromLeader(chan), NEW isAlive, NEW tag,
         NEW lo, NEW hi, NEW s \in Node, NEW m,
         m.code = "ACCEPTED" => s = Leader
  PROVE  LinesFromLeader(broadcast(chan, isAlive, s, lo, hi, tag, m))
<1> DEFINE new == broadcast(chan, isAlive, s, lo, hi, tag, m)
<1>2. ASSUME NEW a \in Node, NEW b \in Node, NEW k \in DOMAIN new[a][b],
             new[a][b][k].code = "ACCEPTED"
      PROVE  a = Leader /\ b # Leader
  <2>0. chan[a][b] \in Seq(Message)
    BY DEF Channels
  <2>1. CASE new[a][b] = chan[a][b]
    BY <1>2, <2>1 DEF LinesFromLeader
  <2>2. CASE new[a][b] = Append(chan[a][b], m) /\ a = s /\ b # s
    <3>1. CASE /\ k \in DOMAIN chan[a][b]
               /\ new[a][b][k] = chan[a][b][k]
      BY <1>2, <3>1 DEF LinesFromLeader
    <3>2. CASE new[a][b][k] = m
      BY <1>2, <2>2, <3>2
    <3> HIDE DEF new
    <3> QED
      BY <2>0, <2>2, <3>1, <3>2, AppendEffect, ZenonT(60)
  <2>3. \/ new[a][b] = chan[a][b]
        \/ new[a][b] = Append(chan[a][b], m) /\ a = s /\ b # s
    BY DEF broadcast, Channels
  <2> QED
    BY <2>1, <2>2, <2>3
<1> QED
  BY <1>2 DEF LinesFromLeader

\* Taking a message off adds no line.
LEMMA ConsumeKeepsSource ==
  ASSUME NEW chan \in Channels, LinesFromLeader(chan),
         NEW s \in Node, NEW d \in Node, chan[s][d] # << >>
  PROVE  LinesFromLeader(consume(chan, s, d))
<1>1. ASSUME NEW k \in DOMAIN Tail(chan[s][d])
      PROVE  /\ k + 1 \in DOMAIN chan[s][d]
             /\ Tail(chan[s][d])[k] = chan[s][d][k + 1]
  <2>1. chan[s][d] \in Seq(Message)
    BY DEF Channels
  <2> QED
    BY <2>1
<1> DEFINE new == consume(chan, s, d)
<1>2. ASSUME NEW a \in Node, NEW b \in Node, NEW k \in DOMAIN new[a][b],
             new[a][b][k].code = "ACCEPTED"
      PROVE  a = Leader /\ b # Leader
  <2>1. \/ new[a][b] = chan[a][b]
        \/ a = s /\ b = d /\ new[a][b] = Tail(chan[a][b])
    BY ConsumeEffect
  <2>2. CASE new[a][b] = chan[a][b]
    BY <1>2, <2>2 DEF LinesFromLeader
  <2>3. CASE a = s /\ b = d /\ new[a][b] = Tail(chan[a][b])
    <3>1. k \in DOMAIN Tail(chan[s][d])
      BY <1>2, <2>3
    <3>2. chan[s][d][k + 1].code = "ACCEPTED" /\ k + 1 \in DOMAIN chan[s][d]
      BY <1>1, <1>2, <2>3, <3>1
    <3> QED
      BY <2>3, <3>2 DEF LinesFromLeader
  <2> QED
    BY <2>1, <2>2, <2>3
<1> QED
  BY <1>2 DEF LinesFromLeader

--------------------------------------------------------------------------------
(* The client thread: the only one that runs is the leader's.               *)

ClientStep(n) == (\E v \in Value : StartConsensus(n, v)) \/ ClientThreadStep(n)

\* A follower's client thread is outside startConsensus and stays there.
LEMMA OnlyLeaderSteps ==
  ASSUME OnlyLeaderProposes, NEW n \in Node,
         (n \in Proposers /\ ClientStep(n)) \/ ClientThreadStep(n)
  PROVE  n = Leader
BY LeaderAndFollowers, SingleLeaderAssumption
   DEF OnlyLeaderProposes, ClientThreadStep, ReceivePromises, BroadcastPropose,
       ReceiveAccepts, AppendValue, BroadcastAccepted, FinishConsensus, GoTo

\* A round's steps before and after the writing: messages that are no lines.
LEMMA QuietClientStep ==
  ASSUME TypeInv, LinesFromLeader(net),
         \/ \E v \in Value : StartConsensus(Leader, v)
         \/ ReceivePromises(Leader)
         \/ BroadcastPropose(Leader)
         \/ FinishConsensus(Leader)
         \/ ReceiveAccepts(Leader)
  PROVE  /\ \A f \in Follower : FollowerInv(f) => FollowerInv(f)'
         /\ LinesFromLeader(net')
         /\ log' = log
         /\ phase'[Leader] # "accepted"
         /\ \A n \in Follower : phase'[n] = phase[n]
<1>0. /\ net \in Channels
      /\ Leader \in Node
      /\ phase \in [Node -> Phase]
  BY LeaderAndFollowers DEF TypeInv, TypeOK, Channels
<1>1. /\ UNCHANGED <<log, handling, processIsAlive>>
      /\ phase[Leader] # "accepted"
      /\ phase'[Leader] # "accepted"
      /\ \A n \in Follower : phase'[n] = phase[n]
  BY <1>0, LeaderAndFollowers
     DEF StartConsensus, ReceivePromises, BroadcastPropose, ReceiveAccepts,
         FinishConsensus, GoTo, consensusThread
<1>2. \/ net' = net
      \/ \E m : m.code # "ACCEPTED" /\ Broadcast(Leader, m)
  <2>1. ASSUME NEW v \in Value, StartConsensus(Leader, v)
        PROVE  \E m : m.code # "ACCEPTED" /\ Broadcast(Leader, m)
    <3>1. PICK id : Broadcast(Leader, [code |-> "PREPARE", id |-> id])
      BY <2>1 DEF StartConsensus
    <3>2. [code |-> "PREPARE", id |-> id].code # "ACCEPTED"
      OBVIOUS
    <3> QED
      BY <3>1, <3>2
  <2>2. ASSUME BroadcastPropose(Leader)
        PROVE  \E m : m.code # "ACCEPTED" /\ Broadcast(Leader, m)
    <3>1. PICK r, v : Broadcast(Leader, [code |-> "PROPOSE", roundId |-> r,
                                         value |-> v])
      BY <2>2 DEF BroadcastPropose
    <3>2. [code |-> "PROPOSE", roundId |-> r, value |-> v].code # "ACCEPTED"
      OBVIOUS
    <3> QED
      BY <3>1, <3>2
  <2> QED
    BY <2>1, <2>2 DEF ReceivePromises, ReceiveAccepts, FinishConsensus
<1>3. LinesFromLeader(net')
  BY <1>0, <1>2, BroadcastKeepsSource DEF Broadcast
<1>4. ASSUME NEW f \in Follower, FollowerInv(f) PROVE FollowerInv(f)'
  <2>0. f \in Node /\ f # Leader
    BY LeaderAndFollowers
  <2>1. ASSUME NEW m, Broadcast(Leader, m)
        PROVE  \/ net'[Leader][f] = net[Leader][f]
               \/ net'[Leader][f] = Append(net[Leader][f], m)
    BY <1>0, <2>0, <2>1 DEF Broadcast, broadcast, Channels
  <2>2. \/ net'[Leader][f] = net[Leader][f]
        \/ \E m : /\ m.code # "ACCEPTED"
                  /\ net'[Leader][f] = Append(net[Leader][f], m)
    BY <1>2, <2>1
  <2>3. /\ Lines(f)' = Lines(f)
        /\ \A k \in Lines(f) : net'[Leader][f][k] = net[Leader][f][k]
    <3>1. CASE net'[Leader][f] = net[Leader][f]
      BY <3>1 DEF Lines
    <3> QED
      BY <2>2, <3>1, AppendLines
  <2>4. /\ Sent' = Sent
        /\ Listening(f)' => Listening(f)
    BY <1>1 DEF Sent, Listening
  <2> QED
    BY <1>1, <1>4, <2>3, <2>4, QuietStep
<1> QED
  BY <1>1, <1>3, <1>4

\* The leader writes the line of its round: it counts as sent only once it is.
LEMMA AppendValueStep ==
  ASSUME TypeInv, LinesFromLeader(net), AppendValue(Leader)
  PROVE  /\ \A f \in Follower : FollowerInv(f) => FollowerInv(f)'
         /\ LinesFromLeader(net')
         /\ LastLineIsValue'
         /\ value[Leader] \in Value
         /\ log' = [log EXCEPT ![Leader] = Append(@, value[Leader])]
         /\ \A n \in Follower : phase'[n] = phase[n]
<1>0. /\ log \in [Node -> Seq(Value)]
      /\ phase \in [Node -> Phase]
      /\ Leader \in Node
      /\ value[Leader] \in Value
  BY LeaderAndFollowers DEF TypeInv, TypeOK, InRound, AppendValue, GoTo
<1>1. /\ UNCHANGED <<net, handling, processIsAlive, value>>
      /\ phase[Leader] = "append" /\ phase'[Leader] = "accepted"
      /\ log' = [log EXCEPT ![Leader] = Append(@, value[Leader])]
      /\ \A n \in Follower : phase'[n] = phase[n]
  BY <1>0, LeaderAndFollowers DEF AppendValue, GoTo, consensusThread
<1>2. log[Leader] \in Seq(Value) /\ log'[Leader] = Append(log[Leader], value[Leader])
  BY <1>0, <1>1
<1>3. /\ Len(log[Leader]) \in Nat
      /\ Len(log'[Leader]) = Len(log[Leader]) + 1
      /\ \A p \in 1 .. Len(log[Leader]) : log'[Leader][p] = log[Leader][p]
      /\ log'[Leader][Len(log[Leader]) + 1] = value[Leader]
  BY <1>0, <1>2
<1>4. LastLineIsValue'
  BY <1>1, <1>3 DEF LastLineIsValue
<1>5. Sent = Len(log[Leader]) /\ Sent' = Sent
  BY <1>1, <1>3 DEF Sent
<1>6. ASSUME NEW f \in Follower, FollowerInv(f) PROVE FollowerInv(f)'
  <2>1. log'[f] = log[f]
    BY <1>0, <1>1, LeaderAndFollowers
  <2>2. /\ Lines(f)' = Lines(f)
        /\ \A k \in Lines(f) : net'[Leader][f][k] = net[Leader][f][k]
        /\ Listening(f)' => Listening(f)
    BY <1>1 DEF Lines, Listening
  <2>3. \A p \in 1 .. Sent : log'[Leader][p] = log[Leader][p]
    BY <1>3, <1>5
  <2> QED
    BY <1>1, <1>5, <1>6, <2>1, <2>2, <2>3, QuietStep
<1> QED
  BY <1>0, <1>1, <1>4, <1>6

\* The leader broadcasts the line.
LEMMA BroadcastAcceptedStep ==
  ASSUME TypeInv, LinesFromLeader(net), LastLineIsValue,
         BroadcastAccepted(Leader)
  PROVE  /\ \A f \in Follower : FollowerInv(f) => FollowerInv(f)'
         /\ LinesFromLeader(net')
         /\ log' = log
         /\ phase'[Leader] # "accepted"
         /\ \A n \in Follower : phase'[n] = phase[n]
<1>0. /\ net \in Channels
      /\ phase \in [Node -> Phase]
      /\ Leader \in Node
  BY LeaderAndFollowers DEF TypeInv, TypeOK, Channels
<1>1. /\ UNCHANGED <<log, handling, processIsAlive>>
      /\ phase[Leader] = "accepted" /\ phase'[Leader] = "reset"
      /\ \A n \in Follower : phase'[n] = phase[n]
  BY <1>0, LeaderAndFollowers DEF BroadcastAccepted, GoTo, consensusThread
<1>2. PICK m : /\ m = [code |-> "ACCEPTED", value |-> value[Leader],
                       pos |-> Len(log[Leader])]
               /\ Broadcast(Leader, m)
  BY DEF BroadcastAccepted
<1>3. /\ m.code = "ACCEPTED" /\ m.value = value[Leader]
      /\ m.pos = Len(log[Leader])
  BY <1>2
<1>4. LinesFromLeader(net')
  BY <1>0, <1>2, BroadcastKeepsSource DEF Broadcast
<1>5. ASSUME NEW f \in Follower, FollowerInv(f) PROVE FollowerInv(f)'
  <2>1. /\ f \in Node /\ f # Leader /\ 0 <= f /\ f < clusterSize
    BY LeaderAndFollowers, ClusterSizeAssumption DEF Node
  <2>2. messageShouldDrop(processIsAlive[Leader], Leader, f, "CONSENSUS")
          <=> ~ processIsAlive[Leader][idToIndex(Leader, f)]
    BY <2>1 DEF messageShouldDrop
  <2>3. \/ /\ net'[Leader][f] = Append(net[Leader][f], m)
           /\ processIsAlive[Leader][idToIndex(Leader, f)]
        \/ /\ net'[Leader][f] = net[Leader][f]
           /\ ~ processIsAlive[Leader][idToIndex(Leader, f)]
    BY <1>0, <1>2, <2>1, <2>2 DEF Broadcast, broadcast, Channels
  <2> QED
    BY <1>1, <1>3, <1>5, <2>3, SendLineStep
<1> QED
  BY <1>1, <1>4, <1>5

--------------------------------------------------------------------------------
(* The consensus threads.                                                   *)

\* A follower drops a message: from the leader, it has stopped listening.
LEMMA ReceiveDroppedStep ==
  ASSUME TypeInv, LinesFromLeader(net), NEW n \in Node, NEW src \in Node,
         ReceiveDropped(n, src)
  PROVE  /\ \A f \in Follower : FollowerInv(f) => FollowerInv(f)'
         /\ LinesFromLeader(net')
<1>0. net \in Channels /\ Leader \in Node
  BY LeaderAndFollowers DEF TypeInv, TypeOK, Channels
<1>1. /\ net[src][n] # << >>
      /\ net' = consume(net, src, n)
      /\ handling[n] = -1
      /\ UNCHANGED <<clientThread, handling, processIsAlive, log>>
  BY DEF ReceiveDropped, Pending, NoReply, consensusThread
<1>2. LinesFromLeader(net')
  BY <1>0, <1>1, ConsumeKeepsSource
<1>3. ASSUME NEW f \in Follower, FollowerInv(f) PROVE FollowerInv(f)'
  <2>0. f \in Node /\ f # Leader
    BY LeaderAndFollowers
  <2>1. CASE n = f /\ src = Leader
    <3>1. net'[Leader][f] = Tail(net[Leader][f])
      BY <1>0, <1>1, <2>0, <2>1 DEF consume, Channels
    <3>2. ~ processIsAlive[f][idToIndex(f, Leader)]
      BY <2>1 DEF ReceiveDropped, messageShouldDrop
    <3>3. ~ Listening(f)'
      BY <1>0, <1>1, <2>1, <3>2 DEF Listening, Node
    <3> QED
      BY <1>1, <1>3, <2>1, <3>1, <3>3, TailQuietStep
  <2>2. CASE ~ (n = f /\ src = Leader)
    <3>1. net'[Leader][f] = net[Leader][f]
      BY <1>0, <1>1, <2>0, <2>2 DEF consume, Channels
    <3>2. /\ Lines(f)' = Lines(f)
          /\ \A k \in Lines(f) : net'[Leader][f][k] = net[Leader][f][k]
          /\ Sent' = Sent
          /\ Listening(f)' => Listening(f)
      BY <1>1, <3>1 DEF Lines, Sent, Listening, clientThread
    <3> QED
      BY <1>1, <1>3, <3>2, QuietStep
  <2> QED
    BY <2>1, <2>2
<1> QED
  BY <1>2, <1>3

\* Receiving commits a follower to handle, which it does only if it listens.
LEMMA ReceiveStep ==
  ASSUME TypeInv, NEW n \in Node, NEW src \in Node, Receive(n, src),
         NEW f \in Follower, FollowerInv(f)
  PROVE  FollowerInv(f)'
<1>1. /\ UNCHANGED <<clientThread, net, processIsAlive, log>>
      /\ handling' = [handling EXCEPT ![n] = src]
      /\ handling \in [Node -> Node \cup {-1}]
      /\ f \in Node /\ f # Leader
  BY LeaderAndFollowers DEF Receive, TypeInv, TypeOK
<1>2. Listening(f)' => Listening(f)
  BY <1>1 DEF Receive, Listening, messageShouldDrop
<1>3. /\ Lines(f)' = Lines(f)
      /\ \A k \in Lines(f) : net'[Leader][f][k] = net[Leader][f][k]
      /\ Sent' = Sent
  BY <1>1 DEF Lines, Sent, clientThread
<1> QED
  BY <1>1, <1>2, <1>3, QuietStep

\* The handlers of the Acceptor and of the Proposer's ear touch no line.
LEMMA QuietHandlerStep ==
  ASSUME TypeInv, LinesFromLeader(net), NEW n \in Node, NEW src \in Node,
         NEW c, c # "ACCEPTED", Handling(n, src, c),
         UNCHANGED <<clientThread, processIsAlive, log>>,
         \/ NoReply(n, src)
         \/ \E m : m.code # "ACCEPTED" /\ Reply(n, src, m)
  PROVE  /\ \A f \in Follower : FollowerInv(f) => FollowerInv(f)'
         /\ LinesFromLeader(net')
<1>0. /\ net \in Channels /\ Leader \in Node
      /\ handling \in [Node -> Node \cup {-1}]
  BY LeaderAndFollowers DEF TypeInv, TypeOK, Channels
<1>1. /\ net[src][n] # << >>
      /\ Head(net[src][n]).code # "ACCEPTED"
      /\ handling[n] = src
      /\ handling' = [handling EXCEPT ![n] = -1]
  BY DEF Handling, Pending
<1>2. consume(net, src, n) \in Channels /\ LinesFromLeader(consume(net, src, n))
  BY <1>0, <1>1, ConsumeType, ConsumeKeepsSource
<1>3. LinesFromLeader(net')
  BY <1>2, SendKeepsSource DEF NoReply, Reply
<1>4. ASSUME NEW f \in Follower, FollowerInv(f) PROVE FollowerInv(f)'
  <2>0. f \in Node /\ f # Leader /\ Leader # -1
    BY LeaderAndFollowers DEF Node
  <2>1. Listening(f)' => Listening(f)
    BY <1>0, <1>1, <2>0 DEF Listening
  <2>2. CASE n = f /\ src = Leader
    <3>1. net'[Leader][f] = Tail(net[Leader][f])
      <4>1. consume(net, src, n)[Leader][f] = Tail(net[Leader][f])
        BY <1>0, <2>0, <2>2 DEF consume, Channels
      <4>2. CASE NoReply(n, src)
        BY <4>1, <4>2 DEF NoReply
      <4>3. ASSUME NEW m, Reply(n, src, m)
            PROVE  net'[Leader][f] = Tail(net[Leader][f])
        BY <1>0, <1>2, <2>0, <2>2, <4>1, <4>3 DEF Reply, send, Channels
      <4> QED
        BY <4>2, <4>3
    <3>2. Head(net[Leader][f]) = net[Leader][f][1]
      BY <1>0, <1>1, <2>0, <2>2 DEF Channels
    <3>3. 1 \notin Lines(f)
      BY <1>1, <2>2, <3>2 DEF Lines
    <3> QED
      BY <1>1, <1>4, <2>1, <2>2, <3>1, <3>3, TailQuietStep
  <2>3. CASE ~ (n = f /\ src = Leader)
    <3>1. consume(net, src, n)[Leader][f] = net[Leader][f]
      BY <1>0, <2>0, <2>3 DEF consume, Channels
    <3>2. \/ net'[Leader][f] = net[Leader][f]
          \/ \E m : /\ m.code # "ACCEPTED"
                    /\ net'[Leader][f] = Append(net[Leader][f], m)
      <4>1. CASE NoReply(n, src)
        BY <3>1, <4>1 DEF NoReply
      <4>2. ASSUME NEW m, m.code # "ACCEPTED", Reply(n, src, m)
            PROVE  \/ net'[Leader][f] = net[Leader][f]
                   \/ net'[Leader][f] = Append(net[Leader][f], m)
        BY <1>0, <1>2, <2>0, <3>1, <4>2 DEF Reply, send, Channels
      <4> QED
        BY <4>1, <4>2
    <3>3. /\ Lines(f)' = Lines(f)
          /\ \A k \in Lines(f) : net'[Leader][f][k] = net[Leader][f][k]
      <4>1. CASE net'[Leader][f] = net[Leader][f]
        BY <4>1 DEF Lines
      <4> QED
        BY <3>2, <4>1, AppendLines
    <3>4. Sent' = Sent
      BY DEF Sent, clientThread
    <3> QED
      BY <1>4, <2>1, <3>3, <3>4, QuietStep
  <2> QED
    BY <2>2, <2>3
<1> QED
  BY <1>3, <1>4

\* Each handler but handleAcceptedMessage is quiet.
LEMMA QuietHandlers ==
  ASSUME TypeInv, LinesFromLeader(net), NEW n \in Node, NEW src \in Node,
         \/ HandlePrepare(n, src)
         \/ HandlePropose(n, src)
         \/ HandlePromise(n, src)
         \/ HandleAccept(n, src)
  PROVE  /\ \A f \in Follower : FollowerInv(f) => FollowerInv(f)'
         /\ LinesFromLeader(net')
         /\ UNCHANGED <<clientThread, log>>
<1>1. PICK c \in {"PREPARE", "PROPOSE", "PROMISE", "ACCEPT"} :
        Handling(n, src, c)
  BY DEF HandlePrepare, HandlePropose, HandlePromise, HandleAccept
<1>2. UNCHANGED <<clientThread, processIsAlive, log>>
  BY DEF HandlePrepare, HandlePropose, HandlePromise, HandleAccept
<1>3. \/ NoReply(n, src)
      \/ \E m : m.code # "ACCEPTED" /\ Reply(n, src, m)
  <2>1. PromiseFor(n, Head(net[src][n]).id).code # "ACCEPTED"
    BY DEF PromiseFor
  <2>2. [code |-> "ACCEPT"].code # "ACCEPTED"
    OBVIOUS
  <2> QED
    BY <2>1, <2>2
       DEF HandlePrepare, HandlePropose, HandlePromise, HandleAccept
<1> QED
  BY <1>1, <1>2, <1>3, QuietHandlerStep

\* The learner: a follower, the message one of the leader's, the line its next.
LEMMA HandleAcceptedStep ==
  ASSUME TypeInv, LinesFromLeader(net), NEW n \in Node, NEW src \in Node,
         HandleAccepted(n, src), \A f \in Follower : FollowerInv(f)
  PROVE  /\ \A f \in Follower : FollowerInv(f)'
         /\ LinesFromLeader(net')
         /\ n \in Follower
         /\ Len(log[n]) < Len(log[Leader])
         /\ log' = [log EXCEPT ![n] = Append(@, log[Leader][Len(log[n]) + 1])]
<1>0. /\ net \in Channels /\ Leader \in Node
      /\ handling \in [Node -> Node \cup {-1}]
      /\ log \in [Node -> Seq(Value)]
  BY LeaderAndFollowers DEF TypeInv, TypeOK, Channels
<1>1. /\ net[src][n] # << >>
      /\ Head(net[src][n]).code = "ACCEPTED"
      /\ handling[n] = src
      /\ handling' = [handling EXCEPT ![n] = -1]
      /\ net' = consume(net, src, n)
      /\ UNCHANGED <<clientThread, processIsAlive>>
  BY DEF HandleAccepted, Handling, Pending, NoReply
<1>2. LinesFromLeader(net')
  BY <1>0, <1>1, ConsumeKeepsSource
<1>3. 1 \in DOMAIN net[src][n] /\ Head(net[src][n]) = net[src][n][1]
  BY <1>0, <1>1 DEF Channels
<1>4. src = Leader /\ n # Leader /\ n \in Follower
  BY <1>1, <1>3, LeaderAndFollowers DEF LinesFromLeader
<1>5. log' = [log EXCEPT ![n] = Append(@, net[Leader][n][1].value)]
  BY <1>3, <1>4 DEF HandleAccepted
<1>6. /\ FollowerInv(n)'
      /\ Len(log[n]) < Len(log[Leader])
      /\ net[Leader][n][1].value = log[Leader][Len(log[n]) + 1]
  <2>1. 1 \in Lines(n)
    BY <1>1, <1>3, <1>4 DEF Lines
  <2>2. net'[Leader][n] = Tail(net[Leader][n])
    BY <1>0, <1>1, <1>4 DEF consume, Channels
  <2>3. Listening(n)
    BY <1>1, <1>4 DEF Listening
  <2> QED
    BY <1>1, <1>4, <1>5, <2>1, <2>2, <2>3, WriteLineStep
<1>7. ASSUME NEW f \in Follower, f # n PROVE FollowerInv(f)'
  <2>0. f \in Node /\ f # Leader
    BY LeaderAndFollowers
  <2>1. net'[Leader][f] = net[Leader][f]
    BY <1>0, <1>1, <1>7, <2>0 DEF consume, Channels
  <2>2. log'[f] = log[f] /\ log'[Leader] = log[Leader]
    BY <1>0, <1>4, <1>5, <1>7, <2>0
  <2>3. /\ Lines(f)' = Lines(f)
        /\ \A k \in Lines(f) : net'[Leader][f][k] = net[Leader][f][k]
        /\ Sent' = Sent
    BY <1>1, <2>1, <2>2 DEF Lines, Sent, clientThread
  <2>4. Listening(f)' => Listening(f)
    BY <1>0, <1>1, <1>7, <2>0 DEF Listening
  <2> QED
    BY <1>1, <2>2, <2>3, <2>4, QuietStep
<1> QED
  BY <1>2, <1>4, <1>5, <1>6, <1>7

--------------------------------------------------------------------------------
\* The failure detector only cuts links: NodeStatus is FALSE at most.
LEMMA SuspectStep ==
  ASSUME TypeInv, NEW n \in Node, NEW i \in Index, NEW s \in NodeStatus,
         SetNodeStatus(n, i, s), NEW f \in Follower, FollowerInv(f)
  PROVE  FollowerInv(f)'
<1>1. /\ UNCHANGED <<clientThread, net, handling, log>>
      /\ processIsAlive' = [processIsAlive EXCEPT ![n][i] = FALSE]
      /\ processIsAlive \in [Node -> [Index -> BOOLEAN]]
      /\ f \in Node /\ f # Leader /\ Leader \in Node
  BY LeaderAndFollowers, SingleLeaderAssumption
     DEF SetNodeStatus, setNodeStatus, consensusThread, TypeInv, TypeOK
<1>2. \A a \in Node, j \in Index : processIsAlive'[a][j] => processIsAlive[a][j]
  BY <1>1
<1>3. Listening(f)' => Listening(f)
  BY <1>1, <1>2, IndexType DEF Listening
<1>4. processIsAlive'[Leader][idToIndex(Leader, f)]
        => processIsAlive[Leader][idToIndex(Leader, f)]
  BY <1>1, <1>2, IndexType
<1>5. /\ Lines(f)' = Lines(f)
      /\ \A k \in Lines(f) : net'[Leader][f][k] = net[Leader][f][k]
      /\ Sent' = Sent
  BY <1>1 DEF Lines, Sent, clientThread
<1> QED
  BY <1>1, <1>3, <1>4, <1>5, QuietStep

\* The three ways a step may change the files.
LogStep ==
  \/ UNCHANGED log
  \/ \E v \in Value : log' = [log EXCEPT ![Leader] = Append(@, v)]
  \/ \E f \in Follower :
       /\ Len(log[f]) < Len(log[Leader])
       /\ log' = [log EXCEPT ![f] = Append(@, log[Leader][Len(log[f]) + 1])]

\* What holds of the files after such a step.
LEMMA LogStepKeepsPrefixes ==
  ASSUME TypeInv, FollowersArePrefixes, LogStep
  PROVE  FollowersArePrefixes'
<1>0. log \in [Node -> Seq(Value)] /\ Leader \in Node
  BY LeaderAndFollowers DEF TypeInv, TypeOK
<1> SUFFICES ASSUME NEW f \in Follower
             PROVE  /\ Len(log'[f]) <= Len(log'[Leader])
                    /\ \A k \in DOMAIN log'[f] : log'[f][k] = log'[Leader][k]
  BY DEF FollowersArePrefixes
<1>1. f \in Node /\ f # Leader
  BY LeaderAndFollowers
<1>2. /\ log[f] \in Seq(Value) /\ log[Leader] \in Seq(Value)
      /\ Len(log[f]) \in Nat /\ Len(log[Leader]) \in Nat
      /\ DOMAIN log[f] = 1 .. Len(log[f])
      /\ Len(log[f]) <= Len(log[Leader])
      /\ \A k \in 1 .. Len(log[f]) : log[f][k] = log[Leader][k]
  BY <1>0, <1>1 DEF FollowersArePrefixes
<1>3. CASE log'[f] = log[f] /\ log'[Leader] = log[Leader]
  BY <1>2, <1>3
<1>4. ASSUME NEW v \in Value, log' = [log EXCEPT ![Leader] = Append(@, v)]
      PROVE  /\ Len(log'[f]) <= Len(log'[Leader])
             /\ \A k \in DOMAIN log'[f] : log'[f][k] = log'[Leader][k]
  <2>1. log'[f] = log[f] /\ log'[Leader] = Append(log[Leader], v)
    BY <1>0, <1>1, <1>4
  <2>2. /\ Len(log'[Leader]) = Len(log[Leader]) + 1
        /\ \A k \in 1 .. Len(log[Leader]) : log'[Leader][k] = log[Leader][k]
    BY <1>2, <2>1
  <2> QED
    BY <1>2, <2>1, <2>2
<1>5. CASE /\ Len(log[f]) < Len(log[Leader])
           /\ log' = [log EXCEPT ![f] =
                        Append(@, log[Leader][Len(log[f]) + 1])]
  <2>1. /\ log'[Leader] = log[Leader]
        /\ log'[f] = Append(log[f], log[Leader][Len(log[f]) + 1])
    BY <1>0, <1>1, <1>5
  <2>2. /\ Len(log'[f]) = Len(log[f]) + 1
        /\ DOMAIN log'[f] = 1 .. Len(log[f]) + 1
        /\ \A k \in 1 .. Len(log[f]) : log'[f][k] = log[f][k]
        /\ log'[f][Len(log[f]) + 1] = log[Leader][Len(log[f]) + 1]
    BY <1>2, <2>1
  <2>3. \A k \in 1 .. Len(log[f]) + 1 :
          k = Len(log[f]) + 1 \/ k \in 1 .. Len(log[f])
    BY <1>2
  <2> QED
    BY <1>2, <1>5, <2>1, <2>2, <2>3
<1>6. ASSUME NEW g \in Follower, g # f,
             log' = [log EXCEPT ![g] = Append(@, log[Leader][Len(log[g]) + 1])]
      PROVE  log'[f] = log[f] /\ log'[Leader] = log[Leader]
  BY <1>0, <1>1, <1>6, LeaderAndFollowers
<1> QED
  BY <1>3, <1>4, <1>5, <1>6 DEF LogStep

(****************************************************************************)
(* One step: the induction over the actions, and how each changes the       *)
(* files.                                                                   *)
(****************************************************************************)
LEMMA ReplicationStep ==
  ASSUME TypeInv, ReplicationInv, [Next]_vars
  PROVE  ReplicationInv' /\ LogStep
<1>0. /\ LinesFromLeader(net)
      /\ \A f \in Follower : phase[f] = "idle"
      /\ \A f \in Follower : FollowerInv(f)
      /\ LastLineIsValue /\ FollowersArePrefixes /\ OnlyLeaderProposes
  BY DEF ReplicationInv, OnlyLeaderProposes, LinesFromLeader, LinesInTransit,
         FollowerInv
<1> DEFINE Kept == /\ LinesFromLeader(net')
                   /\ \A f \in Follower : phase'[f] = phase[f]
                   /\ \A f \in Follower : FollowerInv(f)'
                   /\ LastLineIsValue'
                   /\ LogStep
<1>1. SUFFICES Kept
  BY <1>0, LogStepKeepsPrefixes
     DEF ReplicationInv, OnlyLeaderProposes, LinesFromLeader, LinesInTransit,
         FollowerInv
<1>2. ASSUME UNCHANGED <<clientThread, log>>
      PROVE  /\ LastLineIsValue'
             /\ LogStep
             /\ \A f \in Follower : phase'[f] = phase[f]
  BY <1>0, <1>2 DEF LastLineIsValue, clientThread, LogStep
<1>3. ASSUME NEW n \in Node,
             (n \in Proposers /\ ClientStep(n)) \/ ClientThreadStep(n)
      PROVE  Kept
  <2>1. n = Leader
    BY <1>0, <1>3, OnlyLeaderSteps
  <2>2. CASE AppendValue(Leader)
    BY <1>0, <2>2, AppendValueStep DEF LogStep
  <2>3. CASE BroadcastAccepted(Leader)
    BY <1>0, <2>3, BroadcastAcceptedStep DEF LogStep, LastLineIsValue
  <2>4. CASE \/ \E v \in Value : StartConsensus(Leader, v)
             \/ ReceivePromises(Leader)
             \/ BroadcastPropose(Leader)
             \/ FinishConsensus(Leader)
             \/ ReceiveAccepts(Leader)
    BY <1>0, <2>4, QuietClientStep DEF LogStep, LastLineIsValue
  <2> QED
    BY <1>3, <2>1, <2>2, <2>3, <2>4 DEF ClientStep, ClientThreadStep
<1>4. ASSUME NEW n \in Node, NEW src \in Node, ConsensusThreadStep(n, src)
      PROVE  Kept
  <2>1. CASE ReceiveDropped(n, src)
    <3>1. UNCHANGED <<clientThread, log>>
      BY <2>1 DEF ReceiveDropped
    <3> QED
      BY <1>0, <1>2, <2>1, <3>1, ReceiveDroppedStep
  <2>2. CASE Receive(n, src)
    <3>1. UNCHANGED <<clientThread, net, log>>
      BY <2>2 DEF Receive
    <3> QED
      BY <1>0, <1>2, <2>2, <3>1, ReceiveStep
  <2>3. CASE \/ HandlePrepare(n, src)
             \/ HandlePropose(n, src)
             \/ HandlePromise(n, src)
             \/ HandleAccept(n, src)
    BY <1>0, <1>2, <2>3, QuietHandlers
  <2>4. CASE HandleAccepted(n, src)
    <3>1. UNCHANGED clientThread
      BY <2>4 DEF HandleAccepted
    <3>2. /\ \A f \in Follower : FollowerInv(f)'
          /\ LinesFromLeader(net')
          /\ n \in Follower
          /\ Len(log[n]) < Len(log[Leader])
          /\ log' = [log EXCEPT ![n] =
                       Append(@, log[Leader][Len(log[n]) + 1])]
      BY <1>0, <2>4, HandleAcceptedStep
    <3>3. log'[Leader] = log[Leader]
      BY <3>2, LeaderAndFollowers DEF TypeInv, TypeOK
    <3>4. LastLineIsValue'
      BY <1>0, <3>1, <3>3 DEF LastLineIsValue, clientThread
    <3> QED
      BY <3>1, <3>2, <3>4 DEF LogStep, clientThread
  <2> QED
    BY <1>4, <2>1, <2>2, <2>3, <2>4 DEF ConsensusThreadStep, HandleMessage
<1>5. ASSUME NEW n \in Node, NEW i \in Index, NEW s \in NodeStatus,
             SetNodeStatus(n, i, s)
      PROVE  Kept
  <2>1. UNCHANGED <<clientThread, net, log>>
    BY <1>5 DEF SetNodeStatus
  <2> QED
    BY <1>0, <1>2, <1>5, <2>1, SuspectStep
<1>6. CASE UNCHANGED vars
  <2>1. \A f \in Follower : FollowerInv(f)'
    BY <1>0, <1>6
       DEF vars, FollowerInv, LinesAreWritten, LinesAscend, LinesFollow,
           NoLineMissing, Lines, LineNo, Sent, Listening
  <2>2. UNCHANGED <<clientThread, net, log>>
    BY <1>6 DEF vars, clientThread
  <2> QED
    BY <1>0, <1>2, <2>1, <2>2
<1> QED
  <2>1. CASE \E n \in Proposers, v \in Value : StartConsensus(n, v)
    BY <1>3, <2>1, ConsensusAssumption DEF ClientStep
  <2> QED
    BY <1>3, <1>4, <1>5, <1>6, <2>1 DEF Next

\* No file has a line and no channel a message at the start.
LEMMA InitReplication == Init => ReplicationInv
<1> SUFFICES ASSUME Init PROVE ReplicationInv
  OBVIOUS
<1>1. /\ \A s, d \in Node : net[s][d] = << >>
      /\ \A n \in Node : phase[n] = "idle" /\ log[n] = << >>
  BY DEF Init, EmptyChannels
<1>2. /\ Leader \in Node
      /\ \A f \in Follower : /\ f \in Node
                             /\ Lines(f) = {}
                             /\ log[f] = << >>
      /\ log[Leader] = << >>
      /\ Sent = 0
  BY <1>1, LeaderAndFollowers DEF Lines, Sent
<1>3. OnlyLeaderProposes /\ LastLineIsValue
  BY <1>1, LeaderAndFollowers DEF OnlyLeaderProposes, LastLineIsValue
<1>4. LinesInTransit
  BY <1>2 DEF LinesInTransit, LinesAreWritten, LinesAscend, LinesFollow,
              NoLineMissing
<1>5. FollowersArePrefixes
  BY <1>2 DEF FollowersArePrefixes
<1> QED
  BY <1>3, <1>4, <1>5 DEF ReplicationInv

--------------------------------------------------------------------------------
(****************************************************************************)
(* The inductive invariant: the channel to a listening follower holds the   *)
(* lines it has yet to write.  It needs the types, and that nobody but the  *)
(* leader sends lines.                                                      *)
(****************************************************************************)
THEOREM ReplicationInvariance == Spec => [](TypeInv /\ ReplicationInv)
<1>1. Spec => []TypeInv
  BY TypeInvariance
<1>2. Init => ReplicationInv
  BY InitReplication
<1>3. TypeInv /\ ReplicationInv /\ [Next]_vars => ReplicationInv'
  BY ReplicationStep
<1> QED
  BY <1>1, <1>2, <1>3, PTL DEF Spec

(****************************************************************************)
(* Every follower's file is a prefix of the leader's, however many nodes,   *)
(* rounds, timeouts and suspicions there are.                               *)
(****************************************************************************)
THEOREM FollowersCopy == Spec => []FollowersArePrefixes
BY ReplicationInvariance, PTL DEF ReplicationInv

(****************************************************************************)
(* What travels to a listening follower is exactly what it lacks.           *)
(****************************************************************************)
THEOREM TransitIsExact == Spec => []LinesInTransit
BY ReplicationInvariance, PTL DEF ReplicationInv

(****************************************************************************)
(* Refinement: startConsensus' append is Write, handleAcceptedMessage's is  *)
(* Copy of the next line, all other steps stutter.                          *)
(****************************************************************************)
THEOREM Refinement == Spec => ImplementsReplicatedLog
<1>1. Init => Replication!Init
  BY LeaderAndFollowers DEF Init, Replication!Init
<1>2. ASSUME TypeInv, ReplicationInv, [Next]_vars
      PROVE  [Replication!Next]_<<log[Leader], [f \in Follower |-> log[f]]>>
  <2>0. log \in [Node -> Seq(Value)] /\ Leader \in Node
    BY <1>2, LeaderAndFollowers DEF TypeInv, TypeOK
  <2>1. LogStep
    BY <1>2, ReplicationStep
  <2>2. CASE UNCHANGED log
    BY <2>2
  <2>3. ASSUME NEW v \in Value, log' = [log EXCEPT ![Leader] = Append(@, v)]
        PROVE  Replication!Write(v)
    BY <2>0, <2>3, LeaderAndFollowers DEF Replication!Write
  <2>4. ASSUME NEW g \in Follower, Len(log[g]) < Len(log[Leader]),
               log' = [log EXCEPT ![g] =
                         Append(@, log[Leader][Len(log[g]) + 1])]
        PROVE  Replication!Copy(g)
    <3>1. log'[Leader] = log[Leader]
      BY <2>0, <2>4, LeaderAndFollowers
    <3>2. [f \in Follower |-> log'[f]] =
            [[f \in Follower |-> log[f]] EXCEPT ![g] =
               Append(@, log[Leader][Len(@) + 1])]
      BY <2>0, <2>4, LeaderAndFollowers
    <3> QED
      BY <2>4, <3>1, <3>2 DEF Replication!Copy
  <2> QED
    BY <2>1, <2>2, <2>3, <2>4 DEF LogStep, Replication!Next
<1> QED
  BY <1>1, <1>2, ReplicationInvariance, PTL
     DEF Spec, ImplementsReplicatedLog, Replication!Spec
================================================================================

-------------------------- MODULE ClientsOrderProofs ---------------------------
(****************************************************************************)
(* What is in the log files of Clients: the commands of one client in the   *)
(* order of its file; as long as the turns hold, all commands in the order  *)
(* of their turns; and each exactly once if nothing ever goes wrong.        *)
(****************************************************************************)
EXTENDS ClientsProofs, FiniteSetTheorems

--------------------------------------------------------------------------------
(* The numbers of the turns.                                                *)

LEMMA TurnType ==
  ASSUME NEW c \in Client, NEW k \in Nat
  PROVE  /\ TurnOf(<<c, k>>) \in Int
         /\ TurnOf(<<c, k + 1>>) = TurnOf(<<c, k>>) + ClientCount
<1>1. c \in Nat /\ ClientCount \in Nat
  BY ClientIds
<1>2. /\ (k - 1) * ClientCount \in Int
      /\ k * ClientCount = (k - 1) * ClientCount + ClientCount
  BY <1>1
<1> QED
  BY <1>1, <1>2 DEF TurnOf

LEMMA TurnAscends ==
  ASSUME NEW c \in Client, NEW d \in Client, NEW j \in Nat, NEW k \in Nat,
         j < k
  PROVE  TurnOf(<<c, j>>) - c + ClientCount + d <= TurnOf(<<d, k>>)
<1>1. /\ ClientCount \in Nat /\ c \in 0 .. ClientCount - 1
      /\ d \in 0 .. ClientCount - 1
  BY ClientIds DEF Client
<1>2. PICK e \in Nat : k = j + 1 + e
  <2>1. k - j - 1 \in Nat /\ k = j + 1 + (k - j - 1)
    OBVIOUS
  <2> QED
    BY <2>1
<1>3. (k - 1) * ClientCount
        = (j - 1) * ClientCount + ClientCount + e * ClientCount
  BY <1>1, <1>2
<1>4. e * ClientCount \in Nat /\ (j - 1) * ClientCount \in Int
  BY <1>1
<1> QED
  BY <1>1, <1>3, <1>4 DEF TurnOf

LEMMA NextTurn ==
  ASSUME NEW c \in Client, NEW k \in Nat
  PROVE  \E l \in {k, k + 1} :
           TurnOf(<<(c + 1) % ClientCount, l>>) = TurnOf(<<c, k>>) + 1
<1>1. ClientCount \in Nat /\ ClientCount > 0 /\ c \in 0 .. ClientCount - 1
  BY ClientIds DEF Client
<1>2. CASE c + 1 < ClientCount
  <2>1. (c + 1) % ClientCount = c + 1
    BY <1>1, <1>2
  <2> QED
    BY <1>1, <2>1 DEF TurnOf
<1>3. CASE c + 1 = ClientCount
  <2>1. (c + 1) % ClientCount = 0
    BY <1>1, <1>3
  <2>2. k * ClientCount = (k - 1) * ClientCount + ClientCount
    BY <1>1
  <2> QED
    BY <1>1, <1>3, <2>1, <2>2 DEF TurnOf
<1> QED
  BY <1>1, <1>2, <1>3
\* Two turns of the same number are the same turn.
LEMMA TurnsDiffer ==
  ASSUME NEW c \in Client, NEW d \in Client, NEW j \in Nat, NEW k \in Nat,
         TurnOf(<<c, j>>) = TurnOf(<<d, k>>)
  PROVE  c = d /\ j = k
<1>1. /\ ClientCount \in Nat
      /\ c \in 0 .. ClientCount - 1 /\ d \in 0 .. ClientCount - 1
  BY ClientIds DEF Client
<1>2. TurnOf(<<c, j>>) \in Int /\ TurnOf(<<d, k>>) \in Int
  BY TurnType
<1>3. ~ (j < k) /\ ~ (k < j)
  BY <1>1, <1>2, TurnAscends
<1>4. j = k
  BY <1>3
<1> QED
  BY <1>1, <1>2, <1>4 DEF TurnOf

\* The turns of command 0 and before would have negative numbers, and there are
\* not more rounds of turns than turns.
LEMMA TurnBounds ==
  ASSUME NEW c \in Client, NEW k \in Nat, TurnOf(<<c, k>>) >= 0
  PROVE  k \in 1 .. TurnOf(<<c, k>>) + 1
<1>1. ClientCount \in Nat \ {0} /\ c \in 0 .. ClientCount - 1
  BY ClientIds DEF Client
<1>2. k # 0
  BY <1>1 DEF TurnOf
<1>3. (k - 1) * ClientCount >= k - 1 /\ (k - 1) * ClientCount \in Nat
  <2>1. PICK e \in Nat : ClientCount = e + 1
    BY <1>1
  <2>2. (k - 1) * ClientCount = (k - 1) * e + (k - 1)
    BY <1>2, <2>1
  <2>3. (k - 1) * e \in Nat
    BY <1>2, <2>1
  <2> QED
    BY <1>2, <2>2, <2>3
<1> QED
  BY <1>1, <1>2, <1>3 DEF TurnOf

--------------------------------------------------------------------------------
(* The turn file by numbers.                                                *)

LinesAreNumbered ==
  \A i \in 1 .. Len(turnFile) :
    \E k \in 1 .. i : TurnOf(<<turnFile[i], k>>) = i - 1

KnowsItsTurn(c) ==
  /\ Working(c) => TurnOf(Current(c)) = Len(turnFile) - 1
  /\ pc[c] = "turn" => /\ cursor[c] > TurnOf(Current(c)) - ClientCount
                       /\ cursor[c] <= TurnOf(Current(c))
  /\ pc[c] = "init" => cursor[c] = 0

(****************************************************************************)
(* Line i of the turn file is turn i - 1; the client at work is at the      *)
(* command of the last turn; and one that waits has read on from its last   *)
(* turn, but not beyond its next.                                           *)
(****************************************************************************)
TurnNumbers ==
  TurnsHold => LinesAreNumbered /\ \A c \in Client : KnowsItsTurn(c)

\* What earlier invariants say of the turns.
Turns == TypeOK /\ ServiceInv /\ TurnInv /\ TurnNumbers

LEMMA TypesOfTurns ==
  ASSUME Turns
  PROVE  TurnTypes /\ command \in [Client -> Nat]
BY DEF Turns, TypeOK, TurnTypes

\* The number of a client's next turn, from its next command.
LEMMA NextTurnOf ==
  ASSUME NEW c \in Client
  PROVE  TurnOf(Current(c))' = TurnOf(<<c, command'[c]>>)
BY DEF TurnOf, Current

\* A client that a step does not move knows its turn as before, if the step
\* writes no turn or the client is not at work.
LEMMA NumbersOfOther ==
  ASSUME NEW d \in Client, KnowsItsTurn(d),
         pc'[d] = pc[d], cursor'[d] = cursor[d], command'[d] = command[d],
         turnFile' = turnFile \/ ~ Working(d)
  PROVE  KnowsItsTurn(d)'
BY DEF KnowsItsTurn, Working, Current

\* The line of a client does not end the turns.
LEMMA SetTurnHolds ==
  ASSUME TurnTypes, NEW c \in Client, setTurn(c), TurnsHold'
  PROVE  TurnsHold
<1> DEFINE next == (c + 1) % ClientCount
<1>1. turnFile' = Append(turnFile, next) /\ next \in Client
  BY ClientIds DEF setTurn
<1> HIDE DEF next
<1>2. \A i \in DOMAIN turnFile :
        i \in DOMAIN turnFile' /\ turnFile'[i] = turnFile[i]
  BY <1>1 DEF TurnTypes
<1> QED
  BY <1>2 DEF TurnsHold, Range

\* Steps that leave the turns alone.
LEMMA NumbersIdleStep ==
  ASSUME Turns, UNCHANGED <<turnFile, cursor, command>>,
         \A c \in Client : /\ Working(c)' => Working(c)
                           /\ pc'[c] = "turn" => pc[c] = "turn"
                           /\ pc'[c] = "init" => pc[c] = "init"
  PROVE  TurnNumbers'
BY DEF Turns, TurnNumbers, TurnsHold, LinesAreNumbered, KnowsItsTurn, Current

\* A client's first command is the one of turn c, and it has read nothing yet.
LEMMA NumbersStartStep ==
  ASSUME Turns, NEW c \in Client, Start(c)
  PROVE  TurnNumbers'
<1>1. /\ pc[c] = "init"
      /\ command[c] = 0
      /\ command' = [command EXCEPT ![c] = @ + 1]
      /\ \E to \in {"turn", "done"} : pc' = [pc EXCEPT ![c] = to]
      /\ UNCHANGED <<turnFile, cursor>>
  BY DEF Start, NextCommand, Goes, Turns, ServiceInv, GoesOnRightly
<1>2. SUFFICES ASSUME TurnsHold PROVE TurnNumbers'
  BY <1>1 DEF TurnNumbers, TurnsHold
<1>3. LinesAreNumbered'
  BY <1>1, <1>2 DEF Turns, TurnNumbers, LinesAreNumbered
<1>4. cursor[c] = 0
  BY <1>1, <1>2 DEF Turns, TurnNumbers, KnowsItsTurn
<1>5. command'[c] = 1 /\ pc'[c] \in {"turn", "done"}
  BY <1>1, TypesOfTurns DEF TurnTypes
<1>6. TurnOf(<<c, 1>>) = c /\ c \in 0 .. ClientCount - 1
  BY ClientIds DEF TurnOf, Client
<1>7. KnowsItsTurn(c)'
  BY <1>1, <1>4, <1>5, <1>6, ClientIds, NextTurnOf DEF KnowsItsTurn, Working
<1>8. ASSUME NEW d \in Client, d # c PROVE KnowsItsTurn(d)'
  BY <1>1, <1>2, <1>8, TypesOfTurns, NumbersOfOther
     DEF Turns, TurnNumbers, TurnTypes
<1> QED
  BY <1>3, <1>7, <1>8 DEF TurnNumbers

\* A client that reads its own id has read the line of its next turn; any other
\* line comes before that.
LEMMA NumbersWaitStep ==
  ASSUME Turns, NEW c \in Client, waitForTurn(c)
  PROVE  TurnNumbers'
<1> DEFINE i == cursor[c] + 1
<1>1. /\ pc[c] = "turn"
      /\ i \in 1 .. Len(turnFile)
      /\ cursor' = [cursor EXCEPT ![c] = i]
      /\ pc' = [pc EXCEPT ![c] = IF turnFile[i] \in {c, Shutdown}
                                 THEN "lookup" ELSE "turn"]
      /\ UNCHANGED <<turnFile, command>>
  BY TypesOfTurns DEF waitForTurn, Goes, TurnTypes
<1>2. /\ cursor[c] = i - 1 /\ cursor[c] \in Nat /\ i \in Nat
      /\ command[c] \in Nat
  <2>1. cursor[c] \in Nat /\ command[c] \in Nat
    BY TypesOfTurns DEF TurnTypes
  <2> QED
    BY <2>1
<1> HIDE DEF i
<1>3. SUFFICES ASSUME TurnsHold PROVE TurnNumbers'
  BY <1>1 DEF TurnNumbers, TurnsHold
<1>4. LinesAreNumbered'
  BY <1>1, <1>3 DEF Turns, TurnNumbers, LinesAreNumbered
<1>5. turnFile[i] \in Client
  BY <1>1, <1>3, LinesAreClients, TypesOfTurns
<1>6. PICK k \in 1 .. i : TurnOf(<<turnFile[i], k>>) = i - 1
  BY <1>1, <1>3 DEF Turns, TurnNumbers, LinesAreNumbered
<1>7. /\ cursor[c] > TurnOf(<<c, command[c]>>) - ClientCount
      /\ cursor[c] <= TurnOf(<<c, command[c]>>)
  BY <1>1, <1>3 DEF Turns, TurnNumbers, KnowsItsTurn, Current
<1>8. cursor'[c] = i /\ command'[c] = command[c]
  BY <1>1, TypesOfTurns DEF TurnTypes
<1>9. KnowsItsTurn(c)'
  <2>1. CASE turnFile[i] = c
    <3>1. /\ TurnOf(<<c, k>>) = i - 1
          /\ TurnOf(<<c, command[c]>>) \in Int
          /\ c \in Nat /\ ClientCount \in Nat
      BY <1>2, <1>6, <2>1, ClientIds, TurnType
    <3>2. ~ (k < command[c])
      BY <1>2, <1>7, <3>1, TurnAscends
    <3>3. ~ (command[c] < k)
      BY <1>2, <1>7, <3>1, TurnAscends
    <3>4. TurnOf(<<c, command[c]>>) = i - 1
      BY <1>2, <3>1, <3>2, <3>3
    <3>5. pc'[c] = "lookup"
      BY <1>1, <2>1, TypesOfTurns DEF TurnTypes
    <3>6. cursor'[c] = Len(turnFile')
      <4>1. TurnInv'
        BY WaitForTurnStep, TypesOfTurns DEF Turns
      <4> QED
        BY <1>1, <1>3, <3>5, <4>1 DEF TurnInv, TurnsHold, Working
    <3> QED
      BY <1>8, <3>4, <3>5, <3>6, NextTurnOf DEF KnowsItsTurn, Working
  <2>2. CASE turnFile[i] # c
    <3>1. TurnOf(<<c, command[c]>>) # i - 1
      BY <1>2, <1>5, <1>6, <2>2, TurnsDiffer
    <3>2. pc'[c] = "turn"
      BY <1>1, <1>5, <2>2, ClientIds, TypesOfTurns DEF TurnTypes
    <3>3. TurnOf(<<c, command[c]>>) \in Int /\ ClientCount \in Nat
      BY <1>2, TurnType, ClientIds
    <3> QED
      BY <1>2, <1>7, <1>8, <3>1, <3>2, <3>3, NextTurnOf
         DEF KnowsItsTurn, Working
  <2> QED
    BY <2>1, <2>2
<1>10. ASSUME NEW d \in Client, d # c PROVE KnowsItsTurn(d)'
  BY <1>1, <1>3, <1>10, TypesOfTurns, NumbersOfOther
     DEF Turns, TurnNumbers, TurnTypes
<1> QED
  BY <1>4, <1>9, <1>10 DEF TurnNumbers

\* The client that hands over writes the line of the turn after its own, and
\* nobody is at work before that is read.
LEMMA NumbersSetTurnStep ==
  ASSUME Turns, NEW c \in Client, setTurn(c)
  PROVE  TurnNumbers'
<1> DEFINE next == (c + 1) % ClientCount
<1>1. /\ pc[c] = "setTurn"
      /\ turnFile' = Append(turnFile, next)
      /\ cursor' = cursor
      /\ command' = [command EXCEPT ![c] = @ + 1]
      /\ \E to \in {"turn", "done"} : pc' = [pc EXCEPT ![c] = to]
  BY DEF setTurn, NextCommand, Goes
<1>2. next \in Client /\ command[c] \in Nat /\ cursor[c] \in Nat
  BY ClientIds, TypesOfTurns DEF TurnTypes
<1> HIDE DEF next
<1>3. /\ Len(turnFile') = Len(turnFile) + 1
      /\ Len(turnFile) \in Nat
      /\ \A i \in 1 .. Len(turnFile) : turnFile'[i] = turnFile[i]
      /\ turnFile'[Len(turnFile) + 1] = next
  BY <1>1, <1>2, TypesOfTurns DEF TurnTypes
<1>4. TurnsHold' => TurnsHold
  BY SetTurnHolds, TypesOfTurns
<1>5. SUFFICES ASSUME TurnsHold, TurnsHold' PROVE TurnNumbers'
  BY <1>4 DEF TurnNumbers
<1>6. /\ TurnOf(<<c, command[c]>>) = Len(turnFile) - 1
      /\ cursor[c] = Len(turnFile)
  BY <1>1, <1>5 DEF Turns, TurnInv, TurnNumbers, KnowsItsTurn, Working, Current
<1>7. LinesAreNumbered'
  <2> SUFFICES ASSUME NEW i \in 1 .. Len(turnFile) + 1
               PROVE  \E k \in 1 .. i : TurnOf(<<turnFile'[i], k>>) = i - 1
    BY <1>3 DEF LinesAreNumbered
  <2>1. CASE i \in 1 .. Len(turnFile)
    BY <1>3, <1>5, <2>1 DEF Turns, TurnNumbers, LinesAreNumbered
  <2>2. CASE i = Len(turnFile) + 1
    <3>1. PICK l \in {command[c], command[c] + 1} :
            TurnOf(<<next, l>>) = TurnOf(<<c, command[c]>>) + 1
      BY <1>2, NextTurn DEF next
    <3>2. TurnOf(<<next, l>>) = i - 1 /\ l \in Nat
      BY <1>2, <1>3, <1>6, <2>2, <3>1
    <3>3. l \in 1 .. i
      BY <1>2, <1>3, <2>2, <3>2, TurnBounds
    <3> QED
      BY <1>3, <2>2, <3>2, <3>3
  <2> QED
    BY <2>1, <2>2
<1>8. KnowsItsTurn(c)'
  <2>1. command'[c] = command[c] + 1 /\ pc'[c] \in {"turn", "done"}
    BY <1>1, TypesOfTurns DEF TurnTypes
  <2>2. TurnOf(<<c, command[c] + 1>>) = TurnOf(<<c, command[c]>>) + ClientCount
    BY <1>2, TurnType
  <2>3. /\ TurnOf(Current(c))' = Len(turnFile) - 1 + ClientCount
        /\ cursor'[c] = Len(turnFile)
    BY <1>1, <1>6, <2>1, <2>2, NextTurnOf
  <2> QED
    BY <1>3, <2>1, <2>3, ClientIds, SMTT(30) DEF KnowsItsTurn, Working
<1>9. ASSUME NEW d \in Client, d # c PROVE KnowsItsTurn(d)'
  <2>1. ~ Working(d)
    BY <1>1, <1>5, <1>9 DEF Turns, TurnInv, Working
  <2> QED
    BY <1>1, <1>5, <1>9, <2>1, TypesOfTurns, NumbersOfOther
       DEF Turns, TurnNumbers, TurnTypes
<1> QED
  BY <1>7, <1>8, <1>9 DEF TurnNumbers

\* Every step keeps the numbers of the turns.
LEMMA NumbersStep == Turns /\ [Next]_vars => TurnNumbers'
<1> SUFFICES ASSUME Turns, [Next]_vars PROVE TurnNumbers'
  OBVIOUS
<1>0. pc \in [Client -> ClientAt]
  BY TypesOfTurns DEF TurnTypes
<1>1. CASE UNCHANGED client
  BY <1>1, NumbersIdleStep DEF client, Working
<1>2. ASSUME NEW c \in Client, ClientStep(c) PROVE TurnNumbers'
  <2>1. CASE Start(c)
    BY <2>1, NumbersStartStep
  <2>2. CASE waitForTurn(c)
    BY <2>2, NumbersWaitStep
  <2>3. CASE setTurn(c)
    BY <2>3, NumbersSetTurnStep
  <2>4. CASE \/ lookupServerPort(c) \/ Connect(c)
             \/ ReceiveSuccess(c) \/ TimeOut(c)
    <3>1. /\ Working(c)
          /\ UNCHANGED <<turnFile, cursor, command>>
          /\ \E to \in {"connect", "await", "disconnect"} :
               pc' = [pc EXCEPT ![c] = to]
      BY <2>4 DEF lookupServerPort, Connect, ReceiveSuccess, TimeOut,
                  StopsWaiting, Goes, Working
    <3> QED
      BY <1>0, <3>1, NumbersIdleStep DEF Working
  <2> QED
    BY <1>2, <2>1, <2>2, <2>3, <2>4 DEF ClientStep
<1>3. ASSUME NEW n \in Node, Disconnect(n) PROVE TurnNumbers'
  <2> DEFINE c == peer[n]
  <2>1. /\ pc[c] = "disconnect"
        /\ UNCHANGED <<turnFile, cursor, command>>
        /\ \E to \in {"setTurn", "lookup"} : pc' = [pc EXCEPT ![c] = to]
    BY <1>3 DEF Disconnect, Goes
  <2> HIDE DEF c
  <2> QED
    BY <1>0, <2>1, NumbersIdleStep DEF Working
<1>4. CASE TurnFileShutdown
  <2>1. /\ Len(turnFile) + 1 \in DOMAIN turnFile'
        /\ turnFile'[Len(turnFile) + 1] = Shutdown
    BY <1>4, TypesOfTurns DEF TurnFileShutdown, TurnTypes
  <2>2. ~ TurnsHold'
    BY <2>1 DEF TurnsHold, Range
  <2> QED
    BY <2>2 DEF TurnNumbers
<1>5. ASSUME NEW c \in Client, ConnectTimesOut(c) PROVE TurnNumbers'
  <2>1. /\ UNCHANGED <<turnFile, cursor, command>>
        /\ pc' = [pc EXCEPT ![c] = "exited"]
        /\ pc[c] = "connect"
    BY <1>5 DEF ConnectTimesOut, Goes
  <2> QED
    BY <1>0, <2>1, NumbersIdleStep DEF Working
<1> QED
  BY <1>1, <1>2, <1>3, <1>4, <1>5
  DEF Next, vars, ServerStep, ReceiveReplicate, WakeUp, MajorityAccepts,
      RoundReached, RoundFailed, ClusterStep, Suspect, enableClientConn,
      Readmit, Crash, Recover

--------------------------------------------------------------------------------
(* The log files.                                                           *)

(****************************************************************************)
(* A file s is in order: no line is of a command its client has not come to *)
(* yet, or of a turn that has not been; and neither a client's lines nor,   *)
(* while the turns hold, those of all clients ever go back.                 *)
(****************************************************************************)
InOrder(s) ==
  /\ \A i \in DOMAIN s :
       /\ s[i][2] <= command[s[i][1]]
       /\ TurnsHold => TurnOf(s[i]) < Len(turnFile)
  /\ \A i, j \in DOMAIN s : i < j =>
       /\ s[i][1] = s[j][1] => s[i][2] <= s[j][2]
       /\ TurnsHold => TurnOf(s[i]) <= TurnOf(s[j])

FilesInOrder == \A n \in Node : InOrder(file[n])

\* The turns and the commands only go on.
GoesOn ==
  /\ TurnsHold' => TurnsHold
  /\ Len(turnFile) <= Len(turnFile')
  /\ \A c \in Client : command[c] <= command'[c]

LEMMA GoesOnStep == Turns /\ [Next]_vars => GoesOn
<1> SUFFICES ASSUME Turns, [Next]_vars PROVE GoesOn
  OBVIOUS
<1>0. TurnTypes /\ command \in [Client -> Nat] /\ Len(turnFile) \in Nat
  BY TypesOfTurns DEF TurnTypes
<1>1. CASE UNCHANGED <<turnFile, command>>
  BY <1>0, <1>1 DEF GoesOn, TurnsHold
<1>2. ASSUME NEW c \in Client, Start(c) \/ setTurn(c) PROVE GoesOn
  <2>1. command' = [command EXCEPT ![c] = @ + 1]
    BY <1>2 DEF Start, setTurn, NextCommand
  <2>2. \A d \in Client : command[d] <= command'[d]
    BY <1>0, <2>1
  <2>3. CASE Start(c)
    BY <1>0, <2>2, <2>3 DEF Start, GoesOn, TurnsHold
  <2>4. CASE setTurn(c)
    <3>1. Len(turnFile') = Len(turnFile) + 1
      BY <1>0, <2>4, ClientIds DEF setTurn, TurnTypes
    <3> QED
      BY <1>0, <2>2, <2>4, <3>1, SetTurnHolds DEF GoesOn
  <2> QED
    BY <1>2, <2>3, <2>4
<1>3. CASE TurnFileShutdown
  <2>1. TurnsHold /\ Len(turnFile') = Len(turnFile) + 1 /\ UNCHANGED command
    BY <1>0, <1>3 DEF TurnFileShutdown, TurnsHold, TurnTypes
  <2> QED
    BY <1>0, <2>1 DEF GoesOn
<1> QED
  BY <1>1, <1>2, <1>3
  DEF Next, vars, client, ClientStep, waitForTurn, lookupServerPort, Connect,
      ReceiveSuccess, TimeOut, ConnectTimesOut, ServerStep, ReceiveReplicate,
      WakeUp, MajorityAccepts, RoundReached, RoundFailed, Disconnect, ClusterStep,
      Suspect, enableClientConn, Readmit, Crash, Recover

\* What a line of a file is, and when its turn is.
LEMMA LineType ==
  ASSUME NEW s \in Seq(Command), NEW i \in DOMAIN s
  PROVE  /\ s[i] = <<s[i][1], s[i][2]>>
         /\ s[i][1] \in Client /\ s[i][2] \in Nat
         /\ TurnOf(s[i]) \in Int
<1>1. s[i] \in Command
  OBVIOUS
<1>2. /\ s[i] = <<s[i][1], s[i][2]>>
      /\ s[i][1] \in Client /\ s[i][2] \in Nat
  BY <1>1 DEF Command
<1> QED
  BY <1>2, TurnType

\* A file that is left alone stays in order.
LEMMA InOrderLater ==
  ASSUME Turns, Turns', GoesOn, NEW s \in Seq(Command), InOrder(s)
  PROVE  InOrder(s)'
<1>1. /\ command \in [Client -> Nat] /\ command' \in [Client -> Nat]
      /\ Len(turnFile) \in Nat /\ Len(turnFile') \in Nat
  BY DEF Turns, TypeOK
<1>2. ASSUME NEW i \in DOMAIN s
      PROVE  /\ s[i][2] <= command'[s[i][1]]
             /\ TurnsHold' => TurnOf(s[i]) < Len(turnFile')
  <2>1. s[i][1] \in Client /\ s[i][2] \in Nat /\ TurnOf(s[i]) \in Int
    BY LineType
  <2>2. command[s[i][1]] \in Nat /\ command'[s[i][1]] \in Nat
    BY <1>1, <2>1
  <2> QED
    BY <1>1, <2>1, <2>2 DEF InOrder, GoesOn
<1>3. ASSUME NEW i \in DOMAIN s, NEW j \in DOMAIN s, i < j
      PROVE  /\ s[i][1] = s[j][1] => s[i][2] <= s[j][2]
             /\ TurnsHold' => TurnOf(s[i]) <= TurnOf(s[j])
  BY <1>3 DEF InOrder, GoesOn
<1> QED
  BY <1>2, <1>3 DEF InOrder, TurnOf

\* The command of the client at work can be written to any file that is in
\* order: no other command of the client is later, and no turn is.
LEMMA InOrderAppend ==
  ASSUME Turns, NEW s \in Seq(Command), InOrder(s),
         NEW c \in Client, Working(c)
  PROVE  InOrder(Append(s, Current(c)))
<1> DEFINE t == Append(s, Current(c))
<1>1. /\ Current(c) \in Command /\ Len(turnFile) \in Nat
      /\ command[c] \in Nat
  BY CurrentType DEF Turns, TypeOK
<1>2. /\ t \in Seq(Command)
      /\ DOMAIN s = 1 .. Len(s) /\ Len(s) \in Nat
      /\ DOMAIN t = 1 .. Len(s) + 1
      /\ \A i \in 1 .. Len(s) : t[i] = s[i]
      /\ t[Len(s) + 1] = Current(c)
  BY <1>1
<1>3. TurnsHold => TurnOf(Current(c)) = Len(turnFile) - 1
  BY DEF Turns, TurnNumbers, KnowsItsTurn
<1>4. Current(c)[1] = c /\ Current(c)[2] = command[c]
  BY DEF Current
<1> HIDE DEF t
<1>5. ASSUME NEW i \in DOMAIN t
      PROVE  /\ t[i][2] <= command[t[i][1]]
             /\ TurnsHold => TurnOf(t[i]) < Len(turnFile)
  <2>1. CASE i \in 1 .. Len(s)
    BY <1>2, <2>1 DEF InOrder
  <2>2. CASE i = Len(s) + 1
    BY <1>1, <1>2, <1>3, <1>4, <2>2
  <2> QED
    BY <1>2, <2>1, <2>2
<1>6. ASSUME NEW i \in DOMAIN t, NEW j \in DOMAIN t, i < j
      PROVE  /\ t[i][1] = t[j][1] => t[i][2] <= t[j][2]
             /\ TurnsHold => TurnOf(t[i]) <= TurnOf(t[j])
  <2>1. i \in DOMAIN s
    BY <1>2, <1>6
  <2>2. CASE j \in DOMAIN s
    BY <1>2, <1>6, <2>1, <2>2 DEF InOrder
  <2>3. CASE j = Len(s) + 1
    <3>1. TurnsHold => TurnOf(s[i]) < Len(turnFile)
      BY <2>1 DEF InOrder
    <3>2. s[i][2] <= command[s[i][1]]
      BY <2>1 DEF InOrder
    <3>3. TurnOf(s[i]) \in Int
      BY <2>1, LineType
    <3> QED
      BY <1>1, <1>2, <1>3, <1>4, <2>1, <2>3, <3>1, <3>2, <3>3
  <2> QED
    BY <1>2, <2>2, <2>3
<1> QED
  BY <1>5, <1>6 DEF InOrder, t

\* Every step keeps the files in order: a round writes the command of the
\* client it serves, which is at work, and a readmission copies a file.
LEMMA FilesStep ==
  Turns /\ Turns' /\ FilesInOrder /\ [Next]_vars => FilesInOrder'
<1> SUFFICES ASSUME Turns, Turns', FilesInOrder, [Next]_vars
             PROVE  FilesInOrder'
  OBVIOUS
<1>0. file \in [Node -> Seq(Command)] /\ GoesOn
  BY GoesOnStep DEF Turns, TypeOK
<1>1. SUFFICES ASSUME NEW m \in Node
               PROVE  /\ file'[m] \in Seq(Command)
                      /\ InOrder(file'[m])
  <2>1. ASSUME NEW m \in Node, file'[m] \in Seq(Command), InOrder(file'[m])
        PROVE  InOrder(file[m])'
    BY <1>0, <2>1, InOrderLater DEF InOrder
  <2> QED
    BY <1>1, <2>1 DEF FilesInOrder
<1>2. CASE file' = file
  BY <1>0, <1>2 DEF FilesInOrder
<1>3. ASSUME NEW n \in Node, RoundReached(n)
      PROVE  file'[m] \in Seq(Command) /\ InOrder(file'[m])
  <2> DEFINE c == peer[n]
  <2>1. c \in Client /\ Working(c) /\ value[n] = Current(c)
    BY <1>3 DEF RoundReached, Turns, ServiceInv, NodesServe, Serves, Working
  <2>2. \/ file'[m] = file[m]
        \/ file'[m] = Append(file[m], Current(c))
    BY <1>3, <2>1 DEF RoundReached
  <2>3. Current(c) \in Command
    BY <2>1, CurrentType DEF Turns
  <2> HIDE DEF c
  <2>4. file[m] \in Seq(Command) /\ InOrder(file[m])
    BY <1>0 DEF FilesInOrder
  <2>5. /\ Append(file[m], Current(c)) \in Seq(Command)
        /\ InOrder(Append(file[m], Current(c)))
    BY <2>1, <2>3, <2>4, InOrderAppend
  <2>6. CASE file'[m] = file[m]
    BY <2>4, <2>6 DEF InOrder
  <2>7. CASE file'[m] = Append(file[m], Current(c))
    BY <2>5, <2>7 DEF InOrder
  <2> QED
    BY <2>2, <2>6, <2>7
<1>4. ASSUME NEW n \in Node, Readmit(n)
      PROVE  file'[m] \in Seq(Command) /\ InOrder(file'[m])
  <2>1. published \in Node
    BY DEF Turns, TypeOK
  <2>2. file'[m] \in {file[m], file[published]}
    BY <1>0, <1>4 DEF Readmit
  <2> QED
    BY <1>0, <2>1, <2>2 DEF FilesInOrder
<1> QED
  BY <1>2, <1>3, <1>4
  DEF Next, vars, data, ClientStep, Start, waitForTurn, lookupServerPort,
      Connect, ReceiveSuccess, TimeOut, ConnectTimesOut, setTurn, ServerStep,
      ReceiveReplicate, WakeUp, MajorityAccepts, RoundFailed, Disconnect,
      ClusterStep, Suspect, enableClientConn, Crash, Recover, TurnFileShutdown

\* The first turn is the first client's, nobody has read it, and no line is
\* written.
LEMMA OrderInit == Init => TurnInv /\ TurnNumbers /\ FilesInOrder
<1> SUFFICES ASSUME Init PROVE TurnInv /\ TurnNumbers /\ FilesInOrder
  OBVIOUS
<1>1. turnFile = <<0>> /\ Len(turnFile) = 1
  BY DEF Init
<1>2. \A c \in Client : ~ Working(c) /\ pc[c] = "init" /\ cursor[c] = 0
  BY DEF Init, Working
<1>3. TurnOf(<<0, 1>>) = 0
  BY ClientIds DEF TurnOf
<1>4. LinesAreNumbered
  BY <1>1, <1>3 DEF LinesAreNumbered
<1>5. TurnInv
  BY <1>1, <1>2 DEF TurnInv
<1>6. FilesInOrder
  BY DEF Init, FilesInOrder, InOrder
<1> QED
  BY <1>2, <1>4, <1>5, <1>6 DEF TurnNumbers, KnowsItsTurn

\* The inductive invariant of the files.
LEMMA OrderInvariant == Spec => [](Turns /\ FilesInOrder)
<1>1. Init => TurnInv /\ TurnNumbers /\ FilesInOrder
  BY OrderInit
<1>2. TypeOK => TurnTypes
  BY DEF TypeOK, TurnTypes
<1>3. TypeOK /\ ServiceInv /\ TurnInv /\ TurnNumbers /\ [Next]_vars
        /\ TypeOK' /\ ServiceInv'
        => TurnInv' /\ TurnNumbers'
  BY <1>2, TurnStep, NumbersStep DEF Turns
<1>4. TypeOK /\ ServiceInv /\ TurnInv /\ TurnNumbers /\ [Next]_vars
        /\ TypeOK' /\ ServiceInv' /\ TurnInv' /\ TurnNumbers' /\ FilesInOrder
        => FilesInOrder'
  BY FilesStep DEF Turns
<1>5. Turns <=> TypeOK /\ ServiceInv /\ TurnInv /\ TurnNumbers
  BY DEF Turns
<1> QED
  BY <1>1, <1>3, <1>4, <1>5, ServiceInvariant, PTL DEF Spec

(****************************************************************************)
(* Until "shutdown" is written, the commands are in every file in the order *)
(* of their turns: for every number of nodes, clients and commands, and     *)
(* every sequence of outages, late answers, retries and changes of leader.  *)
(****************************************************************************)
THEOREM LogsFollowTheTurns == Spec => []LogFollowsTurns
<1>1. Turns /\ FilesInOrder => LogFollowsTurns
  <2> SUFFICES ASSUME Turns, FilesInOrder, TurnsHold,
                      NEW n \in Node, NEW i \in 1 .. Len(file[n]) - 1
               PROVE  TurnOf(file[n][i]) <= TurnOf(file[n][i + 1])
    BY DEF LogFollowsTurns
  <2>1. file[n] \in Seq(Command)
    BY DEF Turns, TypeOK
  <2>2. i \in DOMAIN file[n] /\ i + 1 \in DOMAIN file[n] /\ i < i + 1
    BY <2>1
  <2> QED
    BY <2>2 DEF FilesInOrder, InOrder
<1> QED
  BY <1>1, OrderInvariant, PTL

(****************************************************************************)
(* The commands of one client are in every file in the order of its command *)
(* file, with and without the turns: a request that a node held for so long *)
(* that its client retried elsewhere never comes after a later command.     *)
(****************************************************************************)
THEOREM ClientsKeepTheirOrder == Spec => []ClientOrder
<1>1. FilesInOrder => ClientOrder
  BY DEF FilesInOrder, InOrder, ClientOrder
<1> QED
  BY <1>1, OrderInvariant, PTL

--------------------------------------------------------------------------------
(* A run in which nothing goes wrong.                                       *)

\* n has a request of its client to serve.
Unanswered(n) == at[n] # "accept" /\ pc[peer[n]] = "await" /\ ~ success[n]

\* The request is in the inbox or being served, not both, and the client that
\* has the answer only hangs up.
AnswersOnce(n) ==
  /\ Len(inbox[n]) <= 1
  /\ at[n] \notin {"accept", "receive"} => inbox[n] = << >> /\ Unanswered(n)
  /\ at[n] = "receive" =>
       IF Unanswered(n)
       THEN inbox[n] # << >>
       ELSE \A k \in DOMAIN inbox[n] : inbox[n][k].code = "DISCONNECT"
  /\ at[n] # "accept" /\ pc[peer[n]] = "disconnect" => replicated[peer[n]]

\* The client at work has its command in the files.
LineIsWritten ==
  \E c \in Client : \/ pc[c] \in {"disconnect", "setTurn"}
                    \/ pc[c] = "await" /\ success[port[c]]

Calm ==
  /\ TurnsHold
  /\ crashed = {} /\ suspected = {}
  /\ \A n \in Node : ~ late[n] /\ at[n] # "cutOff"

\* Every file has the lines of all turns that are over, and of no other.
FilesKeepUp ==
  \A n \in Node :
    /\ Len(file[n]) = IF LineIsWritten THEN Len(turnFile) ELSE Len(turnFile) - 1
    /\ \A i \in DOMAIN file[n] : TurnOf(file[n][i]) = i - 1

(****************************************************************************)
(* As long as there has been no fault, a node has one request to serve or   *)
(* has served it and told the client, which believes it; no wait is over    *)
(* too early; and the files keep up with the turns.                         *)
(****************************************************************************)
Uneventful ==
  faults = 0 => Calm /\ (\A n \in Node : AnswersOnce(n)) /\ FilesKeepUp

\* Steps of the others leave a connection as it is.
LEMMA AnswersOnceOther ==
  ASSUME NEW m \in Node, AnswersOnce(m),
         at'[m] = at[m], inbox'[m] = inbox[m], success'[m] = success[m],
         at[m] # "accept" => /\ peer'[m] = peer[m]
                             /\ pc'[peer[m]] = pc[peer[m]]
                             /\ replicated'[peer[m]] = replicated[peer[m]]
  PROVE  AnswersOnce(m)'
BY DEF AnswersOnce, Unanswered

\* Steps that bring no client to the end of its turn leave the files alone.
LEMMA FilesKeepUpFrame ==
  ASSUME FilesKeepUp, UNCHANGED <<turnFile, file>>,
         LineIsWritten' <=> LineIsWritten
  PROVE  FilesKeepUp'
BY DEF FilesKeepUp, TurnOf

\* The client of a node that is not accepting.
LEMMA ClientOfNode ==
  ASSUME Turns, NEW n \in Node, at[n] # "accept"
  PROVE  /\ peer[n] \in Client
         /\ port[peer[n]] = n
         /\ pc[peer[n]] \in {"await", "disconnect"}
         /\ \A k \in DOMAIN inbox[n] :
              inbox[n][k].code = "DISCONNECT" => pc[peer[n]] = "disconnect"
BY DEF Turns, ServiceInv, NodesServe, Serves

LEMMA NodeOfClient ==
  ASSUME Turns, NEW c \in Client, pc[c] \in {"await", "disconnect"}
  PROVE  port[c] \in Node /\ at[port[c]] # "accept" /\ peer[port[c]] = c
BY DEF Turns, ServiceInv, ClientsAreServed

\* Nobody else is at work.
LEMMA OnlyOneWorks ==
  ASSUME Turns, TurnsHold, NEW c \in Client, Working(c),
         NEW d \in Client, Working(d)
  PROVE  c = d
BY DEF Turns, TurnInv

\* All nodes but n answer it: they are a majority, or all there are.
LEMMA AllAnswer ==
  ASSUME crashed = {}, suspected = {}, NEW n \in Node
  PROVE  Majority(n)
<1>1. clusterSize \in Nat \ {0}
  BY ClusterSizeAssumption
<1>2. IsFiniteSet(Node) /\ Cardinality(Node) = clusterSize
  BY <1>1, FS_Interval DEF Node
<1>3. Cardinality(Node \ {n}) = clusterSize - 1
  BY <1>2, FS_RemoveElement
<1>4. (Node \ (crashed \cup suspected)) \ {n} = Node \ {n}
  OBVIOUS
<1>5. clusterSize - 1 >= (clusterSize - 1) \div 2
  BY <1>1
<1> QED
  BY <1>3, <1>4, <1>5 DEF Majority

\* The clients' steps.
LEMMA UneventfulClientStep ==
  ASSUME Turns, Turns', faults = 0, Calm, \A n \in Node : AnswersOnce(n),
         FilesKeepUp, NEW c \in Client, ClientStep(c)
  PROVE  Calm' /\ (\A n \in Node : AnswersOnce(n)') /\ FilesKeepUp'
<1> USE DEF client, server, cluster, data, Goes
<1>0. /\ pc \in [Client -> ClientAt]
      /\ at \in [Node -> ServerAt]
      /\ peer \in [Node -> Client \cup {NoClient}]
      /\ inbox \in [Node -> Seq(Message)]
      /\ success \in [Node -> BOOLEAN]
      /\ replicated \in [Client -> BOOLEAN]
      /\ turnFile \in Seq(Client \cup {Shutdown})
  BY DEF Turns, TypeOK
<1>1. CASE Start(c) \/ waitForTurn(c) \/ lookupServerPort(c)
  <2>1. /\ pc[c] \in {"init", "turn", "lookup"}
        /\ \E to \in {"turn", "done", "lookup", "connect"} :
             pc' = [pc EXCEPT ![c] = to]
        /\ \A d \in Client \ {c} : port'[d] = port[d]
        /\ UNCHANGED <<turnFile, replicated, server, cluster, data>>
    BY <1>1 DEF Start, waitForTurn, lookupServerPort, NextCommand, Turns, TypeOK
  <2>2. ASSUME NEW m \in Node PROVE AnswersOnce(m)'
    <3>1. at[m] # "accept" => peer[m] \in Client \ {c}
      BY <2>1, ClientOfNode
    <3> QED
      BY <1>0, <2>1, <3>1, AnswersOnceOther
  <2>3. LineIsWritten' <=> LineIsWritten
    BY <1>0, <2>1 DEF LineIsWritten
  <2> QED
    BY <2>1, <2>2, <2>3, FilesKeepUpFrame DEF Calm, TurnsHold
<1>2. CASE Connect(c)
  <2>0. PICK n \in Node : n = port[c]
    BY <1>2 DEF Connect, Turns, ServiceInv, ClientsAreServed
  <2> DEFINE req == Request(c, "REPLICATE")
  <2>1. /\ pc[c] = "connect" /\ at[n] = "accept"
        /\ pc' = [pc EXCEPT ![c] = "await"]
        /\ at' = [at EXCEPT ![n] = "receive"]
        /\ peer' = [peer EXCEPT ![n] = c]
        /\ inbox' = [inbox EXCEPT ![n] = Append(@, req)]
        /\ UNCHANGED <<turnFile, port, replicated, success, late, crashed,
                       suspected, file>>
    BY <1>2, <2>0 DEF Connect
  <2>2. n \in Node /\ inbox[n] = << >> /\ ~ success[n]
    BY <2>1 DEF Turns, ServiceInv, NodesServe
  <2>3. req \in Message
    BY RequestType DEF Turns
  <2> HIDE DEF req
  <2>4. inbox'[n] = <<req>>
    BY <1>0, <2>1, <2>2
  <2>5. AnswersOnce(n)'
    <3>1. /\ at'[n] = "receive" /\ peer'[n] = c
          /\ pc'[c] = "await" /\ success'[n] = success[n]
      BY <1>0, <2>1, <2>2
    <3>2. Len(inbox'[n]) = 1 /\ inbox'[n] # << >>
      BY <2>3, <2>4
    <3> QED
      BY <2>2, <3>1, <3>2 DEF AnswersOnce, Unanswered
  <2>6. ASSUME NEW m \in Node, m # n PROVE AnswersOnce(m)'
    <3>1. at[m] # "accept" => peer[m] \in Client \ {c}
      BY <2>1, ClientOfNode
    <3> QED
      BY <1>0, <2>1, <2>6, <3>1, AnswersOnceOther
  <2>7. LineIsWritten' <=> LineIsWritten
    BY <1>0, <2>0, <2>1, <2>2 DEF LineIsWritten
  <2>8. Calm'
    BY <1>0, <2>1, <2>2 DEF Calm, TurnsHold
  <2> QED
    BY <2>1, <2>5, <2>6, <2>7, <2>8, FilesKeepUpFrame
<1>3. CASE ReceiveSuccess(c)
  <2>0. PICK n \in Node : n = port[c] /\ at[n] # "accept" /\ peer[n] = c
    BY <1>3, NodeOfClient DEF ReceiveSuccess
  <2> DEFINE req == Request(c, "DISCONNECT")
  <2>1. /\ pc[c] = "await" /\ success[n]
        /\ pc' = [pc EXCEPT ![c] = "disconnect"]
        /\ success' = [success EXCEPT ![n] = FALSE]
        /\ replicated' = [replicated EXCEPT ![c] = TRUE]
        /\ inbox' = [inbox EXCEPT ![n] = Append(@, req)]
        /\ UNCHANGED <<turnFile, port, at, peer, late, crashed, suspected,
                       file>>
    BY <1>3, <2>0 DEF ReceiveSuccess, StopsWaiting
  <2>3. req \in Message /\ req.code = "DISCONNECT"
    BY RequestType DEF Turns
  <2> HIDE DEF req
  <2>4. at[n] = "receive" /\ ~ Unanswered(n)
    BY <1>0, <2>1, <2>0 DEF AnswersOnce, Unanswered, ServerAt
  <2>5. inbox[n] = << >>
    <3>1. \A k \in DOMAIN inbox[n] : FALSE
      BY <2>1, <2>0, <2>4, ClientOfNode DEF AnswersOnce
    <3>2. Len(inbox[n]) \in Nat /\ DOMAIN inbox[n] = 1 .. Len(inbox[n])
      BY <1>0
    <3>3. Len(inbox[n]) = 0
      BY <3>1, <3>2
    <3> QED
      BY <1>0, <3>3
  <2>6. inbox'[n] = <<req>>
    BY <1>0, <2>1, <2>0, <2>5
  <2>7. AnswersOnce(n)'
    <3>1. /\ at'[n] = "receive" /\ peer'[n] = c
          /\ pc'[c] = "disconnect" /\ replicated'[c]
      BY <1>0, <2>1, <2>0, <2>4
    <3>2. /\ Len(inbox'[n]) = 1
          /\ \A k \in DOMAIN inbox'[n] : inbox'[n][k].code = "DISCONNECT"
      BY <2>3, <2>6
    <3> QED
      BY <3>1, <3>2 DEF AnswersOnce, Unanswered
  <2>8. ASSUME NEW m \in Node, m # n PROVE AnswersOnce(m)'
    <3>1. at[m] # "accept" => peer[m] \in Client \ {c}
      BY <2>0, <2>8, ClientOfNode
    <3> QED
      BY <1>0, <2>1, <2>8, <3>1, AnswersOnceOther
  <2>9. LineIsWritten' /\ LineIsWritten
    BY <1>0, <2>0, <2>1 DEF LineIsWritten
  <2>10. Calm'
    BY <2>1 DEF Calm, TurnsHold
  <2> QED
    BY <2>1, <2>7, <2>8, <2>9, <2>10, FilesKeepUpFrame
<1>4. CASE TimeOut(c)
  <2> DEFINE n == port[c]
  <2>1. pc[c] = "await" /\ ~ success[n] /\ Overdue(n)
    BY <1>4 DEF TimeOut
  <2>2. n \in Node /\ at[n] # "accept" /\ peer[n] = c
    BY <2>1, NodeOfClient
  <2>3. at[n] = "receive" => inbox[n] # << >>
    BY <2>1, <2>2 DEF AnswersOnce, Unanswered
  <2> QED
    BY <2>1, <2>2, <2>3 DEF Overdue, HeldUp, Calm
<1>5. CASE setTurn(c)
  <2> DEFINE next == (c + 1) % ClientCount
  <2>1. /\ pc[c] = "setTurn"
        /\ turnFile' = Append(turnFile, next)
        /\ cursor' = cursor
        /\ \E to \in {"turn", "done"} : pc' = [pc EXCEPT ![c] = to]
        /\ UNCHANGED <<port, replicated, server, cluster, data>>
    BY <1>5 DEF setTurn, NextCommand
  <2>2. next \in Client
    BY ClientIds
  <2> HIDE DEF next
  <2>3. Len(turnFile') = Len(turnFile) + 1 /\ Len(turnFile) \in Nat
    BY <1>0, <2>1, <2>2
  <2>4. TurnsHold'
    <3>1. \A i \in DOMAIN turnFile' :
            \/ turnFile'[i] \in Client
            \/ i \in DOMAIN turnFile /\ turnFile'[i] = turnFile[i]
      BY <1>0, <2>1, <2>2
    <3> QED
      BY <3>1, ClientIds DEF Calm, TurnsHold, Range
  <2>5. Calm'
    BY <2>1, <2>4 DEF Calm
  <2>6. ASSUME NEW m \in Node PROVE AnswersOnce(m)'
    <3>1. at[m] # "accept" => peer[m] \in Client \ {c}
      BY <2>1, ClientOfNode
    <3> QED
      BY <1>0, <2>1, <3>1, AnswersOnceOther
  <2>7. LineIsWritten
    BY <2>1 DEF LineIsWritten
  <2>8. ~ LineIsWritten'
    <3>1. ASSUME NEW d \in Client, Working(d)' PROVE FALSE
      <4>1. Working(d) /\ d # c /\ Working(c)
        BY <1>0, <2>1, <3>1 DEF Working
      <4> QED
        BY <4>1, OnlyOneWorks DEF Calm
    <3> QED
      BY <3>1 DEF LineIsWritten, Working
  <2>9. FilesKeepUp'
    BY <2>1, <2>3, <2>7, <2>8 DEF FilesKeepUp, TurnOf
  <2> QED
    BY <2>5, <2>6, <2>9
<1> QED
  BY <1>1, <1>2, <1>3, <1>4, <1>5 DEF ClientStep

\* The nodes' steps, as long as they are no fault.
LEMMA UneventfulServerStep ==
  ASSUME Turns, Turns', faults = 0, faults' = 0, Calm,
         \A n \in Node : AnswersOnce(n), FilesKeepUp,
         NEW n \in Node, ServerStep(n)
  PROVE  Calm' /\ (\A m \in Node : AnswersOnce(m)') /\ FilesKeepUp'
<1> USE DEF client, server, cluster, data, Goes
<1>0. /\ pc \in [Client -> ClientAt]
      /\ at \in [Node -> ServerAt]
      /\ peer \in [Node -> Client \cup {NoClient}]
      /\ inbox \in [Node -> Seq(Message)]
      /\ success \in [Node -> BOOLEAN]
      /\ replicated \in [Client -> BOOLEAN]
      /\ file \in [Node -> Seq(Command)]
      /\ turnFile \in Seq(Client \cup {Shutdown})
  BY DEF Turns, TypeOK
<1>1. CASE ReceiveReplicate(n)
  <2>1. /\ at[n] = "receive" /\ inbox[n] # << >>
        /\ Head(inbox[n]).code = "REPLICATE"
        /\ inbox' = [inbox EXCEPT ![n] = Tail(@)]
        /\ at' = [at EXCEPT ![n] = "sleep"]
        /\ UNCHANGED <<client, peer, success, late, cluster, data>>
    BY <1>1 DEF ReceiveReplicate
  <2>2. 1 \in DOMAIN inbox[n] /\ Head(inbox[n]) = inbox[n][1]
    BY <2>1, InboxHead DEF Turns
  <2>3. Unanswered(n) /\ Len(inbox[n]) = 1
    <3>1. Len(inbox[n]) \in Nat /\ DOMAIN inbox[n] = 1 .. Len(inbox[n])
      BY <1>0
    <3>2. /\ inbox[n][1].code # "DISCONNECT"
          /\ at[n] # "accept" /\ inbox[n] # << >>
      BY <2>1, <2>2
    <3>3. Unanswered(n)
      BY <2>2, <3>2 DEF AnswersOnce
    <3>4. Len(inbox[n]) <= 1
      BY DEF AnswersOnce
    <3>5. Len(inbox[n]) >= 1
      BY <2>2, <3>1
    <3> QED
      <4>1. \A k \in Nat : k <= 1 /\ k >= 1 => k = 1
        OBVIOUS
      <4>2. Len(inbox[n]) \in Nat
        BY <3>1
      <4> QED
        BY <3>3, <3>4, <3>5, <4>1, <4>2, Zenon
  <2>4. inbox'[n] = << >>
    BY <1>0, <2>1, <2>3, InboxHead DEF Turns
  <2>5. AnswersOnce(n)'
    BY <1>0, <2>1, <2>3, <2>4 DEF AnswersOnce, Unanswered
  <2>6. ASSUME NEW m \in Node, m # n PROVE AnswersOnce(m)'
    BY <1>0, <2>1, <2>6, AnswersOnceOther
  <2>7. LineIsWritten' <=> LineIsWritten
    BY <2>1 DEF LineIsWritten
  <2>8. Calm'
    BY <1>0, <2>1 DEF Calm, TurnsHold
  <2> QED
    BY <2>1, <2>5, <2>6, <2>7, <2>8, FilesKeepUpFrame
<1>2. CASE WakeUp(n) \/ MajorityAccepts(n)
  <2>1. /\ at[n] \in {"sleep", "round"}
        /\ \E to \in {"round", "accepted"} : at' = [at EXCEPT ![n] = to]
        /\ UNCHANGED <<client, peer, inbox, success, late, cluster, data>>
    BY <1>2 DEF WakeUp, MajorityAccepts, Calm
  <2>2. AnswersOnce(n)'
    BY <1>0, <2>1 DEF AnswersOnce, Unanswered
  <2>3. ASSUME NEW m \in Node, m # n PROVE AnswersOnce(m)'
    BY <1>0, <2>1, <2>3, AnswersOnceOther
  <2>4. LineIsWritten' <=> LineIsWritten
    BY <2>1 DEF LineIsWritten
  <2>5. Calm'
    BY <1>0, <2>1 DEF Calm, TurnsHold
  <2> QED
    BY <2>1, <2>2, <2>3, <2>4, <2>5, FilesKeepUpFrame
<1>3. CASE RoundReached(n)
  <2>1. /\ at[n] = "accepted"
        /\ at' = [at EXCEPT ![n] = "receive"]
        /\ success' = [success EXCEPT ![n] = TRUE]
        /\ \A m \in Node : file'[m] = Append(file[m], value[n])
        /\ UNCHANGED <<client, peer, inbox, late, cluster>>
    BY <1>3 DEF RoundReached, RoundEnds, Calm
  <2>2. Unanswered(n) /\ inbox[n] = << >>
    BY <2>1 DEF AnswersOnce
  <2>3. PICK c \in Client : /\ c = peer[n] /\ port[c] = n
                            /\ pc[c] = "await" /\ ~ success[n]
    BY <2>1, <2>2, ClientOfNode DEF Unanswered
  <2>4. Working(c) /\ value[n] = Current(c) /\ Current(c) \in Command
    BY <2>1, <2>3, CurrentType
       DEF Working, Turns, ServiceInv, NodesServe, Serves
  <2>5. TurnOf(Current(c)) = Len(turnFile) - 1 /\ Len(turnFile) \in Nat
    BY <1>0, <2>4 DEF Turns, TurnNumbers, KnowsItsTurn, Calm
  <2>6. ~ LineIsWritten
    <3>1. ASSUME NEW d \in Client, Working(d) PROVE d = c
      BY <2>4, <3>1, OnlyOneWorks DEF Calm
    <3> QED
      BY <2>3, <3>1 DEF LineIsWritten, Working
  <2>7. LineIsWritten'
    BY <1>0, <2>1, <2>3 DEF LineIsWritten
  <2>8. FilesKeepUp'
    <3> SUFFICES ASSUME NEW m \in Node
                 PROVE  /\ Len(file'[m]) = Len(turnFile)
                        /\ \A i \in DOMAIN file'[m] :
                             TurnOf(file'[m][i]) = i - 1
      BY <2>1, <2>7 DEF FilesKeepUp, TurnOf
    <3>1. /\ file[m] \in Seq(Command) /\ file'[m] = Append(file[m], Current(c))
          /\ Len(file[m]) = Len(turnFile) - 1
      BY <1>0, <2>1, <2>4, <2>6 DEF FilesKeepUp
    <3>2. /\ Len(file'[m]) = Len(turnFile)
          /\ DOMAIN file'[m] = 1 .. Len(turnFile)
          /\ DOMAIN file[m] = 1 .. Len(turnFile) - 1
          /\ file'[m][Len(turnFile)] = Current(c)
          /\ \A i \in 1 .. Len(turnFile) - 1 : file'[m][i] = file[m][i]
      BY <2>4, <2>5, <3>1
    <3>3. ASSUME NEW i \in 1 .. Len(turnFile) PROVE TurnOf(file'[m][i]) = i - 1
      <4>1. CASE i = Len(turnFile)
        BY <2>5, <3>2, <4>1
      <4>2. CASE i \in 1 .. Len(turnFile) - 1
        BY <3>2, <4>2 DEF FilesKeepUp
      <4> QED
        BY <2>5, <4>1, <4>2
    <3> QED
      BY <3>2, <3>3
  <2>9. AnswersOnce(n)'
    BY <1>0, <2>1, <2>2 DEF AnswersOnce, Unanswered
  <2>10. ASSUME NEW m \in Node, m # n PROVE AnswersOnce(m)'
    BY <1>0, <2>1, <2>10, AnswersOnceOther
  <2>11. Calm'
    BY <1>0, <2>1 DEF Calm, TurnsHold
  <2> QED
    BY <2>8, <2>9, <2>10, <2>11
<1>4. CASE RoundFailed(n)
  <2>1. at[n] # "cutOff" /\ n \notin crashed \cup suspected /\ Majority(n)
    BY AllAnswer DEF Calm
  <2>2. faults' = faults + 1
    BY <1>4, <2>1 DEF RoundFailed, NoMajority, Fault
  <2> QED
    BY <2>2
<1>5. CASE Disconnect(n)
  <2>0. at[n] = "receive" /\ inbox[n] # << >>
    BY <1>5 DEF Disconnect
  <2>1. PICK c \in Client : c = peer[n] /\ port[c] = n
    BY <2>0, ClientOfNode
  <2>2. /\ pc[c] = "disconnect"
        /\ pc' = [pc EXCEPT ![c] =
                            IF replicated[c] THEN "setTurn" ELSE "lookup"]
        /\ \A d \in Client \ {c} : port'[d] = port[d]
        /\ \A d \in Client \ {c} : replicated'[d] = replicated[d]
        /\ at' = [at EXCEPT ![n] = "accept"]
        /\ \A m \in Node \ {n} : peer'[m] = peer[m]
        /\ inbox' = [inbox EXCEPT ![n] = Tail(@)]
        /\ success' = [success EXCEPT ![n] = FALSE]
        /\ late' = [late EXCEPT ![n] = FALSE]
        /\ UNCHANGED <<turnFile, cluster, data>>
    BY <1>5, <2>1 DEF Disconnect, Turns, TypeOK
  <2>3. replicated[c]
    BY <2>0, <2>1, <2>2 DEF AnswersOnce
  <2>4. Len(inbox'[n]) <= 1
    <3>1. Len(Tail(inbox[n])) = Len(inbox[n]) - 1 /\ Len(inbox[n]) <= 1
      BY <2>0, InboxHead DEF Turns, AnswersOnce
    <3>2. Len(inbox[n]) \in Nat
      BY <1>0
    <3> QED
      BY <1>0, <2>2, <3>1, <3>2
  <2>5. AnswersOnce(n)'
    BY <1>0, <2>2, <2>4 DEF AnswersOnce, Unanswered
  <2>6. ASSUME NEW m \in Node, m # n PROVE AnswersOnce(m)'
    <3>1. at[m] # "accept" => peer[m] \in Client \ {c}
      BY <2>1, <2>6, ClientOfNode
    <3> QED
      BY <1>0, <2>2, <2>6, <3>1, AnswersOnceOther
  <2>7. LineIsWritten' /\ LineIsWritten
    BY <1>0, <2>2, <2>3 DEF LineIsWritten
  <2>8. Calm'
    BY <1>0, <2>2 DEF Calm, TurnsHold, Turns, TypeOK
  <2> QED
    BY <2>2, <2>5, <2>6, <2>7, <2>8, FilesKeepUpFrame
<1> QED
  BY <1>1, <1>2, <1>3, <1>4, <1>5 DEF ServerStep

\* Every other step is a fault, or what comes of one.
LEMMA UneventfulStep ==
  Turns /\ Turns' /\ Uneventful /\ [Next]_vars => Uneventful'
<1> SUFFICES ASSUME Turns, Turns', Uneventful, [Next]_vars, faults' = 0
             PROVE  Calm' /\ (\A n \in Node : AnswersOnce(n)') /\ FilesKeepUp'
  BY DEF Uneventful
<1>1. faults' \in {faults, faults + 1} /\ faults \in Nat
  BY DEF Turns, TypeOK, Next, vars, client, server, cluster, data, ClientStep,
         Start, waitForTurn, lookupServerPort, Connect, ReceiveSuccess, TimeOut,
         ConnectTimesOut, setTurn, ServerStep, ReceiveReplicate, WakeUp,
         MajorityAccepts, RoundReached, RoundFailed, NoMajority, Fault,
         Disconnect, ClusterStep, Suspect, enableClientConn, Readmit, Crash,
         Recover, TurnFileShutdown
<1>2. faults = 0
  BY <1>1
<1>3. Calm /\ (\A n \in Node : AnswersOnce(n)) /\ FilesKeepUp
  BY <1>2 DEF Uneventful
<1>4. CASE \E c \in Client : ClientStep(c)
  BY <1>2, <1>3, <1>4, UneventfulClientStep
<1>5. CASE \E n \in Node : ServerStep(n)
  BY <1>2, <1>3, <1>5, UneventfulServerStep
<1>6. ASSUME NEW n \in Node, ClusterStep(n) PROVE FALSE
  BY <1>3, <1>6 DEF ClusterStep, Suspect, enableClientConn, Readmit, Calm
<1>7. CASE (\E S \in Outages : Crash(S)) \/ Recover \/ TurnFileShutdown
  BY <1>2, <1>3, <1>7 DEF Crash, Recover, TurnFileShutdown, Fault, Calm
<1>8. CASE UNCHANGED vars
  BY <1>3, <1>8 DEF vars, client, server, cluster, data, Calm, TurnsHold,
     AnswersOnce, Unanswered, FilesKeepUp, LineIsWritten, TurnOf
<1>9. ASSUME NEW c \in Client, ConnectTimesOut(c) PROVE FALSE
  BY <1>3, <1>9, PortIsAccepting DEF ConnectTimesOut, Calm, Turns
<1> QED
  BY <1>4, <1>5, <1>6, <1>7, <1>8, <1>9 DEF Next

(****************************************************************************)
(* Without outages, rounds that fail and a "shutdown", every file has the   *)
(* commands in the order of their turns, each exactly once: for every       *)
(* number of nodes, clients and commands, in every interleaving.            *)
(****************************************************************************)
THEOREM EachExactlyOnce == Spec => []ExactlyOnce
<1>1. Init => Uneventful
  <2> SUFFICES ASSUME Init PROVE Uneventful
    OBVIOUS
  <2>1. Calm
    <3>1. turnFile = <<0>> /\ 0 # Shutdown
      BY DEF Init, Shutdown
    <3> QED
      BY <3>1 DEF Init, Calm, TurnsHold, Range
  <2>2. ~ LineIsWritten
    BY DEF Init, LineIsWritten
  <2>3. FilesKeepUp
    BY <2>2 DEF Init, FilesKeepUp
  <2>4. \A n \in Node : AnswersOnce(n)
    BY DEF Init, AnswersOnce
  <2> QED
    BY <2>1, <2>3, <2>4 DEF Uneventful
<1>2. Uneventful => ExactlyOnce
  BY DEF Uneventful, FilesKeepUp, ExactlyOnce
<1> QED
  BY <1>1, <1>2, UneventfulStep, OrderInvariant, PTL DEF Spec
================================================================================

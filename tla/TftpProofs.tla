----------------------------- MODULE TftpProofs -----------------------------
(***************************************************************************)
(* Theorems about Tftp, for every number of block numbers, every file and   *)
(* every choice of faults.                                                  *)
(***************************************************************************)
EXTENDS Tftp, SequenceTheorems, TLAPS

(* A block number fits its field, and below Wrap it is the field; the next  *)
(* number starts again at 0.                                                *)
LEMMA FieldFits ==
  ASSUME NEW n \in Nat
  PROVE  /\ Field(n) \in 0..(Wrap - 1)
         /\ n < Wrap => Field(n) = n
         /\ Field(Wrap) = 0
  BY TftpAssumption DEF Field

(* Only the last block of a file is short. *)
LEMMA FileShape ==
  ASSUME TypeOK
  PROVE  /\ source \in Seq(Block)
         /\ Len(source) \in Nat \ {0}
         /\ \A k \in 1..Len(source) :
              source[k] \in Block /\ (source[k] \in Short <=> k = Len(source))
<1>1. source \in File
  BY TftpAssumption DEF TypeOK
<1>2. source \in Seq(Block) /\ source # <<>> /\ DOMAIN source = 1..Len(source)
  BY <1>1 DEF File
<1>3. Len(source) \in Nat \ {0}
  BY <1>2, EmptySeq
<1> QED
  BY <1>1, <1>2, <1>3, ElementOfSeq DEF File

LEMMA PacketsTyped ==
  ASSUME NEW n \in Nat, NEW b \in Block
  PROVE  Data(n, b) \in Packet /\ Ack(n) \in Packet /\ Request \in Packet /\ Error \in Packet
  BY FieldFits DEF Data, Ack, Packet

(* Adding the right block to the first ones gives the first ones. *)
LEMMA NextBlock ==
  ASSUME NEW s \in Seq(Block), NEW n \in Nat, FirstBlocks(s, n), NEW b \in Block,
         b = source[n + 1]
  PROVE  FirstBlocks(Append(s, b), n + 1)
  BY AppendProperties DEF FirstBlocks

LEMMA PrefixPointwise ==
  ASSUME NEW s \in Seq(Block), NEW t \in Seq(Block)
  PROVE  IsPrefix(s, t) <=> /\ Len(s) <= Len(t)
                            /\ \A i \in 1..Len(s) : s[i] = t[i]
  BY DEF IsPrefix

-----------------------------------------------------------------------------
LEMMA TypeAtStart == Init => TypeOK /\ TftpInv
<1> SUFFICES ASSUME Init PROVE TypeOK /\ TftpInv
  OBVIOUS
<1>1. TypeOK
  <2>1. get \in BOOLEAN /\ lossy \in BOOLEAN
    BY Zenon DEF Init
  <2>2. local \in Seq(Block) /\ remote \in Seq(Block)
    BY EmptySeq DEF Init
  <2> QED
    BY <2>1, <2>2 DEF Init, TypeOK
<1>2. Len(source) \in Nat \ {0}
  BY <1>1, FileShape
<1>3. FirstBlocks(<<>>, 0)
  BY EmptySeq DEF FirstBlocks
<1>4. GetInv
  BY <1>2, <1>3, TftpAssumption
     DEF Init, GetInv, GetClient, GetServer, GetData, GetAcks, Success
<1>5. PutInv
  BY <1>2, <1>3, EmptySeq DEF Init, PutInv
<1> QED
  BY <1>1, <1>4, <1>5 DEF TftpInv, Init

(* The block a client reads next, or the server sends next, is a block. *)
LEMMA TypeStep == TypeOK /\ TftpInv /\ [Next]_vars => TypeOK'
<1> SUFFICES ASSUME TypeOK, TftpInv, [Next]_vars PROVE TypeOK'
  OBVIOUS
<1> USE DEF TypeOK
<1>s. /\ source \in Seq(Block) /\ Len(source) \in Nat \ {0}
      /\ \A k \in 1..Len(source) : source[k] \in Block
  BY FileShape
<1>p. \A n \in Nat, b \in Block :
        Data(n, b) \in Packet /\ Ack(n) \in Packet /\ Request \in Packet /\ Error \in Packet
  BY PacketsTyped
<1>1. CASE Open
  BY <1>1, <1>s, <1>p DEF Open, peer
<1>2. CASE OpenFails
  BY <1>2 DEF OpenFails, Return, peer
<1>3. CASE ReceiveFails \/ ReceiveError
  BY <1>3 DEF ReceiveFails, ReceiveError, Return, peer
<1>4. CASE ReceiveData
  <2>1. PICK m \in toClient :
          /\ Expected(m)
          /\ local' = Append(local, m.data)
          /\ toServer' = toServer \cup {Ack(block)}
          /\ IF m.data \in Short
               THEN Return(0) /\ UNCHANGED block
               ELSE block' = block + 1 /\ UNCHANGED <<pc, status>>
          /\ UNCHANGED <<get, source, lossy, peer, toClient>>
    BY <1>4 DEF ReceiveData
  <2>2. m.data \in Block
    BY <2>1 DEF Expected, Packet, Request, Error
  <2>3. local' \in Seq(Block)
    BY <2>1, <2>2, AppendProperties
  <2>4. Ack(block) \in Packet
    BY <1>s, <1>p
  <2> QED
    BY <2>1, <2>3, <2>4 DEF Return, peer
<1>5. CASE WriteFails
  BY <1>5 DEF WriteFails, Return, peer
<1>6. CASE ReceiveAck
  <2>1. PICK b \in Reads :
          /\ ~ get /\ pc = "wait"
          /\ Sends(b)
          /\ UNCHANGED <<get, source, lossy, peer, toClient>>
    BY <1>6 DEF ReceiveAck, Receives
  <2>2. b \in Block
    <3>1. block <= Len(source) /\ Len(local) = block - 1
      BY <2>1 DEF TftpInv, PutInv
    <3>2. source[Len(local) + 1] \in Block
      BY <3>1, <1>s
    <3> QED
      BY <3>2, TftpAssumption DEF Reads
  <2>3. local' \in Seq(Block)
    BY <2>1, <2>2, AppendProperties DEF Sends
  <2>4. Data(block, b) \in Packet
    BY <2>2, <1>p
  <2> QED
    BY <2>1, <2>3, <2>4 DEF Sends, Return, peer
<1>7. CASE SendFails
  BY <1>7 DEF SendFails, Return, peer
<1>8. CASE Serve
  <2>1. Data(1, source[1]) \in Packet /\ Ack(0) \in Packet
    BY <1>s, <1>p
  <2> QED
    BY <1>8, <2>1 DEF Serve, client
<1>9. CASE Refuse
  BY <1>9, <1>s, <1>p DEF Refuse, client
<1>10. CASE ServeAck
  <2>1. CASE number = Len(source)
    BY <1>10, <2>1 DEF ServeAck, client
  <2>2. CASE number # Len(source)
    <3>1. number + 1 \in 1..Len(source)
      BY <1>10, <1>s, <2>2 DEF ServeAck, TftpInv, GetInv, GetClient, GetServer
    <3>2. Data(number + 1, source[number + 1]) \in Packet
      BY <3>1, <1>s, <1>p
    <3> QED
      BY <1>10, <2>2, <3>2 DEF ServeAck, client
  <2> QED
    BY <2>1, <2>2
<1>11. CASE ServeData
  <2>1. PICK m \in toServer :
          /\ m.op = "DATA"
          /\ remote' = Append(remote, m.data)
          /\ server' = IF m.data \in Short THEN "complete" ELSE "busy"
    BY <1>11 DEF ServeData
  <2>2. m.data \in Block
    BY <2>1 DEF Packet, Request, Error
  <2>3. remote' \in Seq(Block)
    BY <2>1, <2>2, AppendProperties
  <2>4. Ack(number + 1) \in Packet
    BY <1>s, <1>p
  <2> QED
    BY <1>11, <2>1, <2>3, <2>4 DEF ServeData, client
<1>12. CASE Resend
  <2>1. get => number \in 1..Len(source)
    BY <1>12, <1>s DEF Resend, TftpInv, GetInv, GetClient, GetServer
  <2>2. (IF get THEN Data(number, source[number]) ELSE Ack(number)) \in Packet
    BY <2>1, <1>s, <1>p
  <2> QED
    BY <1>12, <2>2 DEF Resend, client, peer
<1>13. CASE Lose
  BY <1>13 DEF Lose, client, peer
<1>14. CASE UNCHANGED vars
  BY <1>14 DEF vars, client, peer
<1> QED
  BY <1>1, <1>2, <1>3, <1>4, <1>5, <1>6, <1>7, <1>8, <1>9, <1>10, <1>11, <1>12,
     <1>13, <1>14 DEF Next, Client, Server

-----------------------------------------------------------------------------
(* Where get is under way, the client's side of the invariant is disturbed  *)
(* by its own steps only, and the server's by the server's.                 *)

LEMMA GetSameClient ==
  ASSUME TypeOK, GetClient, UNCHANGED <<source, pc, status, block, local>>
  PROVE  GetClient'
  BY DEF GetClient, Success, FirstBlocks

LEMMA GetFailing ==
  ASSUME TypeOK, TftpInv, get, pc = "wait" \/ pc = "open", Return(1),
         UNCHANGED <<get, source, block, local, peer, toServer, toClient>>
  PROVE  GetInv'
  BY DEF TftpInv, GetInv, GetClient, GetServer, GetData, GetAcks, Success, Return,
         FirstBlocks, peer

(* The number of the block a get waits for stands for no other block. *)
LEMMA ExpectedBlock ==
  ASSUME TypeOK, TftpInv, get, pc = "wait", NEW m \in toClient, Expected(m)
  PROVE  /\ block < Wrap /\ block <= Len(source) /\ m.data = source[block]
         /\ FirstBlocks(local, block - 1)
<1>t. block \in Nat \ {0} /\ number \in Nat
  BY DEF TypeOK
<1>i. GetClient /\ GetServer /\ GetData
  BY DEF TftpInv, GetInv
<1>1. PICK k \in 1..number : m = Data(k, source[k])
  BY <1>i DEF GetData, Expected, Error
<1>2. k \in Nat /\ k <= block /\ block <= Wrap
  BY <1>1, <1>i, <1>t DEF GetServer, GetClient
<1>3. Field(k) = block
  BY <1>1 DEF Data, Expected
<1>4. k = block /\ block < Wrap
  BY <1>2, <1>3, <1>t, FieldFits, TftpAssumption
<1> QED
  BY <1>1, <1>4, <1>i DEF Data, GetClient, Success

LEMMA GetStep == TypeOK /\ TftpInv /\ [Next]_vars => GetInv'
<1> SUFFICES ASSUME TypeOK, TftpInv, [Next]_vars, get' PROVE GetInv'
  BY DEF GetInv
<1>t. /\ block \in Nat \ {0} /\ number \in Nat /\ local \in Seq(Block)
      /\ toClient \subseteq Packet /\ toServer \subseteq Packet
  BY DEF TypeOK
<1>s. /\ Len(source) \in Nat \ {0}
      /\ \A k \in 1..Len(source) : source[k] \in Short <=> k = Len(source)
  BY FileShape
<1>g. get /\ source' = source
  BY DEF Next, Client, Server, Open, OpenFails, ReceiveFails, ReceiveError, ReceiveData, WriteFails,
         ReceiveAck, SendFails, Serve, Refuse, ServeAck, ServeData, Resend, Lose, vars
<1>i. GetClient /\ GetServer /\ GetData /\ GetAcks
  BY <1>g DEF TftpInv, GetInv
<1>w. \A n \in Nat : /\ Field(n) \in 0..(Wrap - 1)
                     /\ n < Wrap => Field(n) = n
                     /\ Field(Wrap) = 0
  BY FieldFits
<1> USE <1>g
<1>1. CASE Open
  <2>1. GetClient'
    BY <1>1, <1>i DEF Open, GetClient, Success, FirstBlocks
  <2>2. GetAcks'
    BY <1>1, <1>i DEF Open, GetAcks, Success, Ack
  <2>3. GetServer' /\ GetData'
    BY <1>1, <1>i DEF Open, GetServer, GetData, peer
  <2> QED
    BY <2>1, <2>2, <2>3 DEF GetInv
<1>2. CASE OpenFails
  BY <1>2, GetFailing DEF OpenFails
<1>3. CASE ReceiveFails \/ ReceiveError
  BY <1>3, GetFailing DEF ReceiveFails, ReceiveError, Receives
<1>4. CASE ReceiveData
  <2>1. PICK m \in toClient :
          /\ pc = "wait"
          /\ m.op = "DATA" /\ m.field = block
          /\ local' = Append(local, m.data)
          /\ toServer' = toServer \cup {Ack(block)}
          /\ IF m.data \in Short
               THEN Return(0) /\ UNCHANGED block
               ELSE block' = block + 1 /\ UNCHANGED <<pc, status>>
          /\ UNCHANGED <<peer, toClient>>
    BY <1>4 DEF ReceiveData, Receives, Expected
  <2>3. block < Wrap /\ block <= Len(source) /\ m.data = source[block]
    BY <2>1, ExpectedBlock DEF Expected
  <2>4. m.data = source[block] /\ block <= Len(source)
    BY <2>3
  <2>5. FirstBlocks(local', block)
    <3>1. FirstBlocks(local, block - 1)
      BY <2>1, <1>i DEF GetClient, Success
    <3>2. source[block] \in Block
      BY <2>4, <1>t, FileShape
    <3>3. block - 1 \in Nat /\ (block - 1) + 1 = block
      BY <1>t
    <3> QED
      BY <2>1, <2>4, <3>1, <3>2, <3>3, <1>t, NextBlock
  <2>6. GetClient' /\ GetAcks'
    <3>1. CASE m.data \in Short
      <4>1. block = Len(source) /\ block' = block /\ Success'
        BY <2>1, <2>4, <3>1, <1>s, <1>t DEF Return, Success
      <4>2. GetClient'
        <5>1. (block <= Len(source) /\ block <= Wrap /\ block = Len(source) /\ block < Wrap)'
          BY <4>1, <2>3, <2>4, <1>t, TftpAssumption
        <5>2. FirstBlocks(local, block)'
          BY <4>1, <2>5 DEF FirstBlocks
        <5> QED
          BY <4>1, <5>1, <5>2 DEF GetClient
      <4> QED
        BY <2>1, <2>3, <4>1, <4>2, <1>i, <1>t DEF GetAcks, Ack, Field
    <3>2. CASE m.data \notin Short
      <4>1. block < Len(source) /\ block' = block + 1 /\ ~ Success' /\ ~ Success
        BY <2>1, <2>4, <3>2, <1>s, <1>t DEF Success
      <4>2. GetClient'
        <5>1. block' <= Wrap /\ block' - 1 = block
          BY <4>1, <2>3, <1>t, TftpAssumption
        <5>2. block' <= Len(source)
          <6> DEFINE N == Len(source)
          <6>1. block < N /\ N \in Nat
            BY <4>1, <1>s
          <6> HIDE DEF N
          <6>2. block' <= N
            BY <4>1, <6>1, <1>t
          <6> QED
            BY <6>2 DEF N
        <5>3. FirstBlocks(local, block - 1)'
          BY <5>1, <2>5 DEF FirstBlocks
        <5> QED
          BY <4>1, <5>1, <5>2, <5>3 DEF GetClient
      <4>3. \A j \in 1..block : j \in 1..block' /\ j < block'
        BY <4>1, <1>t
      <4>4. GetAcks'
        BY <2>1, <2>3, <4>1, <4>3, <1>i, <1>t DEF GetAcks, Ack, Field
      <4> QED
        BY <4>2, <4>4
    <3> QED
      BY <3>1, <3>2
  <2>7. GetServer' /\ GetData'
    BY <2>1, <1>i, <1>t DEF GetServer, GetData, peer, Return
  <2> QED
    BY <2>6, <2>7 DEF GetInv
<1>5. CASE WriteFails
  BY <1>5, GetFailing DEF WriteFails, Receives
<1>6. CASE ReceiveAck
  BY <1>6 DEF ReceiveAck
<1>7. CASE SendFails
  BY <1>7 DEF SendFails
<1>8. CASE Serve
  <2>1. number = 0 /\ number' = 1 /\ toClient' = toClient \cup {Data(1, source[1])}
    BY <1>8 DEF Serve, TftpInv
  <2>2. GetClient' /\ GetAcks'
    BY <1>8, <1>i, GetSameClient DEF Serve, client, GetAcks, Success
  <2>3. GetServer'
    BY <1>8, <2>1, <1>t DEF Serve, client, GetServer
  <2>4. GetData'
    BY <2>1, <1>i DEF GetData, Data, Field
  <2> QED
    BY <2>2, <2>3, <2>4 DEF GetInv
<1>9. CASE Refuse
  <2>1. GetClient' /\ GetAcks'
    BY <1>9, <1>i, GetSameClient DEF Refuse, client, GetAcks, Success
  <2>2. GetServer' /\ GetData'
    BY <1>9, <1>i DEF Refuse, client, GetServer, GetData
  <2> QED
    BY <2>1, <2>2 DEF GetInv
<1>10. CASE ServeAck
  <2>1. GetClient' /\ GetAcks'
    BY <1>10, <1>i, GetSameClient DEF ServeAck, client, GetAcks, Success
  <2>2. CASE number = Len(source)
    BY <1>10, <2>1, <2>2, <1>i DEF ServeAck, client, GetInv, GetServer, GetData
  <2>3. CASE number # Len(source)
    <3>1. PICK k \in 1..block : Ack(number) = Ack(k) /\ k < Wrap /\ (k < block \/ Success)
      BY <1>10, <1>i DEF ServeAck, GetAcks, Ack, Request
    <3>2. number = k
      <4>1. Field(number) = Field(k)
        BY <3>1 DEF Ack
      <4>2. number <= Wrap /\ k \in Nat \ {0}
        BY <1>i, <1>t, TftpAssumption DEF GetServer, GetClient
      <4> QED
        BY <3>1, <4>1, <4>2, <1>w, <1>t, TftpAssumption
    <3>3. number < block
      BY <3>1, <3>2, <2>3, <1>i, <1>t, <1>s DEF GetClient, GetServer
    <3>4. /\ number' = number + 1 /\ server' = server
          /\ toClient' = toClient \cup {Data(number + 1, source[number + 1])}
      BY <1>10, <2>3 DEF ServeAck
    <3>5. GetServer'
      BY <1>10, <3>3, <3>4, <1>t DEF ServeAck, client, GetServer
    <3>6. \A j \in 1..number : j \in 1..number'
      BY <3>4, <1>t
    <3>7. GetData'
      BY <3>4, <3>6, <1>i, <1>t DEF GetData, Data, Field
    <3> QED
      BY <2>1, <3>5, <3>7 DEF GetInv
  <2> QED
    BY <2>2, <2>3
<1>11. CASE ServeData
  BY <1>11 DEF ServeData
<1>12. CASE Resend
  <2>1. number \in 1..number
    BY <1>12, <1>i, <1>t DEF Resend, GetServer
  <2>2. GetData'
    BY <1>12, <2>1, <1>i DEF Resend, GetData, peer, Data, Field
  <2>3. GetClient' /\ GetAcks' /\ GetServer'
    BY <1>12, <1>i, GetSameClient DEF Resend, client, peer, GetAcks, GetServer, Success
  <2> QED
    BY <2>2, <2>3 DEF GetInv
<1>13. CASE Lose
  <2>1. toClient' \subseteq toClient /\ toServer' \subseteq toServer
    BY <1>13 DEF Lose
  <2>2. GetClient' /\ GetServer' /\ GetData' /\ GetAcks'
    BY <1>13, <2>1, <1>i, GetSameClient
       DEF Lose, client, peer, GetServer, GetData, GetAcks, Success
  <2> QED
    BY <2>2 DEF GetInv
<1>14. CASE UNCHANGED vars
  BY <1>14, <1>i, GetSameClient
     DEF vars, client, peer, GetInv, GetServer, GetData, GetAcks, Success
<1> QED
  BY <1>1, <1>2, <1>3, <1>4, <1>5, <1>6, <1>7, <1>8, <1>9, <1>10, <1>11, <1>12,
     <1>13, <1>14 DEF Next, Client, Server

-----------------------------------------------------------------------------
(* A step of put: the server takes the next block because below Wrap a      *)
(* number stands for one block only.                                        *)

LEMMA PutSame ==
  ASSUME PutInv, UNCHANGED <<get, source, pc, block, local, number, remote>>,
         toServer' \subseteq toServer \cup {Request}
  PROVE  PutInv'
  BY DEF PutInv, FirstBlocks, Data, Field, Request

LEMMA PutFailing ==
  ASSUME PutInv, Return(1),
         UNCHANGED <<get, source, block, local, peer, toServer>>
  PROVE  PutInv'
  BY DEF PutInv, FirstBlocks, Data, Field, Request, Return, peer

(* No read error of the local file: fread() and the end look alike.         *)
ReadsFile == "read" \notin Faults

(* A DATA that a server takes is the next block, and no other one.          *)
LEMMA ArrivedBlock ==
  ASSUME ReadsFile, TypeOK, PutInv, ~ get, NEW m \in toServer,
         m.op = "DATA", m.field = number + 1
  PROVE  /\ number + 1 <= Len(source) /\ number + 1 < Wrap
         /\ m.data = source[number + 1] /\ m.data \in Block
<1>1. PICK k \in 1..Len(source) : m = Data(k, source[k]) /\ k <= Wrap
  BY DEF PutInv, ReadsFile, Request
<1>2. k \in Nat /\ number \in Nat /\ Field(k) = number + 1
  BY <1>1, FileShape DEF TypeOK, Data
<1>3. k = number + 1 /\ k < Wrap
  BY <1>1, <1>2, FieldFits, TftpAssumption
<1> QED
  BY <1>1, <1>3, FileShape DEF Data

LEMMA PutStep == TypeOK /\ TftpInv /\ [Next]_vars => PutInv'
<1> SUFFICES ASSUME TypeOK, TftpInv, [Next]_vars, ~ get' PROVE PutInv'
  BY DEF PutInv
<1>t. /\ block \in Nat \ {0} /\ number \in Nat
      /\ local \in Seq(Block) /\ remote \in Seq(Block)
      /\ toClient \subseteq Packet /\ toServer \subseteq Packet
  BY DEF TypeOK
<1>s. /\ Len(source) \in Nat \ {0}
      /\ \A k \in 1..Len(source) :
           source[k] \in Block /\ (source[k] \in Short <=> k = Len(source))
  BY FileShape
<1>g. ~ get /\ source' = source
  BY DEF Next, Client, Server, Open, OpenFails, ReceiveFails, ReceiveError, ReceiveData, WriteFails,
         ReceiveAck, SendFails, Serve, Refuse, ServeAck, ServeData, Resend, Lose, vars
<1>i. PutInv
  BY DEF TftpInv
<1> USE <1>g
<1>1. CASE Open
  BY <1>1, <1>i DEF Open, PutInv, FirstBlocks, Data, Field, Request, peer
<1>2. CASE OpenFails
  BY <1>2, <1>i, PutFailing DEF OpenFails
<1>3. CASE ReceiveFails \/ ReceiveError
  BY <1>3, <1>i, PutFailing DEF ReceiveFails, ReceiveError, Receives
<1>4. CASE ReceiveData
  BY <1>4 DEF ReceiveData
<1>5. CASE WriteFails
  BY <1>5 DEF WriteFails
<1>6. CASE ReceiveAck
  <2>1. PICK m \in toClient :
          /\ pc = "wait"
          /\ m.op = "ACK" /\ m.field = block - 1
          /\ \E b \in Reads : Sends(b)
          /\ UNCHANGED <<peer, toClient>>
    BY <1>6 DEF ReceiveAck, Receives
  <2>2. PICK b \in Reads : Sends(b)
    BY <2>1
  <2>3. block \in 1..Len(source) /\ Len(local) + 1 = block /\ Len(local') = block
    <3>1. block <= Len(source) /\ Len(local) = block - 1
      BY <2>1, <1>i DEF PutInv
    <3>2. b \in Block
      BY <2>2, <3>1, <1>s, <1>t, TftpAssumption DEF Reads
    <3>3. Len(local') = Len(local) + 1
      BY <2>2, <3>2, <1>t, AppendProperties DEF Sends
    <3> QED
      BY <3>1, <3>3, <1>t, <1>s
  <2>4. block <= Wrap
    <3>1. m.field \in 0..(Wrap - 1)
      BY <2>1, <1>t DEF Packet, Request, Error
    <3> QED
      BY <2>1, <3>1, <1>t, TftpAssumption
  <2>5. b \in Short \/ b = source[block]
    BY <2>2, <2>3 DEF Reads
  <2>6. (pc # "done" => block <= Len(source) /\ Len(local) = block - 1)'
    <3>1. CASE b \in Short
      BY <2>2, <3>1 DEF Sends, Return
    <3>2. CASE b \notin Short
      <4>1. block < Len(source)
        BY <2>3, <2>5, <3>2, <1>s, <1>t
      <4>2. block' = block + 1
        BY <2>2, <3>2 DEF Sends
      <4>3. block' <= Len(source)
        <5> DEFINE N == Len(source)
        <5>1. block < N /\ N \in Nat
          BY <4>1, <1>s
        <5> HIDE DEF N
        <5>2. block' <= N
          BY <4>2, <5>1, <1>t
        <5> QED
          BY <5>2 DEF N
      <4>4. Len(local') = block' - 1
        BY <2>3, <4>2, <1>t
      <4> QED
        BY <4>3, <4>4
    <3> QED
      BY <3>1, <3>2
  <2>7. ASSUME "read" \notin Faults
        PROVE  /\ (number <= Len(source) /\ FirstBlocks(remote, number))'
               /\ \A p \in toServer' :
                    p = Request
                      \/ \E k \in 1..Len(source) : p = Data(k, source[k]) /\ k <= Wrap
    <3>1. b = source[block]
      BY <2>2, <2>3, <2>7 DEF Reads
    <3>2. toServer' = toServer \cup {Data(block, source[block])}
      BY <2>2, <3>1 DEF Sends
    <3>3. number <= Len(source) /\ FirstBlocks(remote, number)
      BY <2>7, <1>i DEF PutInv
    <3>4. (number <= Len(source) /\ FirstBlocks(remote, number))'
      BY <2>1, <3>3 DEF peer, FirstBlocks
    <3> QED
      BY <2>3, <2>4, <2>7, <3>2, <3>4, <1>i DEF PutInv
  <2> QED
    BY <2>6, <2>7 DEF PutInv, Data, Field, Request
<1>7. CASE SendFails
  BY <1>7, <1>i, PutFailing DEF SendFails
<1>8. CASE Serve
  <2>1. number' = number
    BY <1>8 DEF Serve, TftpInv
  <2> QED
    BY <1>8, <2>1, <1>i, PutSame DEF Serve, client
<1>9. CASE Refuse
  BY <1>9, <1>i, PutSame DEF Refuse, client
<1>10. CASE ServeAck
  BY <1>10 DEF ServeAck
<1>11. CASE ServeData
  <2>1. PICK m \in toServer :
          /\ m.op = "DATA" /\ m.field = number + 1
          /\ remote' = Append(remote, m.data)
    BY <1>11 DEF ServeData
  <2>2. number' = number + 1 /\ UNCHANGED <<pc, block, local, toServer>>
    BY <1>11 DEF ServeData, client
  <2>3. ASSUME "read" \notin Faults
        PROVE  (number <= Len(source) /\ FirstBlocks(remote, number))'
    <3>4. m.data = source[number + 1] /\ m.data \in Block /\ number + 1 <= Len(source)
      BY <2>1, <2>3, <1>i, ArrivedBlock DEF ReadsFile
    <3>5. FirstBlocks(remote, number)
      BY <2>3, <1>i DEF PutInv
    <3>6. FirstBlocks(remote', number + 1)
      BY <2>1, <3>4, <3>5, <1>t, NextBlock
    <3> QED
      BY <2>2, <3>4, <3>6 DEF FirstBlocks
  <2> QED
    BY <2>2, <2>3, <1>i DEF PutInv, Data, Field, Request
<1>12. CASE Resend
  BY <1>12, <1>i, PutSame DEF Resend, client, peer
<1>13. CASE Lose
  BY <1>13, <1>i, PutSame DEF Lose, client, peer
<1>14. CASE UNCHANGED vars
  BY <1>14, <1>i, PutSame DEF vars, client, peer
<1> QED
  BY <1>1, <1>2, <1>3, <1>4, <1>5, <1>6, <1>7, <1>8, <1>9, <1>10, <1>11, <1>12,
     <1>13, <1>14 DEF Next, Client, Server

-----------------------------------------------------------------------------
LEMMA InvStep == TypeOK /\ TftpInv /\ [Next]_vars => TftpInv'
<1> SUFFICES ASSUME TypeOK, TftpInv, [Next]_vars PROVE TftpInv'
  OBVIOUS
<1>1. server' = "idle" => server = "idle" /\ number' = number
  BY DEF Next, Client, Server, Open, OpenFails, ReceiveFails, ReceiveError, ReceiveData, WriteFails,
         ReceiveAck, SendFails, Serve, Refuse, ServeAck, ServeData, Resend, Lose, vars, peer
<1>2. (server = "idle" => number = 0)'
  BY <1>1 DEF TftpInv
<1> QED
  BY <1>2, GetStep, PutStep DEF TftpInv

(* Every state of a transfer, whatever the network does to it, has its      *)
(* declared types, and every packet in flight was sent for a block its      *)
(* sender had reached: tftp.c:15.                                           *)
THEOREM TftpInvariant == Spec => [](TypeOK /\ TftpInv)
<1>1. TypeOK /\ TftpInv /\ [Next]_vars => (TypeOK /\ TftpInv)'
  BY TypeStep, InvStep
<1> QED
  BY TypeAtStart, <1>1, PTL DEF Spec

(* Two sequences of blocks that agree on the first ones are one a prefix of *)
(* the other.                                                               *)
LEMMA FirstBlocksPrefix ==
  ASSUME NEW s \in Seq(Block), NEW n \in Nat, FirstBlocks(s, n),
         source \in Seq(Block), n <= Len(source)
  PROVE  IsPrefix(s, source)
<1>1. Len(s) = n /\ \A i \in 1..Len(s) : s[i] = source[i]
  BY DEF FirstBlocks
<1> QED
  BY <1>1, PrefixPointwise

(* get never writes a wrong, a second or an out-of-order block, for files   *)
(* of any length and any number of block numbers: the comparison of the     *)
(* 16-bit field with the whole int in tftp.c:15 is what makes it so.        *)
THEOREM GetKeepsOrder == Spec => []GetInOrder
<1>1. TypeOK /\ TftpInv => GetInOrder
  <2> SUFFICES ASSUME TypeOK, TftpInv, get PROVE IsPrefix(local, source)
    BY DEF GetInOrder
  <2>1. source \in Seq(Block) /\ Len(source) \in Nat
    BY FileShape
  <2>2. GetClient /\ local \in Seq(Block) /\ block \in Nat \ {0}
    BY DEF TypeOK, TftpInv, GetInv
  <2>3. CASE Success
    <3>1. FirstBlocks(local, block) /\ block <= Len(source)
      BY <2>2, <2>3 DEF GetClient
    <3> QED
      BY <3>1, <2>1, <2>2, FirstBlocksPrefix
  <2>4. CASE ~ Success
    <3>1. FirstBlocks(local, block - 1) /\ block <= Len(source)
      BY <2>2, <2>4 DEF GetClient
    <3>2. block - 1 \in Nat /\ block - 1 <= Len(source)
      <4> DEFINE N == Len(source)
      <4>1. block <= N /\ N \in Nat
        BY <3>1, <2>1
      <4> HIDE DEF N
      <4>2. block - 1 \in Nat /\ block - 1 <= N
        BY <4>1, <2>2
      <4> QED
        BY <4>2 DEF N
    <3> QED
      BY <3>1, <3>2, <2>1, <2>2, FirstBlocksPrefix
  <2> QED
    BY <2>3, <2>4
<1> QED
  BY TftpInvariant, <1>1, PTL

LEMMA WholeGet ==
  ASSUME TypeOK, TftpInv
  PROVE  GetWhole
<1> SUFFICES ASSUME get, Success PROVE local = source
  BY DEF GetWhole, Success
<1>1. source \in Seq(Block) /\ local \in Seq(Block)
  BY FileShape DEF TypeOK
<1>2. FirstBlocks(local, Len(source))
  BY DEF TftpInv, GetInv, GetClient
<1> QED
  BY <1>1, <1>2, SeqEqual DEF FirstBlocks

(* When get returns 0 the local file is the remote one, to the last block.  *)
THEOREM GetIsWhole == Spec => []GetWhole
<1>1. TypeOK /\ TftpInv => GetWhole
  BY WholeGet
<1> QED
  BY TftpInvariant, <1>1, PTL

(* Where the local file can be read, a server that follows RFC 1350 has put *)
(* the first blocks of it in place, in order, however the packets of the    *)
(* put are lost, repeated and reordered.                                    *)
THEOREM PutKeepsOrder == "read" \notin Faults => (Spec => []PutInOrder)
<1> SUFFICES ASSUME "read" \notin Faults PROVE Spec => []PutInOrder
  OBVIOUS
<1>1. TypeOK /\ TftpInv => PutInOrder
  <2> SUFFICES ASSUME TypeOK, TftpInv, ~ get PROVE IsPrefix(remote, source)
    BY DEF PutInOrder
  <2>1. source \in Seq(Block) /\ remote \in Seq(Block) /\ number \in Nat
    BY FileShape DEF TypeOK
  <2>2. number <= Len(source) /\ FirstBlocks(remote, number)
    BY DEF TftpInv, PutInv
  <2> QED
    BY <2>1, <2>2, FirstBlocksPrefix
<1> QED
  BY TftpInvariant, <1>1, PTL

-----------------------------------------------------------------------------
(* Why a put that returned 0 has stored the file on a network that loses    *)
(* nothing: every block it went past is still on the way, so that the       *)
(* server, which has the first ones, lacks none that is not.                *)
SentInv ==
  ~ get /\ ~ lossy /\ Len(source) < Wrap =>
    /\ server = "idle" => toClient = {} /\ ~ Success
    /\ \A k \in 1..(block - 1) : Data(k, source[k]) \in toServer
    /\ Success => block = Len(source) /\ Data(block, source[block]) \in toServer
    /\ server = "complete" => number = Len(source)

LEMMA SentAtStart == Init => SentInv
  BY DEF Init, SentInv, Success

LEMMA SentSame ==
  ASSUME SentInv, UNCHANGED <<get, source, lossy, block>>, toServer \subseteq toServer',
         Success' => Success,
         server' = "idle" => server = "idle" /\ toClient' = toClient,
         server' = "complete" => server = "complete" /\ number' = number
  PROVE  SentInv'
  BY DEF SentInv, Data, Field

LEMMA SentStep ==
  ASSUME ReadsFile
  PROVE  TypeOK /\ TftpInv /\ SentInv /\ [Next]_vars => SentInv'
<1> SUFFICES ASSUME TypeOK, TftpInv, SentInv, [Next]_vars PROVE SentInv'
  OBVIOUS
<1>0. get' = get /\ source' = source /\ lossy' = lossy
  BY DEF Next, Client, Server, Open, OpenFails, ReceiveFails, ReceiveError, ReceiveData, WriteFails,
         ReceiveAck, SendFails, Serve, Refuse, ServeAck, ServeData, Resend, Lose, vars
<1> SUFFICES ASSUME ~ get, ~ lossy, Len(source) < Wrap PROVE SentInv'
  BY <1>0 DEF SentInv
<1>t. /\ block \in Nat \ {0} /\ number \in Nat /\ local \in Seq(Block)
  BY DEF TypeOK
<1>s. /\ Len(source) \in Nat \ {0}
      /\ \A k \in 1..Len(source) : source[k] \in Short <=> k = Len(source)
  BY FileShape
<1>i. /\ server = "idle" => toClient = {} /\ ~ Success
      /\ \A k \in 1..(block - 1) : Data(k, source[k]) \in toServer
      /\ Success => block = Len(source) /\ Data(block, source[block]) \in toServer
      /\ server = "complete" => number = Len(source)
  BY DEF SentInv
<1>1. CASE Open \/ OpenFails \/ ReceiveFails \/ ReceiveError \/ SendFails
  BY <1>1, <1>0, SentSame
  DEF Open, OpenFails, ReceiveFails, ReceiveError, SendFails, Success, Return, Receives, peer
<1>2. CASE Serve \/ Refuse \/ Resend \/ UNCHANGED vars
  BY <1>2, <1>0, SentSame DEF Serve, Refuse, Resend, Success, client, peer, vars
<1>3. CASE ReceiveAck
  <2>1. /\ pc = "wait" /\ toClient # {} /\ UNCHANGED <<server, number>>
        /\ \E b \in Reads : Sends(b)
    BY <1>3 DEF ReceiveAck, Receives, peer
  <2>2. block <= Len(source) /\ Len(local) = block - 1
    BY <2>1 DEF TftpInv, PutInv
  <2>3. Len(local) + 1 = block
    BY <2>2, <1>t
  <2>4. Sends(source[block])
    BY <2>1, <2>3 DEF Reads, ReadsFile
  <2>5. toServer' = toServer \cup {Data(block, source[block])}
    BY <2>4 DEF Sends
  <2>6. server' # "idle"
    BY <2>1, <1>i
  <2>7. /\ server' = "complete" => number' = Len(source)
        /\ \A k \in 1..block : Data(k, source[k]) \in toServer'
    <3>1. \A k \in 1..block : k \in 1..(block - 1) \/ k = block
      BY <1>t
    <3> QED
      BY <2>1, <2>5, <1>i, <3>1
  <2>8. CASE source[block] \in Short
    <3>1. block' = block /\ block = Len(source)
      BY <2>2, <2>4, <2>8, <1>s, <1>t DEF Sends
    <3>2. \A k \in 1..(block - 1) : k \in 1..block
      BY <1>t
    <3>3. block \in 1..block
      BY <1>t
    <3> QED
      BY <1>0, <2>6, <2>7, <3>1, <3>2, <3>3 DEF SentInv, Data, Field
  <2>9. CASE source[block] \notin Short
    <3>1. block' = block + 1 /\ pc' = "wait"
      BY <2>1, <2>4, <2>9 DEF Sends
    <3>2. block' - 1 = block
      BY <3>1, <1>t
    <3> QED
      BY <1>0, <2>6, <2>7, <3>1, <3>2 DEF SentInv, Data, Field, Success
  <2> QED
    BY <2>8, <2>9
<1>4. CASE ServeData
  <2>1. PICK m \in toServer :
          /\ m.op = "DATA" /\ m.field = number + 1
          /\ server' = IF m.data \in Short THEN "complete" ELSE "busy"
    BY <1>4 DEF ServeData
  <2>4. server' = "complete" => number + 1 = Len(source)
    <3>1. number + 1 \in 1..Len(source) /\ m.data = source[number + 1]
      BY <2>1, <1>t, <1>s, ArrivedBlock DEF TftpInv
    <3> QED
      BY <2>1, <3>1, <1>s
  <2>5. number' = number + 1 /\ UNCHANGED <<pc, status, block, toServer>>
    BY <1>4 DEF ServeData, client
  <2>6. server' # "idle"
    BY <2>1
  <2> QED
    BY <1>0, <1>i, <2>4, <2>5, <2>6 DEF SentInv, Data, Field, Success
<1>5. ~ (ReceiveData \/ WriteFails \/ ServeAck \/ Lose)
  BY DEF ReceiveData, WriteFails, ServeAck, Lose
<1> QED
  BY <1>1, <1>2, <1>3, <1>4, <1>5 DEF Next, Client, Server

(* put returns when the short block is sent, tftp.c:15; where nothing is    *)
(* lost and the server accepts the file, it has the whole of it once the    *)
(* last packet has arrived.                                                 *)
THEOREM PutIsWhole ==
  ASSUME ReadsFile
  PROVE  Spec => []PutWhole
<1>1. TypeOK /\ TftpInv /\ SentInv => PutWhole
  <2> SUFFICES ASSUME TypeOK, TftpInv, SentInv, ~ get, Success,
                      ~ (server = "busy" /\ InFlight),
                      ~ lossy, server # "refused", Len(source) < Wrap
               PROVE  remote = source
    BY DEF PutWhole, Arrived, Success
  <2>1. /\ source \in Seq(Block) /\ remote \in Seq(Block)
        /\ number \in Nat /\ Len(source) \in Nat \ {0}
    BY FileShape DEF TypeOK
  <2>2. number <= Len(source) /\ FirstBlocks(remote, number)
    BY DEF TftpInv, PutInv, ReadsFile
  <2>3. /\ server # "idle" /\ (server = "complete" => number = Len(source))
        /\ \A k \in 1..(block - 1) : Data(k, source[k]) \in toServer
        /\ block = Len(source) /\ Data(block, source[block]) \in toServer
    BY DEF SentInv
  <2>4. CASE server = "busy"
    <3> SUFFICES ASSUME number # Len(source) PROVE FALSE
      BY <2>1, <2>2, SeqEqual DEF FirstBlocks
    <3>1. number + 1 \in 1..Len(source) /\ number + 1 \in Nat /\ number + 1 < Wrap
      BY <2>1, <2>2, TftpAssumption
    <3>2. number + 1 \in 1..(block - 1) \/ number + 1 = block
      BY <2>1, <2>3, <3>1
    <3>3. Data(number + 1, source[number + 1]) \in toServer
      BY <2>3, <3>2
    <3>4. Field(number + 1) = number + 1
      BY <3>1, FieldFits
    <3> QED
      BY <2>4, <3>3, <3>4 DEF InFlight, Data
  <2>5. CASE server = "complete"
    BY <2>1, <2>2, <2>3, <2>5, SeqEqual DEF FirstBlocks
  <2> QED
    BY <2>3, <2>4, <2>5 DEF TypeOK
<1>2. TypeOK /\ TftpInv /\ SentInv /\ [Next]_vars => SentInv'
  BY SentStep
<1> QED
  BY <1>1, <1>2, SentAtStart, TftpInvariant, PTL DEF Spec

-----------------------------------------------------------------------------
(* What a put that returned 0 may say: an ACK in flight is for a block the  *)
(* server has, so that all but the last one had arrived when it went out.   *)
AckInv ==
  ~ get =>
    /\ number < Wrap
    /\ \A m \in toClient : m = Error \/ \E k \in 0..number : m = Ack(k)
    /\ Success => Len(source) - 1 <= number

LEMMA AckAtStart == Init => AckInv
  BY TftpAssumption DEF Init, AckInv, Success

LEMMA AckSame ==
  ASSUME TypeOK, AckInv, UNCHANGED <<get, source, number>>, Success' => Success,
         \A m \in toClient' : m \in toClient \/ m = Error \/ m = Ack(number)
  PROVE  AckInv'
<1>1. number \in Nat
  BY DEF TypeOK
<1>2. number \in 0..number
  BY <1>1
<1> QED
  BY <1>2 DEF AckInv, Ack, Field, Error

LEMMA AckStep ==
  ASSUME ReadsFile
  PROVE  TypeOK /\ TftpInv /\ AckInv /\ [Next]_vars => AckInv'
<1> SUFFICES ASSUME TypeOK, TftpInv, AckInv, [Next]_vars PROVE AckInv'
  OBVIOUS
<1>0. get' = get /\ source' = source
  BY DEF Next, Client, Server, Open, OpenFails, ReceiveFails, ReceiveError, ReceiveData, WriteFails,
         ReceiveAck, SendFails, Serve, Refuse, ServeAck, ServeData, Resend, Lose, vars
<1> SUFFICES ASSUME ~ get PROVE AckInv'
  BY <1>0 DEF AckInv
<1>t. block \in Nat \ {0} /\ number \in Nat /\ Len(source) \in Nat \ {0}
  BY FileShape DEF TypeOK
<1>i. PutInv /\ (server = "idle" => number = 0)
  BY DEF TftpInv
<1>1. CASE Open \/ OpenFails \/ ReceiveFails \/ ReceiveError \/ SendFails
  BY <1>1, <1>0, AckSame
  DEF Open, OpenFails, ReceiveFails, ReceiveError, SendFails, Success, Return, Receives, peer
<1>2. CASE Serve \/ Refuse \/ Resend \/ Lose \/ UNCHANGED vars
  <2>1. UNCHANGED <<pc, status>> /\ number' = number
    BY <1>2, <1>i DEF Serve, Refuse, Resend, Lose, client, peer, vars
  <2>2. \A m \in toClient' : m \in toClient \/ m = Error \/ m = Ack(number)
    BY <1>2, <1>i DEF Serve, Refuse, Resend, Lose, vars
  <2> QED
    BY <1>0, <2>1, <2>2, AckSame DEF Success
<1>3. CASE ReceiveAck
  <2>1. PICK m \in toClient :
          /\ pc = "wait"
          /\ m.op = "ACK" /\ m.field = block - 1
          /\ \E b \in Reads : Sends(b)
          /\ UNCHANGED <<peer, toClient>>
    BY <1>3 DEF ReceiveAck, Receives
  <2>2. block - 1 <= number
    <3>1. PICK k \in 0..number : m = Ack(k)
      BY <2>1 DEF AckInv, Error
    <3>2. k \in Nat /\ k < Wrap
      BY <3>1, <1>t, TftpAssumption DEF AckInv
    <3>3. Field(k) = block - 1
      BY <2>1, <3>1 DEF Ack
    <3>4. k = block - 1
      BY <3>2, <3>3, FieldFits
    <3> QED
      BY <3>1, <3>4, <1>t
  <2>3. Len(local) + 1 = block /\ block <= Len(source)
    BY <2>1, <1>i, <1>t DEF PutInv
  <2>4. Sends(source[block])
    BY <2>1, <2>3 DEF Reads, ReadsFile
  <2>5. Success' => block = Len(source)
    <3>1. block \in 1..Len(source)
      BY <2>3, <1>t
    <3>2. source[block] \in Short => block = Len(source)
      BY <3>1, FileShape
    <3>3. source[block] \notin Short => pc' = "wait"
      BY <2>1, <2>4 DEF Sends
    <3> QED
      BY <3>2, <3>3 DEF Success
  <2>6. Success' => Len(source) - 1 <= number
    BY <2>2, <2>5
  <2> QED
    BY <1>0, <2>1, <2>6 DEF AckInv, peer, Ack, Field, Error
<1>4. CASE ServeData
  <2>1. PICK m \in toServer : m.op = "DATA" /\ m.field = number + 1
    BY <1>4 DEF ServeData
  <2>2. number + 1 < Wrap /\ number + 1 <= Len(source)
    BY <2>1, <1>i, ArrivedBlock
  <2>3. /\ number' = number + 1 /\ toClient' = toClient \cup {Ack(number + 1)}
        /\ UNCHANGED <<pc, status>>
    BY <1>4 DEF ServeData, client
  <2>4. \A p \in toClient' : p = Error \/ \E k \in 0..number' : p = Ack(k)
    <3>1. \A k \in 0..number : k \in 0..number'
      BY <2>3, <1>t
    <3>2. number + 1 \in 0..number'
      BY <2>3, <1>t
    <3> QED
      BY <2>3, <3>1, <3>2 DEF AckInv
  <2>5. Success' => Len(source) - 1 <= number'
    <3>1. Success' => Len(source) - 1 <= number
      BY <2>3 DEF Success, AckInv
    <3> QED
      BY <3>1, <2>3, <1>t
  <2> QED
    BY <1>0, <2>2, <2>3, <2>4, <2>5 DEF AckInv, Ack, Field, Error
<1>5. ~ (ReceiveData \/ WriteFails \/ ServeAck)
  BY DEF ReceiveData, WriteFails, ServeAck
<1> QED
  BY <1>1, <1>2, <1>3, <1>4, <1>5 DEF Next, Client, Server

(* The steps of get that write are ReceiveData, those of put ServeData.     *)
LEMMA GetWrites ==
  ASSUME TypeOK, TftpInv, [Next]_vars, get
  PROVE  \/ local' = local
         \/ Len(local) < Len(source) /\ local' = Append(local, source[Len(local) + 1])
<1>1. CASE ReceiveData
  <2>1. PICK m \in toClient : pc = "wait" /\ Expected(m) /\ local' = Append(local, m.data)
    BY <1>1 DEF ReceiveData, Receives
  <2>2. /\ block <= Len(source) /\ m.data = source[block]
        /\ Len(local) = block - 1 /\ block \in Nat /\ Len(source) \in Nat
    BY <2>1, ExpectedBlock, FileShape DEF FirstBlocks, TypeOK
  <2>3. Len(local) + 1 = block /\ Len(local) < Len(source)
    BY <2>2
  <2> QED
    BY <2>1, <2>2, <2>3
<1>2. CASE ~ ReceiveData
  <2>1. UNCHANGED local
    BY <1>2 DEF Next, Client, Server, Open, OpenFails, ReceiveFails, ReceiveError, WriteFails,
           ReceiveAck, SendFails, Serve, Refuse, ServeAck, ServeData, Resend, Lose, vars, client
  <2> QED
    BY <2>1
<1> QED
  BY <1>1, <1>2

LEMMA PutWrites ==
  ASSUME ReadsFile, TypeOK, TftpInv, [Next]_vars, ~ get
  PROVE  \/ remote' = remote
         \/ Len(remote) < Len(source) /\ remote' = Append(remote, source[Len(remote) + 1])
<1>1. CASE ServeData
  <2>1. PICK m \in toServer :
          m.op = "DATA" /\ m.field = number + 1 /\ remote' = Append(remote, m.data)
    BY <1>1 DEF ServeData
  <2>2. number + 1 <= Len(source) /\ m.data = source[number + 1]
    BY <2>1, ArrivedBlock DEF TftpInv
  <2>3. Len(remote) = number /\ number \in Nat /\ Len(source) \in Nat
    BY FileShape DEF TypeOK, TftpInv, PutInv, ReadsFile, FirstBlocks
  <2> QED
    BY <2>1, <2>2, <2>3
<1>2. CASE ~ ServeData
  <2>1. UNCHANGED remote
    BY <1>2 DEF Next, Client, Server, Open, OpenFails, ReceiveFails, ReceiveError, ReceiveData, WriteFails,
           ReceiveAck, SendFails, Serve, Refuse, ServeAck, Resend, Lose, vars, peer
  <2> QED
    BY <2>1
<1> QED
  BY <1>1, <1>2

LEMMA ResultOnce ==
  ASSUME [Next]_vars
  PROVE  /\ get' = get /\ source' = source
         /\ Abstract!Report \/ Result' = Result
<1>1. get' = get /\ source' = source
  BY DEF Next, Client, Server, Open, OpenFails, ReceiveFails, ReceiveError, ReceiveData, WriteFails,
         ReceiveAck, SendFails, Serve, Refuse, ServeAck, ServeData, Resend, Lose, vars
<1>2. pc = "done" => UNCHANGED <<pc, status>>
  BY DEF Next, Client, Server, Open, OpenFails, ReceiveFails, ReceiveError, ReceiveData, WriteFails,
         ReceiveAck, SendFails, Serve, Refuse, ServeAck, ServeData, Resend, Lose, vars,
         Receives, client
<1>3. CASE pc = "done"
  <2>1. Result' = Result
    BY <1>1, <1>2, <1>3, Zenon DEF Result
  <2> QED
    BY <1>1, <2>1
<1>4. CASE pc # "done"
  <2>1. Result = "none" /\ Result' \in {"none", "whole", "sent", "failed"}
    BY <1>4 DEF Result
  <2> QED
    BY <1>1, <2>1 DEF Abstract!Report
<1> QED
  BY <1>1, <1>3, <1>4

LEMMA TransferStep ==
  ASSUME ReadsFile, TypeOK, TftpInv, [Next]_vars, GetWhole', (TypeOK /\ TftpInv /\ AckInv)'
  PROVE  [Abstract!Next]_(Abstract!vars)
<1> DEFINE Written == IF get THEN local ELSE remote
<1>0. get' = get /\ source' = source
  BY ResultOnce
<1>1. \/ Written' = Written
      \/ Len(Written) < Len(source) /\ Written' = Append(Written, source[Len(Written) + 1])
  <2>1. CASE get
    BY <1>0, <2>1, GetWrites
  <2>2. CASE ~ get
    BY <1>0, <2>2, PutWrites
  <2> QED
    BY <2>1, <2>2
<1>2. Abstract!Promise(Result', Written')
  <2>1. Result' = "whole" => Written' = source'
    BY DEF GetWhole, Result, TypeOK
  <2>2. Result' = "sent" => Len(source') - 1 <= Len(Written')
    <3> SUFFICES ASSUME Result' = "sent" PROVE Len(source') - 1 <= Len(remote')
      BY DEF Result
    <3>1. ~ get' /\ Success'
      BY DEF Result, Success, TypeOK
    <3>2. Len(source') - 1 <= number'
      BY <3>1 DEF AckInv
    <3>3. Len(remote') = number'
      BY <3>1 DEF TftpInv, PutInv, ReadsFile, FirstBlocks
    <3> QED
      BY <3>2, <3>3
  <2> QED
    BY <1>0, <2>1, <2>2 DEF Abstract!Promise
<1> QED
  BY <1>0, <1>1, <1>2, ResultOnce DEF Abstract!Next, Abstract!Write

(* get and put implement Transfer, on any network and for files of any      *)
(* length: the copy grows by the next block only, a get says "whole" of a   *)
(* whole copy, and a put that does not wait for its last ACK, tftp.c:15,    *)
(* leaves at most the last block behind.                                    *)
THEOREM TftpImplementsTransfer ==
  ASSUME ReadsFile
  PROVE  Spec => TftpTransfers
<1>1. Init => Abstract!Init
  BY DEF Init, Abstract!Init, Result
<1>2. TypeOK /\ TftpInv /\ AckInv /\ [Next]_vars => AckInv'
  BY AckStep
<1>3. TypeOK /\ TftpInv => GetWhole
  BY WholeGet
<1>4. /\ TypeOK /\ TftpInv /\ AckInv /\ (TypeOK /\ TftpInv /\ AckInv)' /\ GetWhole' /\ [Next]_vars
      => [Abstract!Next]_(Abstract!vars)
  BY TransferStep
<1> QED
  BY <1>1, <1>2, <1>3, <1>4, AckAtStart, TftpInvariant, PTL
     DEF Spec, TftpTransfers, Abstract!Spec
=============================================================================

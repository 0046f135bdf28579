--------------------------- MODULE TcpFileProofs ----------------------------
(***************************************************************************)
(* Theorems about TcpFile, for every file, every size of the buffers and of *)
(* the connection, and every choice of faults.                              *)
(***************************************************************************)
EXTENDS TcpFile, SequenceTheorems, TLAPS

-----------------------------------------------------------------------------
(* Cutting and joining. *)

(* One more piece of the file. *)
LEMMA NextPiece ==
  ASSUME NEW s \in Seq(Byte), NEW k \in 0..Len(s), NEW n \in k..Len(s)
  PROVE  /\ SubSeq(s, k + 1, n) \in Seq(Byte) /\ Len(SubSeq(s, k + 1, n)) = n - k
         /\ SubSeq(s, 1, k) \o SubSeq(s, k + 1, n) = SubSeq(s, 1, n)
<1>1. Len(s) \in Nat /\ \A i \in 1..Len(s) : s[i] \in Byte
  BY LenProperties, ElementOfSeq
<1>2. SubSeq(s, k + 1, n) \in Seq(Byte) /\ Len(SubSeq(s, k + 1, n)) = n - k
  BY <1>1, SubSeqProperties
<1>3. SubSeq(s, 1, k) \o SubSeq(s, k + 1, n) = SubSeq(s, 1, n)
  BY <1>1, ConcatAdjacentSubSeq
<1> QED
  BY <1>2, <1>3

LEMMA CutInTwo ==
  ASSUME NEW s \in Seq(Byte), NEW n \in 0..Len(s)
  PROVE  /\ SubSeq(s, 1, n) \in Seq(Byte) /\ Len(SubSeq(s, 1, n)) = n
         /\ SubSeq(s, n + 1, Len(s)) \in Seq(Byte)
         /\ Len(SubSeq(s, n + 1, Len(s))) = Len(s) - n
         /\ SubSeq(s, 1, n) \o SubSeq(s, n + 1, Len(s)) = s
<1>1. Len(s) \in Nat /\ \A i \in 1..Len(s) : s[i] \in Byte
  BY LenProperties, ElementOfSeq
<1>2. SubSeq(s, 1, n) \in Seq(Byte) /\ Len(SubSeq(s, 1, n)) = n
  BY <1>1, SubSeqProperties
<1>3. Len(s) \in n..Len(s)
  BY <1>1
<1> QED
  BY <1>2, <1>3, NextPiece, SubSeqFull

LEMMA Join ==
  ASSUME NEW s \in Seq(Byte), NEW t \in Seq(Byte)
  PROVE  s \o t \in Seq(Byte) /\ Len(s \o t) = Len(s) + Len(t)
  BY ConcatProperties

(* Joining is associative; named, so that the provers need not look for it. *)
Assoc(s, t, u) == (s \o t) \o u = s \o (t \o u)

LEMMA JoinThree ==
  ASSUME NEW s \in Seq(Byte), NEW t \in Seq(Byte), NEW u \in Seq(Byte)
  PROVE  Assoc(s, t, u)
  BY ConcatAssociative DEF Assoc

LEMMA MoveHead ==
  ASSUME NEW s \in Seq(Byte), NEW t \in Seq(Byte), t # <<>>
  PROVE  /\ Append(s, Head(t)) \in Seq(Byte) /\ Tail(t) \in Seq(Byte)
         /\ Append(s, Head(t)) \o Tail(t) = s \o t
<1>1. Len(t) \in Nat \ {0}
  BY EmptySeq
<1>2. Head(t) \in Byte /\ Tail(t) \in Seq(Byte) /\ <<Head(t)>> \in Seq(Byte)
  BY HeadTailProperties
<1>3. t = <<Head(t)>> \o Tail(t)
  <2>1. SubSeq(t, 1, Len(t)) = <<t[1]>> \o SubSeq(t, 2, Len(t))
    BY <1>1, SubSeqRecursiveFirst
  <2>2. Tail(t) = SubSeq(t, 2, Len(t)) /\ Head(t) = t[1]
    BY TailIsSubSeq
  <2> QED
    BY <2>1, <2>2, SubSeqFull
<1>4. Append(s, Head(t)) = s \o <<Head(t)>> /\ Append(s, Head(t)) \in Seq(Byte)
  BY <1>2, AppendIsConcat, AppendProperties
<1>5. Assoc(s, <<Head(t)>>, Tail(t))
  BY <1>2, JoinThree
<1> QED
  BY <1>2, <1>3, <1>4, <1>5 DEF Assoc

(* The front of one part, put behind the part before it. *)
Moved(o, h, s, c, n) ==
  (o \o (h \o SubSeq(s, 1, n))) \o (SubSeq(s, n + 1, Len(s)) \o c) = (o \o h) \o (s \o c)

LEMMA MoveFront ==
  ASSUME NEW o \in Seq(Byte), NEW h \in Seq(Byte), NEW s \in Seq(Byte), NEW c \in Seq(Byte),
         NEW n \in 0..Len(s)
  PROVE  Moved(o, h, s, c, n)
<1> DEFINE a == SubSeq(s, 1, n)
           b == SubSeq(s, n + 1, Len(s))
           oh == o \o h
           bc == b \o c
<1>1. a \in Seq(Byte) /\ b \in Seq(Byte) /\ a \o b = s
  BY CutInTwo
<1>2. oh \in Seq(Byte) /\ bc \in Seq(Byte)
  BY <1>1, Join
<1> HIDE DEF a, b, oh, bc
<1>3. Assoc(o, h, a) /\ Assoc(a, b, c) /\ Assoc(oh, a, bc)
  BY <1>1, <1>2, JoinThree
<1> QED
  BY <1>1, <1>3 DEF Assoc, Moved, a, b, oh, bc

(* What begins a beginning begins the whole. *)
LEMMA PartIsPrefix ==
  ASSUME NEW f \in Seq(Byte), NEW n \in 0..Len(f), NEW s \in Seq(Byte), NEW t \in Seq(Byte),
         s \o t = SubSeq(f, 1, n)
  PROVE  IsPrefix(s, f)
<1>1. Len(s) \in Nat /\ Len(t) \in Nat /\ Len(f) \in Nat
  BY LenProperties
<1>2. /\ SubSeq(f, 1, n) \in Seq(Byte) /\ Len(SubSeq(f, 1, n)) = n
      /\ \A i \in 1..n : SubSeq(f, 1, n)[i] = f[i]
  BY <1>1, LenProperties, ElementOfSeq, SubSeqProperties
<1>3. /\ Len(s) + Len(t) = n
      /\ \A i \in 1..Len(s) : s[i] = f[i]
  BY <1>1, <1>2, ConcatProperties
<1>4. SubSeq(s, 1, Len(s)) = SubSeq(f, 1, Len(s))
  BY <1>1, <1>3
<1> QED
  BY <1>1, <1>3, <1>4 DEF IsPrefix

-----------------------------------------------------------------------------
(* While the receiver works, what it has, what is on its way and what the   *)
(* sender still holds are, in this order, what was read from the file.      *)
Flow == (out \o held) \o (stream \o chunk) = SubSeq(file, 1, taken)

TcpInv ==
  /\ rpc # "done" => Flow
  /\ rpc \in {"start", "accept"} => held = <<>>
  /\ rpc = "done" => held = <<>> /\ IsPrefix(out, file)
  /\ rpc = "done" /\ rstatus = 0 /\ ~ unseen =>
       spc = "done" /\ out \o chunk = SubSeq(file, 1, taken)
  /\ spc \in {"connect", "read"} => chunk = <<>>
  /\ spc = "done" /\ sstatus = 0 /\ ~ unseen => chunk = <<>> /\ taken = Len(file)
  /\ link = "closed" => spc = "done"

LEMMA Sizes ==
  ASSUME TypeOK
  PROVE  /\ file \in Seq(Byte) /\ Len(file) \in Nat /\ taken \in Nat /\ taken <= Len(file)
         /\ Len(chunk) \in Nat /\ Len(stream) \in Nat /\ Len(held) \in Nat /\ Len(out) \in Nat
         /\ Buffer \in Nat \ {0} /\ Window \in Nat \ {0}
<1>1. file \in Seq(Byte)
  BY TcpFileAssumption DEF TypeOK
<1> QED
  BY <1>1, LenProperties, TcpFileAssumption DEF TypeOK

(* Joining the four in another way. *)
LEMMA FlowParts ==
  ASSUME TypeOK, Flow
  PROVE  /\ out \o held \in Seq(Byte) /\ stream \o chunk \in Seq(Byte)
         /\ out \o (held \o (stream \o chunk)) = SubSeq(file, 1, taken)
         /\ held \o (stream \o chunk) \in Seq(Byte)
  BY ConcatProperties, ConcatAssociative DEF TypeOK, Flow

LEMMA FlowIsPrefix ==
  ASSUME TypeOK, Flow
  PROVE  IsPrefix(out \o held, file) /\ IsPrefix(out, file)
<1>1. taken \in 0..Len(file) /\ file \in Seq(Byte) /\ out \in Seq(Byte)
  BY Sizes DEF TypeOK
<1>2. IsPrefix(out \o held, file)
  BY <1>1, FlowParts, PartIsPrefix DEF Flow
<1>3. IsPrefix(out, file)
  BY <1>1, FlowParts, PartIsPrefix
<1> QED
  BY <1>2, <1>3

LEMMA AtStart == Init => TypeOK /\ TcpInv
<1> SUFFICES ASSUME Init PROVE TypeOK /\ TcpInv
  OBVIOUS
<1>1. file \in Seq(Byte) /\ Len(file) \in Nat
  BY TcpFileAssumption, LenProperties DEF Init
<1>2. TypeOK
  <2>1. unseen \in BOOLEAN
    BY Zenon DEF Init
  <2>2. <<>> \in Seq(Byte) /\ Len(<<>>) = 0
    BY EmptySeq
  <2> QED
    BY <1>1, <2>1, <2>2, TcpFileAssumption DEF Init, TypeOK
<1>3. Flow
  <2>1. (<<>> \o <<>>) \o (<<>> \o <<>>) = <<>>
    BY EmptySeq, ConcatEmptySeq
  <2>2. SubSeq(file, 1, 0) = <<>>
    BY SubSeqEmpty
  <2> QED
    BY <2>1, <2>2 DEF Init, Flow
<1> QED
  BY <1>2, <1>3 DEF Init, TcpInv

-----------------------------------------------------------------------------
(* The steps that move bytes. *)

LEMMA ReadStep ==
  ASSUME TypeOK, TcpInv, Read
  PROVE  TypeOK' /\ TcpInv'
<1> DEFINE last == Least(taken + Buffer, Len(file))
<1>1. /\ last \in taken..Len(file) /\ last <= taken + Buffer
      /\ last > taken \/ (last = taken /\ taken = Len(file))
  BY Sizes DEF Least
<1>2. spc = "read" /\ chunk = <<>>
      /\ UNCHANGED <<file, rpc, held, out, rstatus, stream, unseen>>
  BY DEF Read, receiver, TcpInv
<1>3. ~ (rpc = "done" /\ rstatus = 0 /\ ~ unseen) /\ link # "closed"
  BY <1>2 DEF TcpInv
<1>4. CASE last > taken
  <2>1. /\ chunk' = SubSeq(file, taken + 1, last) /\ taken' = last /\ spc' = "send"
        /\ UNCHANGED <<sstatus, link>>
    BY <1>4 DEF Read
  <2>2. /\ chunk' \in Seq(Byte) /\ Len(chunk') = last - taken
        /\ SubSeq(file, 1, taken) \o chunk' = SubSeq(file, 1, last)
    <3>1. file \in Seq(Byte) /\ taken \in 0..Len(file) /\ last \in taken..Len(file)
      BY <1>1, Sizes
    <3> HIDE DEF last
    <3> QED
      BY <2>1, <3>1, NextPiece
  <2>3. TypeOK'
    <3>1. Len(chunk') <= Buffer /\ taken' \in 0..Len(file)
      <4> HIDE DEF last
      <4> QED
        BY <1>1, <2>1, <2>2, Sizes
    <3>2. unseen' \in BOOLEAN
      BY <1>2, Zenon DEF TypeOK
    <3> QED
      BY <1>2, <2>1, <2>2, <3>1, <3>2 DEF TypeOK
  <2>4. Flow => Flow'
    <3> SUFFICES ASSUME Flow PROVE Flow'
      OBVIOUS
    <3>1. stream \o chunk = stream /\ out \o held \in Seq(Byte) /\ stream \in Seq(Byte)
      BY <1>2, ConcatEmptySeq, FlowParts DEF TypeOK
    <3>2. Assoc(out \o held, stream, chunk')
      BY <2>2, <3>1, JoinThree
    <3> QED
      BY <1>2, <2>1, <2>2, <3>1, <3>2 DEF Assoc, Flow
  <2> QED
    BY <1>2, <1>3, <2>1, <2>3, <2>4 DEF TcpInv
<1>5. CASE ~ last > taken
  <2>1. /\ SenderReturns(0) /\ UNCHANGED <<chunk, taken>>
        /\ link' = IF link = "up" THEN "closed" ELSE link
    BY <1>5 DEF Read
  <2>2. TypeOK'
    <3>1. unseen' \in BOOLEAN
      BY <1>2, Zenon DEF TypeOK
    <3> QED
      BY <1>2, <2>1, <3>1 DEF TypeOK, SenderReturns
  <2> QED
    BY <1>1, <1>2, <1>3, <1>5, <2>1, <2>2 DEF TcpInv, Flow, SenderReturns
<1> QED
  BY <1>4, <1>5

LEMMA SendStep ==
  ASSUME TypeOK, TcpInv, Send
  PROVE  TypeOK' /\ TcpInv'
<1>1. PICK n \in 1..Len(chunk) :
        /\ Len(stream) + n <= Window
        /\ stream' = stream \o SubSeq(chunk, 1, n)
        /\ chunk' = SubSeq(chunk, n + 1, Len(chunk))
  BY DEF Send
<1>2. /\ spc = "send" /\ spc' = (IF chunk' = <<>> THEN "read" ELSE "send")
      /\ UNCHANGED <<file, taken, sstatus, rpc, held, out, rstatus, link, unseen>>
  BY DEF Send, receiver
<1>3. /\ SubSeq(chunk, 1, n) \in Seq(Byte) /\ Len(SubSeq(chunk, 1, n)) = n
      /\ chunk' \in Seq(Byte) /\ Len(chunk') = Len(chunk) - n
      /\ SubSeq(chunk, 1, n) \o chunk' = chunk
  <2>1. chunk \in Seq(Byte) /\ n \in 0..Len(chunk)
    BY <1>1, Sizes DEF TypeOK
  <2> QED
    BY <1>1, <2>1, CutInTwo
<1>4. /\ stream' \in Seq(Byte) /\ Len(stream') = Len(stream) + n
      /\ stream' \o chunk' = stream \o chunk
  <2> DEFINE A == SubSeq(chunk, 1, n)
  <2>1. A \in Seq(Byte) /\ Len(A) = n /\ chunk' \in Seq(Byte) /\ stream \in Seq(Byte)
        /\ stream' = stream \o A /\ A \o chunk' = chunk
    BY <1>1, <1>3 DEF TypeOK
  <2> HIDE DEF A
  <2>2. Assoc(stream, A, chunk')
    BY <2>1, JoinThree
  <2> QED
    BY <2>1, <2>2, Join DEF Assoc
<1>5. TypeOK'
  <2>1. unseen' \in BOOLEAN
    BY <1>2, Zenon DEF TypeOK
  <2>2. Len(chunk') <= Buffer /\ Len(stream') <= Window
    BY <1>1, <1>3, <1>4, Sizes DEF TypeOK
  <2> QED
    BY <1>2, <1>3, <1>4, <2>1, <2>2 DEF TypeOK
<1>6. Flow => Flow'
  BY <1>2, <1>4 DEF Flow
<1> QED
  BY <1>2, <1>5, <1>6 DEF TcpInv

LEMMA ReceiveStep ==
  ASSUME TypeOK, TcpInv, Receive
  PROVE  TypeOK' /\ TcpInv'
<1>1. PICK n \in 1..Least(Buffer, Len(stream)) :
        /\ held' = held \o SubSeq(stream, 1, n)
        /\ stream' = SubSeq(stream, n + 1, Len(stream))
  BY DEF Receive
<1>2. rpc = "recv" /\ UNCHANGED <<file, spc, chunk, taken, sstatus, rpc, out, rstatus, link, unseen>>
  BY DEF Receive, sender
<1>3. n \in 0..Len(stream) /\ n >= 1
  BY <1>1, Sizes DEF Least
<1>4. /\ SubSeq(stream, 1, n) \in Seq(Byte)
      /\ stream' \in Seq(Byte) /\ Len(stream') = Len(stream) - n
      /\ SubSeq(stream, 1, n) \o stream' = stream
  BY <1>1, <1>3, CutInTwo DEF TypeOK
<1>5. held' \in Seq(Byte)
  BY <1>1, <1>4, ConcatProperties DEF TypeOK
<1>6. TypeOK'
  <2>1. unseen' \in BOOLEAN
    BY <1>2, Zenon DEF TypeOK
  <2>2. Len(stream') <= Window
    BY <1>3, <1>4, Sizes DEF TypeOK
  <2> QED
    BY <1>2, <1>4, <1>5, <2>1, <2>2 DEF TypeOK
<1>7. Flow'
  <2>1. out \in Seq(Byte) /\ held \in Seq(Byte) /\ stream \in Seq(Byte) /\ chunk \in Seq(Byte)
    BY DEF TypeOK
  <2>2. (out \o held') \o (stream' \o chunk) = (out \o held) \o (stream \o chunk)
    <3>1. Moved(out, held, stream, chunk, n)
      BY <1>3, <2>1, MoveFront
    <3> QED
      BY <1>1, <3>1 DEF Moved
  <2>3. Flow
    BY <1>2 DEF TcpInv
  <2> QED
    BY <1>2, <2>2, <2>3 DEF Flow
<1> QED
  BY <1>2, <1>6, <1>7 DEF TcpInv

LEMMA FlushStep ==
  ASSUME TypeOK, TcpInv, Flush
  PROVE  TypeOK' /\ TcpInv'
<1>1. /\ held # <<>> /\ out' = Append(out, Head(held)) /\ held' = Tail(held)
      /\ UNCHANGED <<file, spc, chunk, taken, sstatus, rpc, rstatus, stream, link, unseen>>
  BY DEF Flush, sender
<1>2. out' \in Seq(Byte) /\ held' \in Seq(Byte) /\ out' \o held' = out \o held
  BY <1>1, MoveHead DEF TypeOK
<1>3. TypeOK'
  <2>1. unseen' \in BOOLEAN
    BY <1>1, Zenon DEF TypeOK
  <2> QED
    BY <1>1, <1>2, <2>1 DEF TypeOK
<1>4. Flow'
  BY <1>1, <1>2 DEF TcpInv, Flow
<1> QED
  BY <1>1, <1>3, <1>4 DEF TcpInv

-----------------------------------------------------------------------------
(* The steps that move none. *)

LEMMA SenderStep ==
  ASSUME TypeOK, TcpInv, Connect \/ ReadError \/ SendFails \/ SenderKilled
  PROVE  TypeOK' /\ TcpInv'
<1>1. /\ UNCHANGED <<file, chunk, taken, rpc, held, out, rstatus, stream>>
      /\ spc # "done"
      /\ \/ spc' = "read" /\ chunk = <<>> /\ link' = "up" /\ UNCHANGED sstatus
         \/ spc' = "done" /\ sstatus' \in {0, 1}
      /\ link' \in {"none", "up", "closed", "broken"}
      /\ spc' = "read" \/ spc' = "done"
      /\ link' = "closed" => spc' = "done" \/ link = "closed"
  BY DEF Connect, ReadError, SendFails, SenderKilled, SenderReturns, receiver, TcpInv, TypeOK
<1>2. (unseen' \/ ~ unseen') /\ (unseen => unseen') /\ (spc' = "done" => sstatus' = 1 \/ unseen')
  <2>1. (unseen' \/ ~ unseen') /\ (unseen => unseen')
    BY DEF Connect, ReadError, SendFails, SenderKilled
  <2>2. CASE Connect
    BY <1>1, <2>2 DEF Connect, SenderReturns
  <2>3. CASE ReadError
    BY <2>1, <2>3 DEF ReadError
  <2>4. CASE SendFails \/ SenderKilled
    BY <2>4 DEF SendFails, SenderKilled, SenderReturns
  <2> QED
    BY <2>1, <2>2, <2>3, <2>4
<1>3. TypeOK'
  <2>1. unseen' \in BOOLEAN
    BY Zenon DEF TypeOK, Connect, ReadError, SendFails, SenderKilled
  <2>2. sstatus' \in {0, 1} /\ spc' \in {"read", "done"}
    BY <1>1 DEF TypeOK
  <2> QED
    BY <1>1, <2>1, <2>2 DEF TypeOK
<1>4. ~ (rpc = "done" /\ rstatus = 0 /\ ~ unseen) /\ link # "closed"
  BY <1>1 DEF TcpInv
<1>5. (rpc # "done" => Flow)'
  BY <1>1 DEF TcpInv, Flow
<1>6. (spc = "done" /\ sstatus = 0 /\ ~ unseen => chunk = <<>> /\ taken = Len(file))'
  BY <1>1, <1>2
<1>7. (rpc = "done" /\ rstatus = 0 /\ ~ unseen => spc = "done" /\ out \o chunk = SubSeq(file, 1, taken))'
  BY <1>1, <1>2, <1>4
<1> QED
  BY <1>1, <1>3, <1>4, <1>5, <1>6, <1>7 DEF TcpInv

LEMMA ReceiverStep ==
  ASSUME TypeOK, TcpInv, Listen \/ Accept \/ AcceptFails \/ Break
  PROVE  TypeOK' /\ TcpInv'
<1>1. /\ UNCHANGED <<file, spc, chunk, taken, sstatus, held, out, stream, unseen>>
      /\ link' = "closed" => link = "closed"
      /\ link' \in {"none", "up", "closed", "broken"}
      /\ rstatus' \in {0, 1} /\ rpc' \in {"start", "accept", "recv", "done"}
      /\ \/ rpc' = rpc /\ rstatus' = rstatus
         \/ rpc \in {"start", "accept"} /\ rpc' # "done"
         \/ rpc \in {"start", "accept"} /\ rpc' = "done" /\ rstatus' = 1 /\ out = out' /\ held = held'
  BY DEF Listen, Accept, AcceptFails, Break, ReceiverReturns, sender, receiver, TypeOK
<1>2. TypeOK'
  <2>1. unseen' \in BOOLEAN
    BY <1>1, Zenon DEF TypeOK
  <2> QED
    BY <1>1, <2>1 DEF TypeOK
<1>3. CASE rpc' = "done" /\ rpc # "done"
  BY <1>1, <1>2, <1>3, FlowIsPrefix DEF TcpInv
<1>4. CASE rpc' # "done"
  BY <1>1, <1>2, <1>4 DEF TcpInv, Flow
<1>5. CASE rpc = "done" /\ rpc' = rpc
  BY <1>1, <1>2, <1>5 DEF TcpInv
<1> QED
  BY <1>1, <1>3, <1>4, <1>5

(* The receiver ends: what it wrote is a beginning of the file, and a 0     *)
(* means that the sender has ended as well and nothing is on its way.       *)
LEMMA EndStep ==
  ASSUME TypeOK, TcpInv, ReceiveEnd \/ CloseFails \/ WriteFails
  PROVE  TypeOK' /\ TcpInv'
<1>1. /\ UNCHANGED <<file, spc, chunk, taken, sstatus, out, stream>>
      /\ rpc = "recv" /\ rpc' = "done" /\ held' = <<>>
      /\ rstatus' \in {0, 1}
      /\ link' = "closed" => link = "closed"
      /\ link' \in {"none", "up", "closed", "broken"}
  BY DEF ReceiveEnd, CloseFails, WriteFails, ReceiverReturns, sender, TypeOK
<1>2. TypeOK'
  <2>1. unseen' \in BOOLEAN
    BY Zenon DEF TypeOK, ReceiveEnd, CloseFails, WriteFails
  <2>2. held' \in Seq(Byte)
    BY <1>1, EmptySeq
  <2> QED
    BY <1>1, <2>1, <2>2 DEF TypeOK
<1>3. Flow /\ IsPrefix(out, file)
  BY <1>1, FlowIsPrefix DEF TcpInv
<1>4. (rpc = "done" /\ rstatus = 0 /\ ~ unseen =>
         spc = "done" /\ out \o chunk = SubSeq(file, 1, taken))'
  <2>1. CASE ReceiveEnd /\ rstatus' = 0
    <3>1. stream = <<>> /\ held = <<>> /\ link = "closed"
      BY <2>1 DEF ReceiveEnd, ReceiverReturns
    <3>2. out \o held = out /\ stream \o chunk = chunk
      BY <3>1, ConcatEmptySeq DEF TypeOK
    <3> QED
      BY <1>1, <1>3, <3>1, <3>2 DEF TcpInv, Flow
  <2>2. CASE ~ (ReceiveEnd /\ rstatus' = 0)
    <3>1. rstatus' = 1 \/ unseen'
      BY <2>2 DEF ReceiveEnd, CloseFails, WriteFails, ReceiverReturns, TypeOK
    <3> QED
      BY <3>1
  <2> QED
    BY <2>1, <2>2
<1>5. (spc = "done" /\ sstatus = 0 /\ ~ unseen => chunk = <<>> /\ taken = Len(file))'
  <2>1. unseen => unseen'
    BY DEF ReceiveEnd, CloseFails, WriteFails
  <2> QED
    BY <1>1, <2>1 DEF TcpInv
<1> QED
  BY <1>1, <1>2, <1>3, <1>4, <1>5 DEF TcpInv

LEMMA InvStep == TypeOK /\ TcpInv /\ [Next]_vars => (TypeOK /\ TcpInv)'
<1> SUFFICES ASSUME TypeOK, TcpInv, [Next]_vars PROVE TypeOK' /\ TcpInv'
  OBVIOUS
<1>1. CASE UNCHANGED vars
  <2>1. /\ UNCHANGED <<file, spc, chunk, taken, sstatus, rpc, held, out, rstatus>>
        /\ UNCHANGED <<stream, link, unseen>>
    BY <1>1 DEF vars, sender, receiver
  <2>2. TypeOK'
    <3>1. unseen' \in BOOLEAN
      BY <2>1, Zenon DEF TypeOK
    <3> QED
      BY <2>1, <3>1 DEF TypeOK
  <2>3. TcpInv'
    BY <2>1 DEF TcpInv, Flow
  <2> QED
    BY <2>2, <2>3
<1>2. CASE Sender
  BY <1>2, ReadStep, SendStep, SenderStep DEF Sender
<1>3. CASE Receiver
  BY <1>3, ReceiveStep, FlushStep, ReceiverStep, EndStep DEF Receiver
<1>4. CASE Break
  BY <1>4, ReceiverStep
<1> QED
  BY <1>1, <1>2, <1>3, <1>4 DEF Next

-----------------------------------------------------------------------------
(* Types, for every size of buffers and connection. *)
THEOREM TcpInvariant == Spec => []TypeOK
<1> QED
  BY AtStart, InvStep, PTL DEF Spec

(* However send() and recv() cut the stream and whatever fails, the output  *)
(* file is a beginning of the file that was sent: the loops of tcpsend.c:14 *)
(* and tcprecv.c:13 lose, repeat and reorder nothing.                       *)
THEOREM BytesInOrder == Spec => []ReceivedInOrder
<1>1. TypeOK /\ TcpInv => ReceivedInOrder
  <2> SUFFICES ASSUME TypeOK, TcpInv PROVE IsPrefix(out \o held, file)
    BY DEF ReceivedInOrder
  <2>1. CASE rpc # "done"
    BY <2>1, FlowIsPrefix DEF TcpInv
  <2>2. CASE rpc = "done"
    <3>1. held = <<>> /\ IsPrefix(out, file)
      BY <2>2 DEF TcpInv
    <3>2. out \o held = out
      BY <3>1, ConcatEmptySeq DEF TypeOK
    <3> QED
      BY <3>1, <3>2
  <2> QED
    BY <2>1, <2>2
<1> QED
  BY <1>1, AtStart, InvStep, PTL DEF Spec

LEMMA WholeFile ==
  ASSUME TypeOK, TcpInv
  PROVE  BothZeroMeansWhole
<1> SUFFICES ASSUME spc = "done", sstatus = 0, rpc = "done", rstatus = 0, ~ unseen
             PROVE  out = file
  BY DEF BothZeroMeansWhole
<1>1. out \o chunk = SubSeq(file, 1, taken) /\ chunk = <<>> /\ taken = Len(file)
  BY DEF TcpInv
<1>2. out \o chunk = out
  BY <1>1, ConcatEmptySeq DEF TypeOK
<1>3. SubSeq(file, 1, Len(file)) = file
  BY Sizes, SubSeqFull
<1> QED
  BY <1>1, <1>2, <1>3

(* Two exit statuses of 0 mean that the whole file arrived, unless fread()  *)
(* or fclose() failed: nothing else in tcpsend.c and tcprecv.c is ignored.  *)
THEOREM BothZeroIsWhole == Spec => []BothZeroMeansWhole
<1>1. TypeOK /\ TcpInv => BothZeroMeansWhole
  BY WholeFile
<1> QED
  BY <1>1, AtStart, InvStep, PTL DEF Spec

-----------------------------------------------------------------------------
(* The step of TcpFile that writes is a Write of Transfer, the last of the  *)
(* two ends is its Report, and every other step changes nothing of it.      *)

LEMMA NextByte ==
  ASSUME TypeOK, Flow, held # <<>>
  PROVE  Len(out) < Len(file) /\ Head(held) = file[Len(out) + 1]
<1>1. /\ out \in Seq(Byte) /\ held \in Seq(Byte) /\ out \o held \in Seq(Byte)
      /\ file \in Seq(Byte) /\ IsPrefix(out \o held, file)
  BY Sizes, FlowParts, FlowIsPrefix DEF TypeOK
<1>2. /\ Len(out) \in Nat /\ Len(held) \in Nat \ {0} /\ Len(file) \in Nat
      /\ Len(out \o held) = Len(out) + Len(held)
      /\ (out \o held)[Len(out) + 1] = held[1]
  BY <1>1, EmptySeq, LenProperties, ConcatProperties
<1>3. /\ Len(out \o held) <= Len(file)
      /\ \A i \in 1..Len(out \o held) : (out \o held)[i] = file[i]
  BY <1>1 DEF IsPrefix
<1> QED
  BY <1>2, <1>3

LEMMA ResultStep ==
  ASSUME TypeOK, TcpInv, [Next]_vars, TypeOK', TcpInv', BothZeroMeansWhole'
  PROVE  /\ Result' = Result \/ (Result = "none" /\ Result' \in {"whole", "failed", "unchecked"})
         /\ Result' = "whole" => out' = file'
<1>1. Result' = "whole" => out' = file'
  BY DEF Result, BothZeroMeansWhole
<1>2. Result \in {"none", "whole", "failed", "unchecked"}
      /\ Result' \in {"none", "whole", "failed", "unchecked"}
  BY DEF Result
<1>3. spc = "done" /\ rpc = "done" => UNCHANGED <<spc, rpc, sstatus, rstatus, unseen>>
  BY DEF Next, Sender, Receiver, Connect, Read, ReadError, Send, SendFails, SenderKilled,
         Listen, Accept, AcceptFails, Receive, Flush, ReceiveEnd, CloseFails, WriteFails, Break,
         vars, sender, receiver, TcpInv
<1>4. Result # "none" => Result' = Result
  BY <1>3 DEF Result
<1> QED
  BY <1>1, <1>2, <1>4

LEMMA TransferStep ==
  ASSUME TypeOK, TcpInv, [Next]_vars, TypeOK', TcpInv', BothZeroMeansWhole'
  PROVE  [Abstract!Next]_(Abstract!vars)
<1>1. file' = file
  BY DEF Next, Sender, Receiver, Connect, Read, ReadError, Send, SendFails, SenderKilled,
         Listen, Accept, AcceptFails, Receive, Flush, ReceiveEnd, CloseFails, WriteFails, Break, vars
<1>2. Abstract!Write \/ out' = out
  <2>1. CASE Flush
    <3>1. held # <<>> /\ out' = Append(out, Head(held))
      BY <2>1 DEF Flush
    <3>2. Flow
      BY <3>1 DEF TcpInv
    <3> QED
      BY <3>1, <3>2, NextByte DEF Abstract!Write
  <2>2. CASE ~ Flush
    BY <2>2 DEF Next, Sender, Receiver, Connect, Read, ReadError, Send, SendFails,
         SenderKilled, Listen, Accept, AcceptFails, Receive, ReceiveEnd, CloseFails, WriteFails, Break,
         vars, receiver
  <2> QED
    BY <2>1, <2>2
<1>3. Abstract!Report \/ Result' = Result
  BY ResultStep DEF Abstract!Report
<1>4. Abstract!Promise(Result', out')
  <2>1. Result' # "sent"
    BY DEF Result
  <2> QED
    BY <1>1, <2>1, ResultStep DEF Abstract!Promise
<1> QED
  BY <1>1, <1>2, <1>3, <1>4 DEF Abstract!Next

(* tcpsend and tcprecv implement Transfer, for every file, buffer and       *)
(* connection, whatever fails: nothing but the next byte is ever written,   *)
(* and two results of 0 are said of a whole file only, for good.            *)
THEOREM TcpImplementsTransfer == Spec => TcpTransfers
<1>1. Init => Abstract!Init
  BY DEF Init, Abstract!Init, Result
<1>2. TypeOK /\ TcpInv => BothZeroMeansWhole
  BY WholeFile
<1>3. /\ TypeOK /\ TcpInv /\ (TypeOK /\ TcpInv)' /\ BothZeroMeansWhole' /\ [Next]_vars
      => [Abstract!Next]_(Abstract!vars)
  BY TransferStep
<1> QED
  BY <1>1, <1>2, <1>3, AtStart, InvStep, PTL DEF Spec, TcpTransfers, Abstract!Spec
=============================================================================

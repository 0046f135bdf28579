------------------------------- MODULE TcpFile ------------------------------
(***************************************************************************)
(* Network/tcpsend and Network/tcprecv: one file over one TCP connection.   *)
(* Nothing but the end of the stream tells the receiver that it has all of  *)
(* it.  The connection is the system's: it keeps bytes in order, takes and  *)
(* hands over as many as it likes, and may break.                           *)
(***************************************************************************)
EXTENDS Naturals, SequencesExt

CONSTANTS
  Byte,
  Files,      \* the files to send
  Buffer,     \* bytes one fread() or recv() can take, 1024
  Window,     \* bytes the connection holds
  Faults      \* what may go wrong in this instance

FaultKinds == {"killed", "send", "recv", "read", "write", "close", "listen",
               "accept", "connect"}

ASSUME TcpFileAssumption ==
  /\ Files \subseteq Seq(Byte)
  /\ Buffer \in Nat \ {0} /\ Window \in Nat \ {0}
  /\ Faults \subseteq FaultKinds

VARIABLES
  file,       \* the file tcpsend was given
  spc,        \* sender: "connect", "read", "send", "done"
  chunk,      \* sender: what fread() returned and send() has not taken yet
  taken,      \* sender: bytes read from the file
  sstatus,    \* exit status of the sender
  rpc,        \* receiver: "start", "accept", "recv", "done"
  held,       \* receiver: bytes given to fwrite() and not on the disk yet
  out,        \* what the output file holds
  rstatus,    \* exit status of the receiver
  stream,     \* bytes the connection holds
  link,       \* "none", "up", "closed" by the sender, "broken"
  unseen      \* history: fread() or fclose() failed and nobody asked

sender   == <<spc, chunk, taken, sstatus>>
receiver == <<rpc, held, out, rstatus>>
vars     == <<file, sender, receiver, stream, link, unseen>>

Init ==
  /\ file \in Files
  /\ spc = "connect" /\ chunk = <<>> /\ taken = 0 /\ sstatus = 0
  /\ rpc = "start" /\ held = <<>> /\ out = <<>> /\ rstatus = 0
  /\ stream = <<>> /\ link = "none" /\ unseen = FALSE

-----------------------------------------------------------------------------
(* tcpsend                                                                  *)

SenderReturns(s) == spc' = "done" /\ sstatus' = s

Connect ==
  /\ spc = "connect"
  /\ \/ /\ rpc = "accept" /\ link = "none"
        /\ link' = "up"
        /\ spc' = "read" /\ UNCHANGED sstatus
     \/ /\ rpc # "accept" \/ "connect" \in Faults
        /\ SenderReturns(1) /\ UNCHANGED link
  /\ UNCHANGED <<file, chunk, taken, receiver, stream, unseen>>

Least(m, n) == IF m < n THEN m ELSE n

(* Mutants of Read: the count is a whole buffer; the socket stays open. *)
ReadPastEnd ==
  /\ spc = "read"
  /\ IF Len(file) > taken
       THEN /\ chunk' = SubSeq(file, taken + 1, Least(taken + Buffer, Len(file)))
            /\ taken' = taken + Buffer
            /\ spc' = "send"
            /\ UNCHANGED <<sstatus, link>>
       ELSE SenderReturns(0) /\ UNCHANGED <<link, chunk, taken>>
  /\ UNCHANGED <<file, receiver, stream, unseen>>

ReadLeavesOpen ==
  /\ spc = "read"
  /\ LET last == Least(taken + Buffer, Len(file))
     IN IF last > taken
          THEN chunk' = SubSeq(file, taken + 1, last) /\ taken' = last
                 /\ spc' = "send" /\ UNCHANGED sstatus
          ELSE SenderReturns(0) /\ UNCHANGED <<chunk, taken>>
  /\ UNCHANGED <<file, receiver, stream, link, unseen>>

(* fread() of a buffer; at the end of the file the socket is closed and the *)
(* sender returns 0, without asking whether the receiver wrote anything.    *)
Read ==
  /\ spc = "read"
  /\ LET last == Least(taken + Buffer, Len(file))
     IN IF last > taken
          THEN /\ chunk' = SubSeq(file, taken + 1, last)
               /\ taken' = last
               /\ spc' = "send"
               /\ UNCHANGED <<sstatus, link>>
          ELSE /\ SenderReturns(0)
               /\ link' = IF link = "up" THEN "closed" ELSE link
               /\ UNCHANGED <<chunk, taken>>
  /\ UNCHANGED <<file, receiver, stream, unseen>>

(* fread() returns 0 for an error too, which nobody asks about. *)
ReadError ==
  /\ spc = "read" /\ "read" \in Faults
  /\ SenderReturns(0)
  /\ link' = IF link = "up" THEN "closed" ELSE link
  /\ unseen' = TRUE
  /\ UNCHANGED <<file, chunk, taken, receiver, stream>>

(* Mutant of Send: what send() did not take is not sent again. *)
SendOnce ==
  /\ spc = "send" /\ link = "up"
  /\ \E n \in 1..Len(chunk) :
       /\ Len(stream) + n <= Window
       /\ stream' = stream \o SubSeq(chunk, 1, n)
  /\ chunk' = <<>>
  /\ spc' = "read"
  /\ UNCHANGED <<file, taken, sstatus, receiver, link, unseen>>

(* send() takes some of the bytes; the loop offers the rest again. *)
Send ==
  /\ spc = "send" /\ link = "up"
  /\ \E n \in 1..Len(chunk) :
       /\ Len(stream) + n <= Window
       /\ stream' = stream \o SubSeq(chunk, 1, n)
       /\ chunk' = SubSeq(chunk, n + 1, Len(chunk))
  /\ spc' = IF chunk' = <<>> THEN "read" ELSE "send"
  /\ UNCHANGED <<file, taken, sstatus, receiver, link, unseen>>

SendFails ==
  /\ spc = "send"
  /\ link = "broken" \/ "send" \in Faults
  /\ SenderReturns(1)
  /\ link' = IF link = "up" THEN "closed" ELSE link
  /\ UNCHANGED <<file, chunk, taken, receiver, stream, unseen>>

(* The sender is killed: the system closes its socket in good order. *)
SenderKilled ==
  /\ "killed" \in Faults
  /\ spc \in {"read", "send"}
  /\ SenderReturns(1)
  /\ link' = IF link = "up" THEN "closed" ELSE link
  /\ UNCHANGED <<file, chunk, taken, receiver, stream, unseen>>

-----------------------------------------------------------------------------
(* tcprecv                                                                  *)

ReceiverReturns(s) == rpc' = "done" /\ rstatus' = s

(* The output file is created before the port is tried. *)
Listen ==
  /\ rpc = "start"
  /\ \/ rpc' = "accept" /\ UNCHANGED rstatus
     \/ "listen" \in Faults /\ ReceiverReturns(1)
  /\ UNCHANGED <<file, sender, held, out, stream, link, unseen>>

Accept ==
  /\ rpc = "accept" /\ link # "none"
  /\ rpc' = "recv"
  /\ UNCHANGED <<file, sender, held, out, rstatus, stream, link, unseen>>

(* The connection that was waiting to be accepted is gone with the socket.  *)
AcceptFails ==
  /\ rpc = "accept" /\ "accept" \in Faults
  /\ ReceiverReturns(1)
  /\ link' = IF link = "none" THEN link ELSE "broken"
  /\ UNCHANGED <<file, sender, held, out, stream, unseen>>

Receive ==
  /\ rpc = "recv"
  /\ \E n \in 1..Least(Buffer, Len(stream)) :
       /\ held' = held \o SubSeq(stream, 1, n)
       /\ stream' = SubSeq(stream, n + 1, Len(stream))
  /\ UNCHANGED <<file, sender, rpc, out, rstatus, link, unseen>>

(* The C library writes held bytes out as it likes. *)
Flush ==
  /\ held # <<>>
  /\ out' = Append(out, Head(held))
  /\ held' = Tail(held)
  /\ UNCHANGED <<file, sender, rpc, rstatus, stream, link, unseen>>

(* recv() returns 0 at the end of the stream, less when the connection      *)
(* broke; fclose() then writes out the rest.                                *)
ReceiveEnd ==
  /\ rpc = "recv" /\ held = <<>>
  /\ \/ stream = <<>> /\ link = "closed" /\ ReceiverReturns(0)
     \/ link = "broken" /\ ReceiverReturns(1)
  /\ UNCHANGED <<file, sender, held, out, stream, link, unseen>>

(* The result of fclose() is not looked at. *)
CloseFails ==
  /\ rpc = "recv" /\ held # <<>> /\ "close" \in Faults
  /\ stream = <<>> /\ link = "closed"
  /\ held' = <<>>
  /\ ReceiverReturns(0)
  /\ unseen' = TRUE
  /\ UNCHANGED <<file, sender, out, stream, link>>

WriteFails ==
  /\ rpc = "recv" /\ "write" \in Faults /\ stream # <<>>
  /\ ReceiverReturns(1)
  /\ held' = <<>>
  /\ link' = "broken"
  /\ UNCHANGED <<file, sender, out, stream, unseen>>

(* The connection breaks: a host is down, a line is cut. *)
Break ==
  /\ "recv" \in Faults /\ link \in {"up", "closed"}
  /\ link' = "broken"
  /\ UNCHANGED <<file, sender, receiver, stream, unseen>>

Sender   == Connect \/ Read \/ ReadError \/ Send \/ SendFails \/ SenderKilled
Receiver ==
  \/ Listen \/ Accept \/ AcceptFails
  \/ Receive \/ Flush \/ ReceiveEnd \/ CloseFails \/ WriteFails

Next == Sender \/ Receiver \/ Break

Spec == Init /\ [][Next]_vars

(* Both programs run, and the connection moves bytes; nothing is obliged to *)
(* fail.                                                                    *)
FairSpec ==
  /\ Spec
  /\ WF_vars(Connect \/ Read \/ Send \/ (SendFails /\ link = "broken"))
  /\ WF_vars(Listen \/ Accept \/ Receive \/ Flush \/ ReceiveEnd)

-----------------------------------------------------------------------------
TypeOK ==
  /\ file \in Files
  /\ spc \in {"connect", "read", "send", "done"}
  /\ chunk \in Seq(Byte) /\ Len(chunk) <= Buffer
  /\ taken \in 0..Len(file)
  /\ sstatus \in {0, 1} /\ rstatus \in {0, 1}
  /\ rpc \in {"start", "accept", "recv", "done"}
  /\ held \in Seq(Byte) /\ out \in Seq(Byte)
  /\ stream \in Seq(Byte) /\ Len(stream) <= Window
  /\ link \in {"none", "up", "closed", "broken"}
  /\ unseen \in BOOLEAN

(* Partial sends and receives neither lose, repeat nor reorder a byte:      *)
(* what the output file holds is the beginning of the file that was sent.   *)
ReceivedInOrder == IsPrefix(out \o held, file)

(* When both programs return 0 the file has arrived whole, unless fread()   *)
(* or fclose() failed, whose results are not looked at.                     *)
BothZeroMeansWhole ==
  spc = "done" /\ sstatus = 0 /\ rpc = "done" /\ rstatus = 0 /\ ~ unseen => out = file

(* The two programs are a Transfer: the output file grows by the next byte  *)
(* of the file, never by another one, and the two results taken together    *)
(* say "whole" only of a whole copy, for good.                              *)
Result ==
  IF spc # "done" \/ rpc # "done" THEN "none"
  ELSE IF unseen THEN "unchecked"
  ELSE IF sstatus = 0 /\ rstatus = 0 THEN "whole" ELSE "failed"

Abstract == INSTANCE Transfer WITH source <- file, copy <- out, result <- Result

TcpTransfers == Abstract!Spec

(* tcpsend and tcprecv that met come to an end together: neither waits for  *)
(* a byte the other will not send.                                          *)
BothEnd == (link = "up") ~> (spc = "done" /\ rpc = "done")
=============================================================================

-------------------------------- MODULE Tftp --------------------------------
(***************************************************************************)
(* Network/tftp: transfer(), the client's half of one get or put, against   *)
(* an RFC 1350 server over UDP.                                             *)
(*                                                                         *)
(* A file is the sequence of blocks it travels in: full blocks of 512 bytes *)
(* and one short block, possibly empty, which ends it.  Block numbers are   *)
(* ints in the client and 16-bit fields on the wire, and the client never   *)
(* sends anything twice.                                                    *)
(***************************************************************************)
EXTENDS Integers, SequencesExt

CONSTANTS
  Block,      \* contents of a DATA packet
  Short,      \* those of less than 512 bytes
  Files,      \* the files the transfers are about
  Wrap,       \* number of block numbers a packet can carry, 65536
  Faults      \* what may go wrong in this instance

FaultKinds == {"open", "read", "write", "send", "receive", "server", "loss"}

(* Only the last block of a file is short. *)
File == {f \in Seq(Block) : f # <<>> /\ \A i \in DOMAIN f : f[i] \in Short <=> i = Len(f)}

ASSUME TftpAssumption ==
  /\ Short \subseteq Block
  /\ Files \subseteq File
  /\ Wrap \in Nat \ {0}
  /\ Faults \subseteq FaultKinds

VARIABLES
  get,        \* TRUE for get, FALSE for put
  source,     \* the file to transfer
  pc,         \* "open", "wait", "done"
  block,      \* the client's block counter
  local,      \* the blocks given to fwrite() (get) or read by fread() (put)
  status,     \* what transfer() returned
  server,     \* "idle", "busy", "complete", "refused"
  number,     \* the server's block: sent last (get), written last (put)
  remote,     \* put: the blocks the server has written
  lossy,      \* whether this network loses datagrams
  toServer,   \* datagrams on their way to the server
  toClient    \* datagrams on their way to the client

client == <<pc, block, local, status>>
peer   == <<server, number, remote>>
vars   == <<get, source, lossy, client, peer, toServer, toClient>>

(* Mutant of Field: the number is not cut. *)
FieldUncut(n) == n

(* word(): an int is cut to the 16 bits of its field. *)
Field(n) == n % Wrap

Data(n, b) == [op |-> "DATA", field |-> Field(n), data |-> b]
Ack(n)     == [op |-> "ACK", field |-> Field(n)]
Request    == [op |-> "REQUEST"]
Error      == [op |-> "ERROR"]

Packet ==
  [op: {"DATA"}, field: 0..(Wrap - 1), data: Block]
    \cup [op: {"ACK"}, field: 0..(Wrap - 1)] \cup {Request, Error}

Init ==
  /\ get \in BOOLEAN
  /\ source \in Files
  /\ pc = "open"
  /\ block = 1
  /\ local = <<>>
  /\ status = 0
  /\ server = "idle"
  /\ number = 0
  /\ remote = <<>>
  /\ lossy \in (IF "loss" \in Faults THEN BOOLEAN ELSE {FALSE})
  /\ toServer = {}
  /\ toClient = {}

-----------------------------------------------------------------------------
(* The client.                                                              *)

Return(s) == pc' = "done" /\ status' = s

(* The local file is opened, for get cut to nothing, and the request sent. *)
Open ==
  /\ pc = "open"
  /\ pc' = "wait"
  /\ toServer' = toServer \cup {Request}
  /\ UNCHANGED <<get, source, lossy, block, local, status, peer, toClient>>

OpenFails ==
  /\ pc = "open"
  /\ Faults \cap {"open", "send"} # {}
  /\ Return(1)
  /\ UNCHANGED <<get, source, lossy, block, local, peer, toServer, toClient>>

(* recvfrom() hands over any datagram; a duplicate of it may come later. *)
Receives(m) == pc = "wait" /\ m \in toClient

(* recvfrom() fails, or what it hands over is shorter than a header.        *)
ReceiveFails ==
  /\ pc = "wait"
  /\ "receive" \in Faults
  /\ Return(1)
  /\ UNCHANGED <<get, source, lossy, block, local, peer, toServer, toClient>>

ReceiveError ==
  /\ Receives(Error)
  /\ Return(1)
  /\ UNCHANGED <<get, source, lossy, block, local, peer, toServer, toClient>>

(* Mutant of Expected: the int is cut before comparing. *)
ExpectedField(m) == m.op = "DATA" /\ m.field = Field(block)

(* The 16-bit field is compared with the whole int. *)
Expected(m) == m.op = "DATA" /\ m.field = block

(* get: the block is written and acknowledged; a short one is the last. *)
ReceiveData ==
  \E m \in toClient :
    /\ Receives(m)
    /\ get
    /\ Expected(m)
    /\ local' = Append(local, m.data)
    /\ toServer' = toServer \cup {Ack(block)}
    /\ IF m.data \in Short
         THEN Return(0) /\ UNCHANGED block
         ELSE block' = block + 1 /\ UNCHANGED <<pc, status>>
    /\ UNCHANGED <<get, source, lossy, peer, toClient>>

WriteFails ==
  /\ "write" \in Faults
  /\ \E m \in toClient : Receives(m) /\ get /\ Expected(m)
  /\ Return(1)
  /\ UNCHANGED <<get, source, lossy, block, local, peer, toServer, toClient>>

Sends(b) ==
  /\ local' = Append(local, b)
  /\ toServer' = toServer \cup {Data(block, b)}
  /\ IF b \in Short
       THEN Return(0) /\ UNCHANGED block
       ELSE block' = block + 1 /\ UNCHANGED <<pc, status>>

(* What fread() makes of the next 512 bytes: after an error they look like  *)
(* the last ones.                                                           *)
Reads == {source[Len(local) + 1]} \cup (IF "read" \in Faults THEN Short ELSE {})

(* Mutants of ReceiveAck: the file is read before the ACK is looked at; the *)
(* block number is not advanced.                                            *)
ReadEarly ==
  \E m \in toClient :
    /\ Receives(m)
    /\ ~ get
    /\ Len(local) < Len(source)
    /\ IF m.op = "ACK" /\ m.field = block - 1
         THEN \E b \in Reads : Sends(b)
         ELSE /\ local' = Append(local, source[Len(local) + 1])
              /\ UNCHANGED <<block, pc, status, toServer>>
    /\ UNCHANGED <<get, source, lossy, peer, toClient>>

SameNumber ==
  \E m \in toClient :
    /\ Receives(m)
    /\ ~ get
    /\ m.op = "ACK" /\ m.field = block - 1
    /\ toServer' = toServer \cup {Data(block, source[block])}
    /\ IF source[block] \in Short THEN Return(0) ELSE UNCHANGED <<pc, status>>
    /\ UNCHANGED <<get, source, lossy, block, local, peer, toClient>>

(* put: the ACK of the last block lets the next one out; the transfer is    *)
(* over when the short block has been sent.                                 *)
ReceiveAck ==
  \E m \in toClient :
    /\ Receives(m)
    /\ ~ get
    /\ m.op = "ACK" /\ m.field = block - 1
    /\ \E b \in Reads : Sends(b)
    /\ UNCHANGED <<get, source, lossy, peer, toClient>>

SendFails ==
  /\ "send" \in Faults
  /\ \E m \in toClient : Receives(m) /\ ~ get /\ m.op = "ACK" /\ m.field = block - 1
  /\ Return(1)
  /\ UNCHANGED <<get, source, lossy, block, local, peer, toServer, toClient>>

-----------------------------------------------------------------------------
(* The server, by RFC 1350; it is not part of the repository.               *)

Serve ==
  /\ server = "idle"
  /\ Request \in toServer
  /\ server' = "busy"
  /\ IF get
       THEN number' = 1 /\ toClient' = toClient \cup {Data(1, source[1])}
       ELSE number' = 0 /\ toClient' = toClient \cup {Ack(0)}
  /\ UNCHANGED <<get, source, lossy, client, remote, toServer>>

(* A missing file, no permission, a full disk: the server gives up. *)
Refuse ==
  /\ "server" \in Faults
  /\ server = "busy" \/ (server = "idle" /\ Request \in toServer)
  /\ server' = "refused"
  /\ toClient' = toClient \cup {Error}
  /\ UNCHANGED <<get, source, lossy, client, number, remote, toServer>>

ServeAck ==
  /\ server = "busy" /\ get
  /\ Ack(number) \in toServer
  /\ IF number = Len(source)
       THEN /\ server' = "complete"
            /\ UNCHANGED <<number, toClient>>
       ELSE /\ number' = number + 1
            /\ toClient' = toClient \cup {Data(number + 1, source[number + 1])}
            /\ UNCHANGED server
  /\ UNCHANGED <<get, source, lossy, client, remote, toServer>>

(* RFC 1350 numbers do not start again: a put of Wrap blocks stops here. *)
ServeData ==
  /\ server = "busy" /\ ~ get
  /\ \E m \in toServer :
       /\ m.op = "DATA" /\ m.field = number + 1
       /\ remote' = Append(remote, m.data)
       /\ server' = IF m.data \in Short THEN "complete" ELSE "busy"
  /\ number' = number + 1
  /\ toClient' = toClient \cup {Ack(number + 1)}
  /\ UNCHANGED <<get, source, lossy, client, toServer>>

(* The server's timer: the last packet goes out again. *)
Resend ==
  /\ server = "busy"
  /\ toClient' = toClient \cup {IF get THEN Data(number, source[number]) ELSE Ack(number)}
  /\ UNCHANGED <<get, source, lossy, client, peer, toServer>>

(* UDP: datagrams stay in the sets, so they can arrive late, twice and in   *)
(* any order; a lost one is taken out.  An ACK whose sendto() fails, which  *)
(* the client does not look at, is lost as well.                            *)
Lose ==
  /\ lossy
  /\ \/ /\ \E m \in toServer : toServer' = toServer \ {m}
        /\ UNCHANGED toClient
     \/ /\ \E m \in toClient : toClient' = toClient \ {m}
        /\ UNCHANGED toServer
  /\ UNCHANGED <<get, source, lossy, client, peer>>

Client ==
  \/ Open \/ OpenFails \/ ReceiveFails \/ ReceiveError
  \/ ReceiveData \/ WriteFails
  \/ ReceiveAck \/ SendFails

Server == Serve \/ Refuse \/ ServeAck \/ ServeData \/ Resend

Next == Client \/ Server \/ Lose

Spec == Init /\ [][Next]_vars

(* A datagram that stays is received at last, and the server answers; no    *)
(* call is obliged to fail, and no server to refuse.                        *)
FairSpec ==
  /\ Spec
  /\ WF_vars(Open \/ ReceiveError \/ ReceiveData \/ ReceiveAck)
  /\ WF_vars(Serve \/ ServeAck \/ ServeData \/ Resend)

-----------------------------------------------------------------------------
TypeOK ==
  /\ get \in BOOLEAN
  /\ source \in Files
  /\ pc \in {"open", "wait", "done"}
  /\ block \in Nat \ {0}
  /\ local \in Seq(Block)
  /\ status \in {0, 1}
  /\ server \in {"idle", "busy", "complete", "refused"}
  /\ number \in Nat
  /\ remote \in Seq(Block)
  /\ lossy \in BOOLEAN
  /\ toServer \subseteq Packet
  /\ toClient \subseteq Packet

(* Lost, late and repeated datagrams never put a wrong, a second or an      *)
(* out-of-order block into the file a get is writing, not even where the    *)
(* 16-bit block number of a long file starts again.                         *)
GetInOrder == get => IsPrefix(local, source)

(* A get that returns 0 has given the whole file to the C library (what     *)
(* fclose() makes of it is not looked at).                                  *)
GetWhole == get /\ pc = "done" /\ status = 0 => local = source

(* The same of what a put has the server write: its blocks are those of the *)
(* local file, in order, whatever arrives twice or late.                    *)
PutInOrder == ~ get => IsPrefix(remote, source)

(* A put that returned 0 has stored the file, once nothing of it is on its  *)
(* way to the server any more: on a network that loses nothing, with a      *)
(* server that accepts it, and for less than Wrap blocks.                   *)
InFlight == \E m \in toServer : m.op = "DATA" /\ m.field = number + 1

Arrived == ~ get /\ pc = "done" /\ status = 0 /\ ~ (server = "busy" /\ InFlight)

PutWhole ==
  Arrived /\ ~ lossy /\ server # "refused" /\ Len(source) < Wrap => remote = source

(* get and put are Transfers: what is written grows by the next block, on    *)
(* any network; a get that returned 0 has the whole file, and a put that    *)
(* returned 0, without asking for the last ACK, lacks at most the last      *)
(* block at the server, where it may still arrive.                          *)
Result ==
  IF pc # "done" THEN "none"
  ELSE IF status # 0 THEN "failed"
  ELSE IF get THEN "whole" ELSE "sent"

Abstract == INSTANCE Transfer WITH copy <- IF get THEN local ELSE remote, result <- Result

TftpTransfers == Abstract!Spec

(* Without losses every transfer of less than Wrap blocks ends: the client  *)
(* has no timer, but whatever it waits for has been sent.                   *)
Termination == ~ lossy /\ Len(source) < Wrap => <>(pc = "done")

-----------------------------------------------------------------------------
(* The inductive invariants behind GetInOrder, GetWhole and PutInOrder:     *)
(* what is in flight was sent for a block its sender had reached, and below *)
(* Wrap no two of these blocks share a number.                              *)

FirstBlocks(s, n) == Len(s) = n /\ \A i \in 1..n : s[i] = source[i]

Success == pc = "done" /\ status = 0

GetClient ==
  /\ block <= Len(source) /\ block <= Wrap
  /\ Success => FirstBlocks(local, block) /\ block = Len(source) /\ block < Wrap
  /\ ~ Success => FirstBlocks(local, block - 1)

GetServer ==
  /\ number <= block
  /\ server = "busy" => number >= 1

GetData ==
  \A m \in toClient :
    m = Error \/ \E k \in 1..number : m = Data(k, source[k])

GetAcks ==
  \A m \in toServer :
    \/ m = Request
    \/ \E k \in 1..block : m = Ack(k) /\ k < Wrap /\ (k < block \/ Success)

GetInv == get => GetClient /\ GetServer /\ GetData /\ GetAcks

(* A read error of the local file is the one thing that spoils a put. *)
PutInv ==
  ~ get =>
    /\ pc # "done" => block <= Len(source) /\ Len(local) = block - 1
    /\ "read" \notin Faults =>
         /\ number <= Len(source) /\ FirstBlocks(remote, number)
         /\ \A m \in toServer :
              m = Request
                \/ \E k \in 1..Len(source) : m = Data(k, source[k]) /\ k <= Wrap

TftpInv == (server = "idle" => number = 0) /\ GetInv /\ PutInv
=============================================================================

--------------------------------- MODULE Code --------------------------------
(***************************************************************************)
(* The commands about bits and bytes, as functions: binex (S-records), attr *)
(* (attributes of a file), fixmod (header of a module), and the checksums   *)
(* mbr gives a descriptor module.                                           *)
(***************************************************************************)
EXTENDS Stdio, Integers, Sequences, FiniteSets, SequencesExt

CONSTANT
  ParityAt     \* bytes of a module header in front of its parity: 46

ASSUME CodeAssumption == ParityAt \in Nat /\ ParityAt % 2 = 0

(* binex: the type of the record, its bytes behind the type: the count, the *)
(* address, the data and the checksum.                                      *)
AddressBytes(type) == IF type = 1 THEN 2 ELSE IF type = 2 THEN 3 ELSE 4

Places == <<16777216, 65536, 256, 1>>
AddressOf(address, ab) == [i \in 1..ab |-> (address \div Places[4 - ab + i]) % 256]

SumOf(bytes) == FoldLeft(LAMBDA sum, b : sum + b, 0, bytes)

(* Mutant of Record: the count is not in the sum. *)
RecordUncounted(type, address, data) ==
  LET ab == AddressBytes(type)
      body == AddressOf(address, ab) \o data
  IN [type |-> type, bytes |-> <<ab + Len(data) + 1>> \o body \o <<(- (SumOf(body) + 1)) % 256>>]

Record(type, address, data) ==
  LET ab == AddressBytes(type)
      body == <<ab + Len(data) + 1>> \o AddressOf(address, ab) \o data
  IN [type |-> type, bytes |-> Append(body, (- (SumOf(body) + 1)) % 256)]

EndRecord(type, address) ==
  Record(CASE type = 1 -> 9 [] type = 2 -> 8 [] OTHER -> 7, address, <<>>)

Piece(bytes, k) == SubSeq(bytes, 16 * k - 15, IF 16 * k <= Len(bytes) THEN 16 * k ELSE Len(bytes))

(* The characters of a record in the file: "S", the type, two of each byte, *)
(* the end of the line.                                                     *)
Letters(records) == SumOf([k \in DOMAIN records |-> 2 * Len(records[k].bytes) + 3])

(* ferror() behind a record sees what did not get out of the buffer by      *)
(* then; fclose() writes the rest and is not asked.  stored: the characters *)
(* that are in the file.                                                    *)
Records(type, start, bytes, room, buffer) ==
  LET n == (Len(bytes) + 15) \div 16
      all == [k \in 1..n |-> Record(type, start + 16 * (k - 1), Piece(bytes, k))]
               \o <<EndRecord(type, start + Len(bytes))>>
      fails == {k \in 1..(n + 1) : Emitted(Letters(SubSeq(all, 1, k)), buffer) > room}
      given == SubSeq(all, 1, IF fails = {} THEN n + 1 ELSE CHOOSE k \in fails : \A j \in fails : k <= j)
  IN [exit |-> IF fails = {} THEN 0 ELSE 1, out |-> given, stored |-> Stored(Letters(given), room)]

(* job: the value of -s or 1, that of -a or 0, whether the values are hex   *)
(* numbers, how many paths, whether the target is there, and -r.            *)
Binex(job) ==
  IF ~ job.hex \/ job.type \notin 1..3 \/ job.paths \notin 1..2 \/ (job.paths = 2 /\ job.exists /\ ~ job.rewrite)
  THEN [exit |-> 1, out |-> <<>>, stored |-> 0]
  ELSE Records(job.type, job.address, job.bytes, job.room, job.buffer)

-----------------------------------------------------------------------------
(* attr: a text of attributes is read from left to right; "-" turns on what *)
(* follows, "n" turns it off; p is set between a "p" and the letter that    *)
(* belongs to it.                                                           *)
Attribute == {"d", "s", "pe", "pw", "pr", "e", "w", "r"}
Public(c) == CASE c = "e" -> "pe" [] c = "w" -> "pw" [] OTHER -> "pr"

Switch(s, x) == [s EXCEPT !.mode = IF s.enable THEN @ \cup {x} ELSE @ \ {x}, !.p = FALSE]

Letter(s, c) ==
  CASE s.bad -> s
    [] ~ s.bad /\ s.p -> IF c \in {"e", "w", "r"} THEN Switch(s, Public(c)) ELSE [s EXCEPT !.bad = TRUE]
    [] ~ s.bad /\ ~ s.p /\ c = "-" -> [s EXCEPT !.enable = TRUE]
    [] ~ s.bad /\ ~ s.p /\ c = "n" -> [s EXCEPT !.enable = FALSE]
    [] ~ s.bad /\ ~ s.p /\ c = "p" -> [s EXCEPT !.p = TRUE]
    [] ~ s.bad /\ ~ s.p /\ c \in {"d", "s", "e", "w", "r"} -> Switch(s, c)
    [] OTHER -> [s EXCEPT !.bad = TRUE]

ApplyPermissions(mode, text) ==
  LET end == FoldLeft(Letter, [mode |-> mode, enable |-> TRUE, p |-> FALSE, bad |-> FALSE], text)
  IN [mode |-> end.mode, bad |-> end.bad \/ end.p]

(* disk: the modes of the files; fails: chmod() refuses.  What is printed   *)
(* is the mode that was to be set.                                          *)
ProcessPath(s, path, text, disk, fails) ==
  IF path \notin DOMAIN disk THEN [s EXCEPT !.exit = 1]
  ELSE LET new == ApplyPermissions(disk[path], text)
       IN IF text # <<>> /\ (new.bad \/ fails) THEN [s EXCEPT !.exit = 1]
          ELSE [s EXCEPT !.disk = [disk EXCEPT ![path] = new.mode],
                         !.out = IF "a" \in s.opts THEN @ ELSE Append(@, new.mode)]

(* An argument is a word, a sequence of characters; one that begins with a  *)
(* "-" and is not an option is a text of attributes, but only behind a path. *)
AttrOption == {<<"-", o>> : o \in {"?", "q", "a", "x", "z"}}

AttrArgument(s, a) ==
  CASE s.exit # 2 -> s
    [] s.exit = 2 /\ a = <<"-", "?">> -> [s EXCEPT !.exit = 0]
    [] s.exit = 2 /\ a \in AttrOption \ {<<"-", "?">>} -> [s EXCEPT !.opts = @ \cup {a[2]}]
    [] s.exit = 2 /\ Head(a) = "-" /\ a \notin AttrOption ->
         IF s.path # <<>> /\ s.text = <<>> THEN [s EXCEPT !.text = a] ELSE [s EXCEPT !.exit = 1]
    [] OTHER -> IF s.path = <<>> THEN [s EXCEPT !.path = a]
                ELSE IF s.text = <<>> THEN [s EXCEPT !.text = a]
                ELSE [s EXCEPT !.exit = 1]

(* With a list attributes are shown and never changed. *)
Attr(job) ==
  LET s == FoldLeft(AttrArgument, [exit |-> 2, opts |-> {}, path |-> <<>>, text |-> <<>>,
                                   disk |-> job.disk, out |-> <<>>], job.args)
      listed == FoldLeft(LAMBDA t, n : ProcessPath(t, n, <<>>, t.disk, job.fails), s, job.list)
      one == ProcessPath(s, s.path, s.text, s.disk, job.fails)
      end == IF s.exit # 2 THEN s ELSE IF "z" \in s.opts THEN listed
             ELSE IF s.path # <<>> THEN one ELSE [s EXCEPT !.exit = 1]
  IN [exit |-> IF end.exit = 2 THEN 0 ELSE end.exit, disk |-> end.disk, out |-> end.out]

-----------------------------------------------------------------------------
(* fixmod.  An option is "-u", or -u with a letter "r", "e", "p" or "s" and *)
(* a text of hex digits 0 to 15, Equals and Other characters.  value() skips *)
(* two characters of "-ue=5", not three: what is read as the number begins  *)
(* with the letter, and only "e" is a hex digit.                            *)
Equals == 16
Other == 17
Value(a) == <<IF a.letter = "e" THEN 14 ELSE Other>> \o a.text

IsHex(text) == \A i \in DOMAIN text : text[i] \in 0..15

Number(text) == FoldLeft(LAMBDA n, d : (16 * n + d) % 65536, 0, text)

(* A module: good when the sync word and the size in its header are right   *)
(* and the file holds it all; sealed when parity and CRC are.               *)
Edited(m, s) ==
  [good |-> m.good,
   sealed |-> m.sealed \/ s.update \/ s.edition # {},
   edition |-> IF s.edition = {} THEN m.edition ELSE CHOOSE n \in s.edition : TRUE]

(* What may fail with a module, and whether its header was in the file by   *)
(* then: malloc(), _os_setcrc(), fwrite(), or fflush(), which is not asked. *)
Fault == [at: {"nothing", "memory", "crc", "write", "flush"}, header: BOOLEAN]

(* The file written over in place, or the first part of it only: a new      *)
(* header and the old CRC.                                                  *)
Written(m, s, fault) ==
  LET new == Edited(m, s)
      torn == [new EXCEPT !.sealed = m.sealed /\ new.edition = m.edition]
  IN IF fault.at \notin {"write", "flush"} THEN new
     ELSE IF fault.header THEN torn
     ELSE m

Asking(s) == s.update \/ s.edition # {}

(* Nothing is written. *)
Refused(s, name) ==
  \/ name \notin DOMAIN s.disk \/ ~ s.disk[name].good
  \/ s.faults[name].at = "memory"
  \/ Asking(s) /\ s.faults[name].at = "crc"

Failing(s, name) == Refused(s, name) \/ (Asking(s) /\ s.faults[name].at = "write")

EditOne(s, name) ==
  [s EXCEPT !.edition = {},
            !.status = IF Failing(s, name) THEN 1 ELSE @,
            !.disk = IF Refused(s, name) THEN s.disk
                     ELSE [s.disk EXCEPT ![name] = Written(s.disk[name], s, s.faults[name])],
            !.out = IF Asking(s) /\ ~ Failing(s, name) THEN Append(@, name) ELSE @]

FixmodArgument(s, a) ==
  CASE s.exit # 2 -> s
    [] s.exit = 2 /\ a.o = "-?" -> [s EXCEPT !.exit = 0]
    [] s.exit = 2 /\ a.o = "-u" -> [s EXCEPT !.update = TRUE]
    [] s.exit = 2 /\ a.o = "-u?" ->
         IF ~ IsHex(Value(a)) THEN [s EXCEPT !.exit = 1]
         ELSE [s EXCEPT !.edition = {Number(Value(a))}]
    [] s.exit = 2 /\ a.o = "word" -> EditOne([s EXCEPT !.names = @ + 1], a.name)
    [] OTHER -> [s EXCEPT !.exit = 1]

Fixmod(job) ==
  LET s == FoldLeft(FixmodArgument, [exit |-> 2, update |-> FALSE, edition |-> {}, names |-> 0, status |-> 0,
                                     disk |-> job.disk, faults |-> job.faults, out |-> <<>>], job.args)
  IN [exit |-> IF s.exit # 2 THEN s.exit ELSE IF s.names = 0 THEN 1 ELSE s.status,
      disk |-> s.disk, out |-> s.out]

-----------------------------------------------------------------------------
(* Exclusive or of two numbers below 2^24, four bits at a time.  The one of *)
(* Bitwise is recursive, and no module above this one could hold a theorem. *)
Xor4 ==
  [a, b \in 0..15 |-> LET bit(w) == w * ((a \div w + b \div w) % 2) IN bit(1) + bit(2) + bit(4) + bit(8)]

Xor(x, y) ==
  LET digit(w) == w * Xor4[(x \div w) % 16, (y \div w) % 16]
  IN IF x = y THEN 0
     ELSE digit(1) + digit(16) + digit(256) + digit(4096) + digit(65536) + digit(1048576)

(* os9_crc() of mbr: three bytes, the checksum in work and then its         *)
(* complement.                                                              *)
CrcByte(crc, byte) ==
  LET a == Xor(byte, crc[1])
      b == Xor(a, 2 * a)
      c == Xor(b, 4 * b)
      parity == Xor(c, 16 * c) % 256
      odd == parity >= 128
  IN <<Xor(crc[2], IF odd THEN 128 ELSE 0),
       Xor(Xor(crc[3], a \div 128), a \div 4),
       Xor(Xor((2 * a) % 256, (64 * a) % 256), IF odd THEN 33 ELSE 0)>>

(* Mutant of Os9Crc: not complemented. *)
Os9CrcPlain(bytes) == FoldLeft(CrcByte, <<255, 255, 255>>, bytes)

Os9Crc(bytes) ==
  LET crc == FoldLeft(CrcByte, <<255, 255, 255>>, bytes)
  IN [i \in 1..3 |-> 255 - crc[i]]

(* repair_module(): the parity of the header, in the two bytes behind it,   *)
(* and the CRC, in the last three.                                            *)
RepairModule(module) ==
  LET word(i) == 256 * module[2 * i - 1] + module[2 * i]
      parity == 65535 - FoldLeft(LAMBDA p, i : Xor(p, word(i)), 0, [i \in 1..(ParityAt \div 2) |-> i])
      headed == [module EXCEPT ![ParityAt + 1] = parity \div 256, ![ParityAt + 2] = parity % 256]
      crc == Os9Crc(SubSeq(headed, 1, Len(module) - 3))
  IN SubSeq(headed, 1, Len(module) - 3) \o crc
=============================================================================

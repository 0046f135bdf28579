# Verification of the Q9 tools

Q9-Tools is a collection of about 75 small C programs for OS-9/68K and its Q9
successor: replacements for the system's file, module and information commands
(`src/System`), clients and utilities for its network stack (`src/Network`),
and two source converters (`src/Language`). Every program is one process with
one C file; none has a thread or a signal handler. What makes them hard is
outside of them: a medium that fails half way, a user who kills them, another
process that works on the same file, module or connection, and a network.

This directory holds TLA+ models of the programs in which that matters, TLC
runs on small instances, and proofs checked by TLAPS. Run `tlc -config X.cfg M`
and `tlapm M.tla` in this directory.

## 1. Inventory

| Part | State it keeps | Operations | What is hard |
|---|---|---|---|
| `mv` | two files, the output buffer, the line it works on, a sticky status | rename, else copy, close, compare, remove; a list of sources | faults and kills between the steps, a source that grows, two names for one file |
| `copy` | the same, without rename and remove | copy, optional comparison (`-v`), stop at the first error (`-a`) | unchecked `fclose`, an old target emptied before the copy can fail, two names for one file |
| `tftp` | block counter, local file | request, receive DATA and acknowledge, receive ACK and send | loss, repetition and delay of datagrams, 16-bit numbers of an int counter, no timer |
| `tcpsend`, `tcprecv` | one connection, a partly sent buffer | connect/accept, send/recv loops | partial sends, a dead sender looks like the end of the file |
| `load`, `link`, `unlink`, `iniz`, `deiniz` | the kernel's link counts | one or two kernel calls per name | several commands between one another's calls, links never given back |
| `save`, `dump -m` | a link, a file | link, look for the file, (delete,) create, write, close | look, delete and create are separate steps beside other saves, an unchecked `fclose` |
| `ping`, `beam`, `msend`, `mrecv`, `bootptest`, `bootpwait`, `telnet` | sequence number, counters | one datagram or line each way, repeated | replies that are late, strange or missing |
| `mbr` | a partition table, a descriptor module | recognise GPT, MBR, FAT, RBF; write a descriptor per partition | order of recognition, 32-bit offsets, old descriptors, a template that is an output |
| `qid`, `ident` | a file or module, the block of a directory, a copy of the module directory | recognise module, ROF, ELF, 6809 module; scan directories and memory | order of recognition, names read in pieces, files and modules that come and go during the scan |
| `dir` | the list of one directory, the chain of directories it is in | read, sort, print, descend | directories that change while they are read and walked |
| `makdir`, `touch`, `del`, `deldir` | the line it works on, a sticky status | look, create, ask, delete | look and create are two calls, answers and names on one input |
| `attr`, `fixmod`, `binex` | a mode, a module header, an address | apply a text of attributes, rewrite in place, convert | a later attribute overrides, options that cannot be given, 16- to 32-bit addresses |
| `grep`, `cmp`, `qsort`, `count`, `tr`, `tee` | a line, a buffer, a few counters | stream to stream | lines longer than the buffer, limits (16 outputs, 2048 lines, 64 patterns), files of different length |
| `pr`, `list`, `what`, `chown`, `rename`, `dcheck` | next to none | one loop or one call | - |
| RPC tools, `route`, `routectl`, `netstat`, `ifconfig`, ..., `procs`, `mdir`, `free`, `devs`, ... | none | one query and its printout | nothing that a model would tell better than the code |
| `iso2kr`, `kr2iso` | one temporary file with a fixed name | format, rewrite | two runs at once share the file |

The programs meet in three places: the file system (`mv`, `copy`, `save` and
all others), the kernel's module directory and device table (`ModuleDir`), and
the network (`tcpsend` with `tcprecv`; `tftp` with a foreign server).

What makes each part correct:

* `mv`: a file is never lost, is removed only when its target is whole, the
  status says what happened.
* `copy`: a source is never touched, an old target only given up for a copy
  that can begin, a status of 0 means a whole copy.
* `tftp`, TCP: what is stored is the beginning of what was sent, in order and
  once; success means all of it; nobody waits for what nobody will send.
* link counts: no link is lost or given back twice; `unlink` gives back one of
  those that were there before; what is in use stays.
* `mbr`: a descriptor describes the partition it is named after; nothing else
  in the directory changes.
* `save`: an existing file is not touched without `-r`; "saved" means written,
  as far as the program looks.
* `qid`, `dir`: what was there all the time is reported once, whatever comes
  and goes around it; what is printed of memory was there; a format is recognised
  by its own mark only.
* `makdir`, `del`: 0 means that the directories are there; nothing goes without
  a yes.
* filters and converters: the result does not depend on how the input was cut
  into lines, buffers and blocks; the status says what failed.

`PROJECT.json` lists every part, modelled or not, and every hazard with its line.

## 2. Modules

| Module | Models | Source |
|---|---|---|
| `Storage` | directory entries, names and their aliases, buffered output, the faults of a medium. All of it is outside the repository, modelled from how the tools use it | - |
| `Mv` | `copy_then_remove`, `move_list`, `main` | `System/mv/c/mv.c` |
| `AtomicMove` | the promise of moving files: one step per file | mv.c:13-16 |
| `MvProofs` | theorems about `Mv` | |
| `Copy` | `one`, `list_copy`, `main` | `System/copy/c/copy.c` |
| `CopyProofs` | theorems about `Copy` | |
| `Tftp` | `transfer`, `word`, and an RFC 1350 server (external) | `Network/tftp/c/tftp.c` |
| `TftpProofs` | theorems about `Tftp` | |
| `ModuleDir` | `link_one`, `unlink_one`, `load_one`, `one` of `save`, `iniz` and `deiniz`, `save_exec`, the link of `dump -m` | `System/{link,unlink,load,save,iniz,deiniz,dump}` |
| `ModuleDirProofs` | theorems about `ModuleDir` | |
| `TcpFile` | `main` of `tcpsend` and `tcprecv` | `Network/{tcpsend,tcprecv}` |
| `TcpFileProofs` | theorems about `TcpFile` | |
| `Mbr` | `main`, `make_descriptor` and the `looks_like_*` functions | `System/mbr/src/mbr.c` |
| `MbrProofs` | theorems about `Mbr` | |
| `Directory` | a tree of directories whose entries have slots (external), and `makdir`, `del`, `deldir`, `touch` as processes on it | `System/{makdir,del,deldir,touch}` |
| `Identify` | `identify*` of `qid` and of `ident`, as functions of a file's fields | `System/{qid,ident}` |
| `Scan` | extends `Directory` and `Identify`: `scan_directory`, `scan_memory` and `main` of `qid`, `list_directory` and `main` of `dir` | `System/{qid,dir}` |
| `ScanProofs` | theorems about `Directory` and `Scan` | |
| `Stdio` | the output streams of the C library, as `tee` and `binex` use them (external) | - |
| `Text` | `grep`, `cmp`, `qsort`, `count`, `tr`, `tee`, and `wildmatch` of `qid` as functions | `System/{grep,cmp,qsort,count,tr,tee,qid}` |
| `Code` | `binex`, `attr`, `fixmod`, and the checksums of `mbr` as functions | `System/{binex,attr,fixmod,mbr}` |
| `Tools` | runs a function of `Text`, `Code` or `Identify` on a command line; the reference definitions | |
| `ToolsProofs` | theorems about `Tools` | |
| `Transfer` | the promise of carrying one file over a network | tftp.c, tcpsend.c, tcprecv.c |
| `MC...` | instances for TLC | |

**Files.** A file is a sequence of units, and a unit is what one `fread` returns;
one step of a model is one turn of a copy or compare loop. `fwrite` puts units
into `obuf`, from where `Flush` moves them to the disk one by one at any time
until `fclose`; so a kill loses any tail of what was written. `Real` maps the
spelling of a directory to the directory, so that two names can reach one
entry. `Faults` names the calls that may fail in an instance. `"corrupt"`
lets the medium store something else than it was given, which is the fault a
comparison after the copy is for.

**Mv and Copy.** `pc` names the place in the code: `rename`, `open`, `copy`,
`close`, `check` (reopening), `verify`, `remove`. `cur` is the line of the list
(an operand is a list of one line), `pos` the unit the loop takes next. Every
`return` of the inner function is `Finish(s)`, which goes to the next line as
the list loop does. `orig` is a history variable. `OtherProgram` appends to a
source; `Crash` can happen anywhere. Lines of 256 characters, blank lines and
option letters are left out: options are parsed before anything happens.

**Tftp.** A file is its sequence of blocks, of which only the last is short.
`block` is the client's int, `Field` the 16 bits of a packet. `toServer` and
`toClient` are sets from which receiving takes nothing out: a datagram can
arrive late, twice and out of order until `Lose` removes it. `lossy` says
whether the network of a behaviour loses anything, so that one run can ask for
safety on every network and for progress on one that delivers. The client has
no timer, and accepts packets from any sender; the model has one server.
`recvfrom` may fail or hand over fewer than four bytes at any time (`ReceiveFails`),
which ends the transfer with status 1.

**ModuleDir.** Each process runs up to a bounded number of commands, and each
kernel call is a step, which may fail where `Faults` allows it. `kept` counts, as
history, the links left behind, those that `unlink` or `deiniz` failed to give back
included. A file has two pieces: what `fwrite` has written when it returns, and what
is left to `fclose`; a module in `Small` fits into the buffer and has all of it left.
`save -x` writes both with one `_os_write`. `writers` holds the processes whose open
path leads to the file that has the name now: deleting the file (`save -x -r`) leads
them elsewhere. `made` is, as history, the save that created or emptied the file
last, what it said, and the objects being saved to the file since.

**TcpFile.** `stream` is what the connection holds, at most `Window` bytes.
`send` takes, and `recv` returns, any number of bytes. The socket of a killed
sender is closed in good order by the system. `connect` and `accept` may fail beside a
partner that waits; a connection that `accept` refused is broken for its sender.

**Mbr.** A sector is a record of the fields the program reads, a device a
function from its readable LSNs to sectors. `Reached` is the sector a 32-bit
offset leads to. `part` is the loop over the partition table, `job` the
arguments of `make_descriptor`, whose template is read (`Load`) before its
output is opened (`Create`) and written (`Write`); the template may be one of
the outputs. Cylinders and sector size go through the 16 bits of `put16be` (`Put16`).
`made` and `old` are history. Parity and CRC of the module are left to `Code`.

**Directory and Scan.** `tree` maps the paths that exist to their kind and slot;
a directory keeps its size when entries go, and a new entry takes the first free
slot, as RBF does. A kernel call is a step. `todo` holds what is left of one
name: its components for `makdir -p`, itself for the others. A line of input is
a path where it is read as a name and a row of answers where it is read as one,
one answer for each seven characters; `asked` is, as history, the line the last
question was answered by. The reader goes through `open`, `read` (a block), `entry` (one
entry of it), and `print` and `descend` (`dir`) or the memory part (`qid -m`); the
writers and `Swap`, the modules that come and go, may do anything between.

The copy `qid` takes of the module directory, at most `MaxModules` of its places
(256), is the set of places it has still to visit (`snapshot`); taking it may fail
(`ModulesFail`). Each piece of a module is an `F$CpyMem` and a step of its own: the
header (`Header`), the name by the offset in it (`Match`), and to print it the header
(`HeaderAgain`), the name (`NameAgain`) and the extension header (`Show`; the names
that one leads to are taken with it). `intact` says that nothing has changed at the
address since the header was read; once something has, what an old offset leads to is
any name or none (`Finds`). `stable`, `ever`, `broken` and `lost` are history: what
was there all the time, what has been at an address, whether a read failed or a name
found no memory (`NoMemory`), and whether the module directory could not be read.

**Identify, Text and Code** have no state. A loop of the program is a fold, and
the argument loop of each `main` is a fold over the command line, in which an
error ends everything (`Stop`). What the programs share, fgets() into a buffer
and lists of names, is stated once. Of a stream `tee` and `binex` write to, what
does not fill its buffer yet has not been tried (`Emitted`); `fclose` writes it
unasked (`Stored`). `fixmod` has for each module a fault of its own (`Fault`):
`malloc`, `_os_setcrc`, `fwrite` or `fflush`, the last two before or behind the header. `Tools` gives every function one step, so
that TLC can compare its result with a definition by positions and sets that
knows nothing of buffers. Characters are their codes, and files are their
characters; only `Identify` takes a file as a record of header fields. `wildmatch`
is a recursive function and `Xor` works by four bits, since no theorem can be about
a module that reaches a RECURSIVE operator or `Bitwise`. A digit of an address
is divided by its place (`Places`) where the program shifts.

The operators called "Mutant of X" in comments stand before X and are faulty
versions of it; `PROJECT.json` names, for every property of a passing run, the
one that breaks it.

## 3. Runs

| Run | Result | What it asks |
|---|---|---|
| `mv` | holds | `NothingLost`, `RemovedOnlyWhenSaved`, `EveryByteVerified`, `ExitStatusHonest`, `MovesAtomically` (refines `AtomicMove`), `Termination` |
| `mv_alias` | violated | `RemovedOnlyWhenSaved` where source and target are one file |
| `copy` | holds | `VerifiedCopiesWhole`, `OldTargetsKept`, `SourcesKept`, `Termination` |
| `tftp` | holds | `TftpTransfers` (refines `Transfer`), `PutWhole`, `Termination` |
| `moduledir` | holds | `CountExact`, `OldFilesKept`, `SaveHonest` |
| `moduledir_unlink` | violated | `Releases` |
| `tcp` | holds | `TcpTransfers` (refines `Transfer`), `BothEnd` |
| `mbr` | holds | `DescriptorsFit`, `OldKept`, `GptRefused`, `GeometryCovers` |
| `mbr_far` | violated | `DescriptorsAlwaysFit` without `Addressable` |
| `directory` | holds | `QidReportsStable`, `DirListsStable`, `MakdirHonest`, `DeletedOnlyOnYes`, `Termination` |
| `tools` | holds | `TextRight`, `WildRight`, `BlocksRight`, `CodeRight`, `RepairRight`, `FormatsRight` |
| `fixmod_edition` | violated | `EditionAsked` |

The runs of state machines also check `TypeOK`. `TftpTransfers` and `TcpTransfers`
say of each transfer that its copy grows by the next piece of the file and by
nothing else, and that what is reported is said once and stays true: "whole"
of a whole copy, "sent", by a put, of one that may lack its last block.
`BlocksRight` stands for `CmpRight`, `TeeRight` and `CountRight`, `CodeRight` for
`BinexRight`, `AttrRight` and `FixmodRight`, `TextRight` for `GrepRight`,
`QsortRight`, `TrRight` and `ListsRight`.

**What the violated runs show.**

* `mv_alias`: `mv dir/a ./dir/a`, or `mv -z` with the directory the files are
  in. If `rename` refuses, the fallback opens the target for writing, which
  empties the source; the empty file equals itself and is removed.
* `moduledir_unlink`: `_os_link` adds the link `_os_unlink` takes away. The
  count is as before, so `unlink` never removes a module; `deiniz` is the same
  with `attach` and `detach`.
* `mbr_far`: `read_sector` multiplies by 512 in 32 bits, so a partition that
  begins 2^23 sectors (4 GiB) behind another is judged by the other's boot
  sector, and its descriptor has the format of the one and the place of the
  other.
* `fixmod_edition`: `value` looks for the text of an option behind two characters
  of it, and `-ue` has three. The trace is `fixmod -ue5 one`, which writes edition
  $E5; `-ue=5` is refused, `-ue` writes $E; `-ur`, `-up` and `-us` are always refused.

Other weaknesses of the code, which the models contain and the properties step
around, without a run of their own:

* `mv` treats read errors in both files during the comparison as two ends of
  file (`OneReadFault` excludes it); `copy` onto another spelling of the source
  empties it.
* `copy` without `-v`, plain `save`, `tee`, `binex` and a `tftp` get do not look at
  `fclose`: the last buffer may be missing behind a status of 0 (copy.c:50,
  save.c:90, tee.c:37, binex.c:85). `SaveHonest`, `TeeRight` and `BinexRight` promise
  no more than that: only the last buffer, and whole small files are a last buffer.
* Two plain `save m` at once: both find no file, one creates and writes it, the
  other empties it (save.c:74-79). `OldFilesKept` is therefore asked of the plain form
  with `-r` only. Two saves of different modules to one name may leave a piece of
  each, and both say "saved": `SaveHonest` asks only that each piece is of one that
  was being saved. `save` and `dump -m` keep the link they take.
* `tftp put` leaves its loop when the short block has been sent: if that packet
  is lost no one sends it again, and the client has returned 0. A get of 65535
  blocks or more waits for ever, though safely. `fread` errors in `tftp put` and
  `tcpsend` shorten the file silently; `tcprecv` returns 0 when its sender was
  killed half way.
* `ident` takes a name only when it ends with a high bit within 63 bytes
  (ident.c:179-190); names that end with a zero byte, which `qid` knows
  (qid.c:118-124), are refused. `qid` reads names 40 bytes at a time and shows
  "?" for one nearer than that to the end of the file (qid.c:134), takes a read
  error for the end of a directory (qid.c:610), and refuses a ROF or ELF file
  shorter than the headers it tries first.
* `qid -m` reads a module in pieces: one that is replaced meanwhile may be printed
  with the header of one module and the name or the fields of another, and with
  status 0 (qid.c:384-389); modules beyond 256 are not looked at (qid.c:663).
* `dir -s` turns the order of the directory around (dir.c:68), forgets names
  without memory and returns 0 all the same (dir.c:58), and drops the errors of the directories below
  (dir.c:265).
* `del -p` offers "(y,n,a,q)" and knows y only; what an answer has beyond seven
  characters answers the next question (del.c:29-30).
* For standard input `grep -c` prints nothing and `grep -l` prints the lines
  (grep.c:100-101), where the usage promises a number and a name (grep.c:14-15);
  `GrepRight` asks nothing of the two there. `qsort`
  of empty files reads standard input (qsort.c:102); `tr` reads behind its second
  set when the first is longer by two or more, or with `-c` (tr.c:35).
* End records of `binex` have four address bytes whatever the type
  (binex.c:25), where S9 has two and S8 three; S1 addresses wrap at 64 KiB.
* `attr` reads a mode and writes it back in two calls (attr.c:94-101), and shows
  but never changes the files of a list. `fixmod` writes in place: a write that
  fails half way leaves a new header with the old CRC (fixmod.c:73), and behind an
  `fflush` that fails the status is 0 (fixmod.c:76).

**Bounds.** `mv` and `copy`: two directories with three spellings, two names,
files of at most two units over two contents, growing to three (`MaxLen`):
enough for a prefix that is right and a rest that is missing, wrong or too
much, for a file that grows after the copy and before the comparison ended, and
for a list whose second line follows a failed first. `tftp`: four block
numbers and files of one to five blocks, so that the counter passes `Wrap` and
a transfer also ends below it. `moduledir`: two processes and three commands,
since every hazard needs one command between two steps of another; one file for
all, a module larger and one smaller than the buffer, and a device. `tcp`: four
bytes, buffers of two, a connection of three, so that a buffer goes out in
parts and the connection fills up. `mbr`: devices of up to five sectors with
real LSNs and sizes, FAT volumes on both sides of both cluster limits, RBF
partitions on both sides of 65535 cylinders. `Word`, 2^32 in the program, is
2^30 here, since TLC counts to 2^31; 65535 cylinders are still below it, and
2^23 sectors become 2^21. `directory`: three names in directories of up to three
entries behind the dot, read in blocks of two, so that a directory has two
blocks, a free slot in the first and one in the second; two levels of
directories, so that `-r` has a depth to stop at; one reader and two writers with
a command each, or two writers, or one with a list and answers; three places in a
module directory of which `qid` has room for two, and two changes of memory, so that
a module is replaced between two reads of it and comes back before the third. 50 situations in all: each is a combination some line of the
programs is about. `tools`: lines of 8 characters
instead of 512, 3 lines instead of 2048, 2 patterns instead of 64, blocks of 3 and
a K of 1, and texts on both sides of each: for `grep` and `qsort` all texts of up
to three lines over three, for `cmp`, `tr` and `count` all texts of up to three or
four characters over two to four, for `tee` up to seven characters into outputs with
room for none to nine of them behind buffers of one to five, for `wildmatch` all patterns and names of up to
three characters; all attribute texts of up to three characters; S-record files of
0, 1, 16, 17 and 33 bytes at addresses up to the ends of 64 KiB and of 16 MiB, with
room for no record, one, two or all and buffers of one character, less than a record
or more than all; all
sizes and name places around the limits of `Identify`; up to three arguments of
`fixmod`, and two of them with every fault of a module; modules of 51 to 55 bytes for the checksums, whose reference is computed
with the polynomial and not with the steps of the program.

**Fairness.** Only steps that need no fault are obliged (`Working` in `Mv` and
`Copy`, the lists in `FairSpec` of `Tftp` and `TcpFile`): a program runs until
it ends, the C library writes at the latest in `fclose`, an RFC 1350 server
answers, a datagram that is not lost is received at last, and a TCP connection
moves bytes. No failure, kill, loss, refusal or other program is obliged to
happen, so no program owes its end to one; and each of them may happen at any
time. `Termination` of `tftp` is asked of networks without loss only, since the
client has no timer. In `directory` the reader and each writer go on, but no read
is obliged to fail and no module to move: `Termination` therefore says that a
`dir -r` ends in a tree that others are changing.

**Deadlock** is not checked: all these programs end.

## 4. Proofs

`MvProofs` proves, for all constants that satisfy the named assumptions of
`Storage` and `Mv`:

* `TypeCorrect`: `Spec => []TypeOK`. The last conjunct, that both files exist
  wherever the program works on them, needs the induction: nothing but the
  program removes a file.
* `MoveLosesNothing`, `EveryByteIsVerified` and `ExitStatusIsHonest`: under
  `OneReadFault`.

None of them is inductive. The strengthening is `MvInv`: lines to come
still have their contents at the source (`Waiting`), lines done have them at one
of the two places (`Settled`), and for the current line the lengths of disk,
buffer and source are tied to `pos` (`CopyInv`), the target is as long as the
source was at its end (`ClosedInv`, `LongEnough`), and the part compared so far
is equal (`VerifyInv`). At `remove` the target is therefore as long as the
source was at the start and equal to it up to there. That is why the source may
grow, and why one read error is harmless and two are not. All of it is
conditioned on `Independent`: no line names what another line writes. For the
exit status `StatusInv` adds that a source disappears only by `rename` or
`remove`, so that a line has failed when its source is still there or never was.

`CopyProofs` rests on one lemma about the volume (`DiskStep`): a step leaves it
alone, cuts the target of the current line, or appends a unit to that target or
to a file that grows. From it follow the types (`CopyInvariant`), that no source
is shortened as long as no target is a source under another name (`Apart`,
`SourcesAreKept`), and that targets of lines without a source or after an `-a`
stay (`OldTargetsAreKept`, from `TargetInv`). `VerifiedIsWhole` says that `copy
-v` returns 0 only behind whole copies. It needs no word about `fclose` or the
medium: `WorkInv` says that the target is never longer than the source and equal
to it as far as the comparison came, so when the comparison meets the end of the
source the two are equal. What it does need is `ReadsSource`: a read error of
the source looks like its end.

`TftpProofs` proves, for every `Wrap`, every set of files and every set of
faults, that `TypeOK` and `TftpInv` hold in every state (`TftpInvariant`), and
from them that a get writes a prefix of the server's file (`GetKeepsOrder`) and
returns 0 only with all of it (`GetIsWhole`), and, as long as the local file can
be read, that the server stores a prefix of what a put sends
(`PutKeepsOrder`). The invariant says that each packet in flight carries the
block it was sent for (`GetData`, `GetAcks`, `PutInv`), that the server of a get
is not ahead of the client, and that neither gets beyond `Wrap`. Below `Wrap`
no two blocks share a number, and the number `Wrap` itself travels as 0, which
no side that compares with its whole counter takes: that is why the laps of a
long file are never confused. `PutIsWhole` adds, where nothing is lost, that
every block the client went past is still there to be received (`SentInv`): the
server, which has the first blocks, then lacks none when the last has arrived.

`ModuleDirProofs` proves for any finite set of processes and any number of
commands that a link count is what was there, plus what was left behind, plus
one for each call that holds the object between its two kernel calls
(`CountsAreExact`). That the count is a
natural number at all (`ModuleDirInvariant`) rests on it: a call gives back a
link only while it is counted. `SavesAreHonest` is proved of any mixture of saves, with
an invariant per file (`FileOK`): who has it open is saving one of the objects it is
made from (`WritersOK`), its pieces are of those or still missing (`PiecesOK`), and the
save that made it has all but what is in the buffer written when it comes to `fclose`
(`MakerOK`); a file that another save deletes or empties has a new `made`.
`OldFilesAreKept` is about single steps from there; it needs that every save without
`-r` is a `save -x` (`SavesCreate`), since the plain form looks and creates in two calls.

`TcpFileProofs` proves for every file, buffer and window that the output is a
prefix of the file (`BytesInOrder`), and all of it when both programs return 0
(`BothZeroIsWhole`). `TcpInv` is one equation, `Flow`: what is written, held,
in the connection and in the sender's buffer is, in this order, what has been
read from the file.

`MbrProofs` proves for every device, directory, pair of templates and `Word`
that what is written fits the device (`DescriptorsRight`), that a GPT device
changes nothing (`GptIsRefused`), and that the cylinders of a descriptor hold
exactly the partition (`GeometryIsRight`). `MbrInv` says that the arguments of
the call are those of the entry the loop is at (`JobInv`), and that an entry has
at most one descriptor, once its turn is over (`MadeInv`): without that, the
next call could overwrite what was right. `OldDescriptorsKept` follows how files
come to differ from what they were (`ChangeInv`): a template may be an output of
an earlier entry, but then it has the file manager its own template had.

`Directory` and `Scan` are one state machine, so `ScanProofs` is about the steps
of `Scan`, which are those of the reader and those of the commands. Its
induction over numbers (`LeastNatural`: a set of numbers that is not empty has a
least one) comes from finite sets, not from the library's induction rules.
`DirectoryTypes`, for any tree that is well formed at the start and any number
of commands, is `TreeOK` (each path but the root is in a directory, in a slot of
its own behind the dot: `CreatedTree`, `RemovedTree`) and `CommandsOK` (where a
command is says which command it is, and that it has a name to work on).

* `DeletesOnlyOnYes`: `Asking` says that what is left of the input is its end,
  but for a first line that may be the rest of an answer, which names nothing
  (`Remains`, `LeftOver`); that at the question the name is an argument, from the
  file, or the line just taken (`NameAt`); and that the deletion is behind a line
  with a yes (`Consented`). Together they keep names and answers in step although
  both come from one input.
* `MakdirIsHonest`: `Building` says that all names taken so far are directories
  but for the one the command is at, as long as it has not failed. Others may
  make the same component between `stat` and `mkdir`; only deletions undo what is
  counted on (`DirsStay`), and a command that deletes is what the property
  excludes.

It proves for all trees, block sizes, depths, operands and modules that
the reader is well typed (`ScanTypes`, from `ReaderOK`), and what it shows.

* `QidIsExact`: a file that stays is, in the place the scan is at, either behind
  the block, in it, or reported, and never two of these (`Stage`, `Reading`);
  a module that stays is, if there is room for it in the copy and the copy could be
  taken, either still in it or reported (`Watching`); the header read last was at its
  address, and where nothing changed the names read so far are its own (`Inspected`),
  so what was printed was there (`ReportsOK`). A slot that stays keeps its number, since a
  directory never shrinks (`StableKept`).
* `DirIsComplete` has five parts. `NamesOK`: the names are sorted, since
  `add_name` inserts each behind those not greater. `Collected`: the three places
  of `Stage` again, for the list of names. `OnItsWay`: the chain of frames is the
  way from the operand to the directory that is listed, one name each. `AtMostOnce`:
  a name that stays is left in its frame at most once, and no longer when `dir` is
  below it. `Tally`: a directory is listed as often as there are operands that lead
  to it and are done with it, that is, for which it is no longer `Pending`, below
  the directory that is listed or below a name left in a frame. Behind all of it is
  `ParentsStay`: the directories on the way to what stays have stayed too, so that
  none of the tests of `-r` for a directory can fail on that way.

`TcpImplementsTransfer` and `TftpImplementsTransfer` prove the two refinements of
`Transfer`, the second for files that can be read (`ReadsFile`). Every step of
`TcpFile` writes the next byte or leaves the output alone, by `Flow`; both results
are 0 at once only at the end (`ResultStep`). For `Tftp` `AckInv` is added: an ACK in
flight is for a block the server has, so a put that returns 0, which does not
wait for the ACK of its last block (tftp.c:15), leaves at most that block behind.

`ToolsProofs` is about functions, not about steps: `Outcome` is the invariant that
ties `out` to the function of the command that ran, and the rest shows what each
function computes, for command lines and files of any length that satisfy
`ToolsAssumption`. That assumption says of what kind the arguments and files are,
that the sizes of `cmp` and `count` fit a `long` and the addresses of `binex` 32
bits, that no path is given to `tee` twice, and that no argument of `attr` is empty.

A loop is a `FoldLeft`, and what a fold computes is an induction over data. It is
done without the induction rules of the library: a set of numbers that holds 0,
and with each number the next, holds all (`CountingUp`, from `LeastNatural`), and
such a set is stated for each loop. `FoldLeft` is defined by a choice of a
function that satisfies an equation; `FoldExists` shows that there is one, and
`FoldRuns` that each one goes through the sequence step by step. From there:

* `FormatsAgree` says of every file in `File` what `FormatsRight` asks (`Agree`), by
  cases on the attempt that decides: `HeaderSizes` says how long a file must be for
  all of them, and `MagicDecides` that the magic then does. `FormatsAreRight` is the
  same of `Tools`.
* `WildmatchIsRight`: `Laid` says that the rest of a pattern can be laid along the
  rest of a name, and `LaidAtEnd`, `LaidChar` and `LaidStars` that it then satisfies
  the equation of `wildmatch`, case by case. The induction goes from the end of the
  pattern to its start (`WildmatchIs`), and passes over a run of stars at once, as
  the program does (`BehindStars`).
* `BlocksAreRight`: for `cmp`, what was seen of the files is what a look at their
  first bytes sees, at the end of every block (`CompareSees`), for every `-b`; for
  `tee`, each stream was given the first bytes of the input whatever became of the
  others, and the status is 1 as soon as one of them could not write what filled its
  buffers (`TeeComes`), for every size of a block, room and buffer and up to 16 outputs;
  what that says of the files in the end is `TeeSays`; for `count`, the counters are those of the characters so far
  (`CharCounted`), and options before the name are taken from left to right
  (`CountReads`).
* `CodeIsRight`: `binex` cuts a file at every 16 bytes (`EndOf`, `PieceIs`), a record
  gives back its address and its piece and has the right sum (`RecordIs`,
  `AddressRead`), and the lengths of the pieces in front of one add up to its place
  (`PiecesSum`), for any room for the output. Where `ferror` sees the first
  failure is a first of a set of numbers (`FirstOf`), and `RoomEnds` says what is in
  the file there. `attr` has, at every character of the
  text, the mode that the mentions so far ask for, and knows whether they all had
  a meaning (`LetterFold`). `fixmod` has, at every argument, changed only good
  modules it was given, left unsealed only those whose write failed, and kept every
  error but that of `fflush` in its status (`FixStepIs`, `FixArgsFold`).

`RemovesOnlyWhatIsSaved` and `MovesAreAtomic` add to `MvProofs` a second
invariant, `AtomicInv`. Both are about command lines whose lines do not get in
one another's way, or that name one file twice, which the program refuses
(`Separate`; what else can happen is the subject of `mv_alias`). The mapping to
`AtomicMove` sees of a line where its file is (`HomeOf`) and its contents there
(`TextOf`), and each step is one of three things to it: it moves one line
(`MoveStep`: a `rename`, or a `remove` behind the comparison), appends to a source
(`GrowStep`), or changes nothing that is seen (`QuietStep`: all copying, comparing
and failing, and the kill). That a `MoveStep` carries the whole file is what
`MvInv` has at `remove`; that the last step maps to the result of the abstract
move is `StatusInv`.

Checked by TLC only:

* liveness (`Termination` of four runs, `BothEnd`): ENABLED is out of the reach of
  the provers;
* `TextRight`: what `grep`, `qsort`, `tr` and the lists must print is stated with
  `SelectSeq` and with sorted sequences (`SetToSortSeq`), which take an operator and
  of which the library has no theorems; only for `FoldLeft` are they supplied here;
* `RepairRight`: that the byte by byte steps of `os9_crc` are the division by the
  polynomial is a fact about exclusive or over 24 bits, which no backend decides.

Two hazards of tftp.c:15 have no property: when the last DATA of a put or an ACK of a
get is lost, nobody repeats it, so a put leaves nothing behind (`PutWhole`), and a
get is sure to end, only where nothing is lost.

## 5. Plan

Done: the file tools that can lose data, the transfers, the link counts, `mbr`,
the directory commands, identification, the filters and converters; and the
theorems on all safety properties of the state machines, and on identification,
`wildmatch`, `cmp`, `tee`, `count`, `binex`, `attr` and `fixmod`. To come:

1. `Ping`: count, sequence and checksum of `ping`, the sequence types of
   `beam`, the timeouts of `bootptest`; replies that are late, strange or lost.
2. The compression of `dump`, the pages of `pr`, the day of `date`.

## 6. Not modelled

Programs that make one system query and print it, the RPC wrappers, the text of
messages and columns, and the 128- and 256-byte buffers of path names: a model
would repeat the code. `ping`, `beam` and the other datagram tools: a lock step
with one timeout each, next on the plan. `iso2kr` and `kr2iso` run a foreign
formatter over one temporary file with a fixed name, so that two runs at once
mix their texts; what the formatter does is outside of the repository.

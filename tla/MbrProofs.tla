----------------------------- MODULE MbrProofs ------------------------------
(***************************************************************************)
(* Theorems about Mbr, for every device, every pair of templates, every     *)
(* directory and every word size from four sectors up.                      *)
(***************************************************************************)
EXTENDS Mbr, SequenceTheorems, TLAPS

(* A sector that 32-bit offsets tell apart is the one that is read. *)
LEMMA NearSectors ==
  ASSUME NEW lsn \in Nat, lsn < Word \div SectorSize
  PROVE  Reached(lsn) = lsn
<1> DEFINE M == Word \div SectorSize
<1>1. M \in Nat /\ M > 0
  BY MbrAssumption DEF SectorSize
<1> HIDE DEF M
<1>2. lsn % M = lsn
  <2>1. lsn < M
    BY DEF M
  <2> QED
    BY <1>1, <2>1
<1> QED
  BY <1>2 DEF M, Reached

LEMMA FirstSectors ==
  /\ ReadSector(0) <=> 0 \in DOMAIN image
  /\ ReadSector(1) <=> 1 \in DOMAIN image
  /\ Sector(0) = image[0]
  /\ Sector(1) = image[1]
<1>1. 1 < Word \div SectorSize /\ 1 < Word \div (2 * SectorSize)
  BY MbrAssumption DEF SectorSize
<1>2. Reached(0) = 0 /\ Reached(1) = 1
  <2>1. 0 < Word \div SectorSize
    BY MbrAssumption DEF SectorSize
  <2> QED
    BY <1>1, <2>1, NearSectors
<1>3. 0 < Word \div (2 * SectorSize)
  BY MbrAssumption DEF SectorSize
<1> QED
  BY <1>1, <1>2, <1>3 DEF ReadSector, Sector

(* Cylinders() is a number of cylinders.                                    *)
LEMMA CylindersNat == ASSUME NEW n \in Nat PROVE Cylinders(n) \in Nat
<1>1. n + CylinderSize - 1 \in Nat /\ Word \in Nat \ {0}
  BY MbrAssumption DEF CylinderSize, SectorSize
<1>2. PICK m \in Nat : m = (n + CylinderSize - 1) % Word
  BY <1>1
<1>3. m \div 16065 \in Nat
  BY <1>2
<1> QED
  BY <1>2, <1>3 DEF Cylinders, CylinderSize

(* Rounded up, the cylinders hold all the sectors and no more than needed. *)
LEMMA CylindersCover ==
  ASSUME NEW n \in Nat, n # 0, n + CylinderSize <= Word
  PROVE  /\ Cylinders(n) \in Nat
         /\ Cylinders(n) * CylinderSize >= n
         /\ (Cylinders(n) - 1) * CylinderSize < n
<1>1. n + CylinderSize - 1 \in Nat /\ n + CylinderSize - 1 < Word /\ Word \in Nat \ {0}
  BY MbrAssumption DEF CylinderSize
<1>2. (n + CylinderSize - 1) % Word = n + CylinderSize - 1
  <2> DEFINE k == n + CylinderSize - 1
  <2>1. k \in Nat /\ k < Word
    BY <1>1
  <2> HIDE DEF k
  <2>2. k % Word = k
    BY <2>1, <1>1
  <2> QED
    BY <2>2 DEF k
<1> DEFINE c == (n + CylinderSize - 1) \div CylinderSize
<1>3. c \in Nat /\ c # 0 /\ c * CylinderSize >= n /\ (c - 1) * CylinderSize < n
  BY DEF CylinderSize
<1>4. Cylinders(n) = c
  BY <1>2, <1>3 DEF Cylinders
<1> QED
  BY <1>3, <1>4

(* What the assumption says of the device and the templates. *)
LEMMA DeviceTyped ==
  ASSUME TypeOK
  PROVE  /\ DOMAIN image \subseteq Nat
         /\ \A lsn \in DOMAIN image : image[lsn] \in SectorRecord
         /\ args # <<>> => PcfTemplate \in FileNames /\ RbfTemplate \in FileNames
<1>1. args \in Seq(FileNames)
  BY MbrAssumption DEF TypeOK
<1>2. ASSUME args # <<>> PROVE PcfTemplate \in FileNames /\ RbfTemplate \in FileNames
  <2>1. Len(args) \in Nat /\ Len(args) # 0
    BY <1>1, <1>2, EmptySeq
  <2>2. args[1] \in FileNames /\ args[Len(args)] \in FileNames
    BY <1>1, <2>1, ElementOfSeq
  <2> QED
    BY <1>2, <2>2 DEF PcfTemplate, RbfTemplate, Last
<1> QED
  BY <1>2, MbrAssumption DEF TypeOK

LEMMA NamesDiffer ==
  /\ \A i \in 1..4 : Names[i] \in FileNames
  /\ \A i, j \in 1..4 : Names[i] = Names[j] => i = j
  BY MbrAssumption DEF Names

(* Past an entry, the loop is at the next one or the program has ended. *)
LEMMA GoesOn ==
  ASSUME 0 \in DOMAIN image, GoOn
  PROVE  \/ IsTable /\ pc' = "part" /\ part' = part + 1 /\ status' = status
         \/ ~ IsTable /\ pc' = "done" /\ part' = part /\ status' = 0
  BY FirstSectors DEF GoOn, Return, IsTable

-----------------------------------------------------------------------------
LEMMA AtStart == Init => TypeOK /\ MbrInv
<1> SUFFICES ASSUME Init PROVE TypeOK /\ MbrInv
  OBVIOUS
<1>1. TypeOK
  BY MbrAssumption DEF Init, TypeOK
<1>2. MbrInv
  BY DEF Init, MbrInv, GptInv, ReadInv, JobInv, MadeInv, SizeInv
<1> QED
  BY <1>1, <1>2

(* The call of make_descriptor() for a sector that was recognised. *)
LEMMA MakeTyped ==
  ASSUME TypeOK, args # <<>>, NEW name \in FileNames, NEW lsn \in Nat,
         NEW s \in SectorRecord, NEW m \in Nat, NEW n \in Nat, Make(name, lsn, s, m, n)
  PROVE  job' \in Job /\ pc' = "load" /\ status' = status
<1>1. PcfTemplate \in FileNames /\ RbfTemplate \in FileNames
  BY DeviceTyped
<1>2. s.bytes \in Nat /\ s.lsnsize \in Nat
  BY DEF SectorRecord
<1> QED
  BY <1>1, <1>2 DEF Make, Job

LEMMA TypeStep == TypeOK /\ MbrInv /\ [Next]_vars => TypeOK'
<1> SUFFICES ASSUME TypeOK, MbrInv, [Next]_vars PROVE TypeOK'
  OBVIOUS
<1>t. /\ image \in Images /\ args \in Calls /\ old \in Directories
      /\ files \in [FileNames -> Content] /\ part \in 1..5 /\ status \in {0, 1, 3, 4}
      /\ pc \in {"load", "create", "write"} => job \in Job
      /\ made \subseteq FileNames /\ \A n \in made : files[n] \in Descriptor
  BY DEF TypeOK
<1>z. /\ pc \in {"gpt", "table", "part", "load", "create", "write"} => 0 \in DOMAIN image
      /\ pc \in {"load", "create", "write"} => part \in 1..4 /\ job.name = Names[part]
  BY DEF MbrInv, ReadInv, JobInv
<1>1. CASE Start
  BY <1>1, <1>t DEF Start, Return, TypeOK, input
<1>2. CASE Gpt
  BY <1>2, <1>t DEF Gpt, Return, TypeOK, input
<1>3. CASE Table
  <2>1. UNCHANGED <<input, files, part, made>> /\ pc = "table"
    BY <1>3 DEF Table
  <2>2. \/ (pc' = "part" \/ (pc' = "done" /\ status' \in {0, 3})) /\ UNCHANGED job
           /\ (pc' = "part" => status' = status)
        \/ pc' = "load" /\ status' = status /\ job' \in Job
    <3>1. CASE LooksLikeMbr(Sector(0))
      BY <1>3, <3>1 DEF Table
    <3>2. CASE ~ LooksLikeMbr(Sector(0)) /\ ~ LooksLikeFat(Sector(0)) /\ ~ LooksLikeRbf(Sector(0))
      BY <1>3, <3>2 DEF Table, Return
    <3>3. CASE /\ ~ LooksLikeMbr(Sector(0))
               /\ LooksLikeFat(Sector(0)) \/ LooksLikeRbf(Sector(0))
      <4>1. CASE args = <<>>
        BY <1>3, <3>3, <4>1 DEF Table, Return
      <4>2. CASE args # <<>>
        <5>1. Sector(0) \in SectorRecord
          BY <2>1, <1>z, FirstSectors, DeviceTyped
        <5>2. Sector(0).total32 \in Nat /\ Sector(0).tot \in Nat
          BY <5>1 DEF SectorRecord
        <5>3. Make("d0", 0, Sector(0), Sector(0).total32, Sector(0).tot)
          BY <1>3, <3>3, <4>2 DEF Table
        <5>4. "d0" \in FileNames
          BY NamesDiffer DEF Names
        <5> QED
          BY <5>1, <5>2, <5>3, <5>4, <4>2, MakeTyped
      <4> QED
        BY <4>1, <4>2
    <3> QED
      BY <3>1, <3>2, <3>3
  <2> QED
    BY <2>1, <2>2, <1>t DEF TypeOK, input
<1>4. CASE Partition
  <2>1. UNCHANGED <<input, files, made>> /\ pc = "part" /\ part \in 1..4
    BY <1>4, <1>t DEF Partition
  <2> DEFINE p == Sector(0).table[part]
  <2>2. CASE GoOn /\ UNCHANGED job
    <3>1. \/ pc' = "part" /\ part' = part + 1 /\ status' = status
          \/ pc' = "done" /\ part' = part /\ status' = 0
      BY <2>1, <2>2, <1>z, GoesOn
    <3> QED
      BY <2>1, <2>2, <3>1, <1>t DEF TypeOK, input
  <2>3. CASE /\ args # <<>> /\ ReadSector(p.start) /\ UNCHANGED part
             /\ Make(Names[part], p.start, Sector(p.start), p.count, p.count)
    <3>1. p \in PartitionEntry
      <4>1. image[0] \in SectorRecord /\ p = image[0].table[part]
        BY <2>1, <1>z, FirstSectors, DeviceTyped
      <4>2. image[0].table \in [1..4 -> PartitionEntry]
        BY <4>1 DEF SectorRecord
      <4> QED
        BY <2>1, <4>1, <4>2
    <3>2. p.start \in Nat /\ p.count \in Nat
      BY <3>1 DEF PartitionEntry
    <3>3. Sector(p.start) \in SectorRecord
      BY <2>3, DeviceTyped DEF ReadSector, Sector
    <3>4. job' \in Job /\ pc' = "load" /\ status' = status
      BY <2>1, <2>3, <3>2, <3>3, NamesDiffer, MakeTyped
    <3> QED
      BY <2>1, <2>3, <3>4, <1>t DEF TypeOK, input
  <2> QED
    BY <1>4, <2>2, <2>3 DEF Partition
<1>5. CASE PartitionsDone
  BY <1>5, <1>t DEF PartitionsDone, Return, TypeOK, input
<1>6. CASE Load
  <2>1. UNCHANGED <<input, files, job, made>> /\ pc = "load"
    BY <1>6 DEF Load
  <2>2. \/ pc' = "create" /\ UNCHANGED <<part, status>>
        \/ pc' \in {"part", "done"} /\ part' \in {part, part + 1} /\ status' \in {status, 0}
    BY <1>6, <2>1, <1>z, GoesOn DEF Load
  <2> QED
    BY <2>1, <2>2, <1>t, <1>z DEF TypeOK, input
<1>7. CASE Create
  <2>1. UNCHANGED <<input, job, made>> /\ pc = "create"
    BY <1>7 DEF Create
  <2>2. CASE pc' = "write" /\ UNCHANGED <<part, status>>
             /\ files' = [files EXCEPT ![job.name] = Damaged]
    <3>1. job.name \in FileNames
      BY <2>1, <1>t DEF Job
    <3>2. job.name \notin made
      BY <2>1, <1>z DEF MbrInv, MadeInv
    <3>3. files' \in [FileNames -> Content] /\ files'[job.name] = Damaged
          /\ \A n \in made : files'[n] = files[n]
      BY <2>2, <3>1, <3>2, <1>t DEF Content
    <3> QED
      BY <2>1, <2>2, <3>3, <1>t DEF TypeOK, input
  <2>3. CASE GoOn /\ UNCHANGED files
    <3>1. pc' \in {"part", "done"} /\ part' \in {part, part + 1} /\ status' \in {status, 0}
      BY <2>1, <2>3, <1>z, GoesOn
    <3> QED
      BY <2>1, <2>3, <3>1, <1>t, <1>z DEF TypeOK, input
  <2> QED
    BY <1>7, <2>2, <2>3 DEF Create
<1>8. CASE Write
  <2>1. UNCHANGED <<input, job>> /\ pc = "write"
    BY <1>8 DEF Write
  <2>2. pc' \in {"part", "done"} /\ part' \in {part, part + 1} /\ status' \in {status, 0}
    BY <1>8, <2>1, <1>z, GoesOn DEF Write
  <2>3. files' \in [FileNames -> Content] /\ made' \subseteq FileNames
        /\ \A n \in made' : files'[n] \in Descriptor
    <3>1. CASE UNCHANGED <<files, made>>
      BY <3>1, <1>t
    <3>2. CASE ~ UNCHANGED <<files, made>>
      <4> DEFINE d == [fm |-> job.fm, name |-> job.name, lsn |-> job.lsn,
                       ssize |-> Put16(job.ssize),
                       cyl |-> Put16(IF job.fm = "pcf" THEN 0 ELSE Cylinders(job.sectors))]
      <4>1. files' = [files EXCEPT ![job.name] = d] /\ made' = made \cup {job.name}
        BY <1>8, <3>2 DEF Write
      <4>2. job \in Job
        BY <2>1, <1>t
      <4>3. job.name \in FileNames /\ job.sectors \in Nat
        BY <4>2 DEF Job
      <4>4. Cylinders(job.sectors) \in Nat
        BY <4>3, CylindersNat
      <4>5. d \in Descriptor
        <5>1. job.fm \in FileManagers /\ job.name \in STRING
          BY <4>2, <4>3, MbrAssumption DEF Job, FileManagers
        <5>2. job.lsn \in Nat /\ Put16(job.ssize) \in Nat
          BY <4>2 DEF Job, Put16
        <5>3. Put16(IF job.fm = "pcf" THEN 0 ELSE Cylinders(job.sectors)) \in Nat
          BY <4>4 DEF Put16
        <5> QED
          BY <5>1, <5>2, <5>3 DEF Descriptor
      <4> HIDE DEF d
      <4> QED
        BY <4>1, <4>3, <4>5, <1>t DEF Content
    <3> QED
      BY <3>1, <3>2
  <2> QED
    BY <2>1, <2>2, <2>3, <1>t, <1>z DEF TypeOK, input
<1>9. CASE Crash
  BY <1>9, <1>t DEF Crash, TypeOK, input
<1>10. CASE UNCHANGED vars
  BY <1>10 DEF vars, input, TypeOK
<1> QED
  BY <1>1, <1>2, <1>3, <1>4, <1>5, <1>6, <1>7, <1>8, <1>9, <1>10 DEF Next

-----------------------------------------------------------------------------
(* A GPT device never gets past the second step. *)
LEMMA GptStep == TypeOK /\ MbrInv /\ [Next]_vars => GptInv'
<1> SUFFICES ASSUME TypeOK, MbrInv, [Next]_vars,
                    {0, 1} \subseteq DOMAIN image', image'[1].efi
             PROVE  /\ files' = old'
                    /\ pc' \in {"start", "gpt", "done", "crashed"}
                    /\ pc' = "done" => status' \in {1, 4}
  BY DEF GptInv
<1>1. image' = image /\ old' = old
  BY DEF Next, vars, input, Start, Gpt, Table, Partition, PartitionsDone, Load, Create, Write,
         Crash
<1>2. /\ files = old /\ pc \in {"start", "gpt", "done", "crashed"}
      /\ pc = "done" => status \in {1, 4}
  BY <1>1 DEF MbrInv, GptInv
<1>3. ReadSector(0) /\ ReadSector(1) /\ Sector(1).efi
  BY <1>1, FirstSectors
<1> QED
  BY <1>1, <1>2, <1>3
     DEF Next, vars, input, Start, Gpt, Table, Partition, PartitionsDone, Load, Create, Write,
         Crash, Return

LEMMA ReadStep == TypeOK /\ MbrInv /\ [Next]_vars => ReadInv'
<1> SUFFICES ASSUME TypeOK, MbrInv, [Next]_vars PROVE ReadInv'
  OBVIOUS
<1>1. image' = image /\ (IsTable' <=> IsTable)
  BY DEF Next, vars, input, Start, Gpt, Table, Partition, PartitionsDone, Load, Create, Write,
         Crash, IsTable
<1>2. /\ pc \in {"gpt", "table", "part", "load", "create", "write"} => 0 \in DOMAIN image
      /\ pc = "part" => IsTable
      /\ pc \in {"start", "gpt", "table"} => part = 1
  BY DEF MbrInv, ReadInv
<1>3. ReadSector(0) <=> 0 \in DOMAIN image
  BY FirstSectors
<1>4. 0 \in DOMAIN image /\ GoOn => pc' = "done" \/ (pc' = "part" /\ IsTable)
  BY GoesOn
<1>5. pc = "table" /\ 0 \in DOMAIN image /\ Table /\ pc' = "part" => IsTable
  BY FirstSectors DEF Table, IsTable, Return, Make
<1> QED
  BY <1>1, <1>2, <1>3, <1>4, <1>5
     DEF ReadInv, Next, vars, input, Start, Gpt, Table, Partition, PartitionsDone, Load, Create,
         Write, Crash, Return, Make

(* What a call of make_descriptor() is given is what the table, or the      *)
(* device without one, says of the entry.                                   *)
JobFits(j, i) ==
  /\ i \in 1..4 /\ (~ IsTable => i = 1)
  /\ j.name = Names[i]
  /\ j.fm = "rbf" => j.sectors = Sectors(i) /\ Sectors(i) # 0
  /\ Addressable =>
       /\ j.lsn = StartOf(i) /\ j.fm = Kind(i)
       /\ j.ssize = IF j.fm = "pcf" THEN image[j.lsn].bytes ELSE image[j.lsn].lsnsize

LEMMA JobKept ==
  ASSUME pc' \in {"load", "create", "write"}, image' = image, JobFits(job', part')
  PROVE  JobInv'
  BY DEF JobInv, JobFits, Addressable, StartOf, Kind, Sectors, IsTable

LEMMA JobStep == TypeOK /\ MbrInv /\ [Next]_vars => JobInv'
<1> SUFFICES ASSUME TypeOK, MbrInv, [Next]_vars, pc' \in {"load", "create", "write"}
             PROVE  JobInv'
  BY DEF JobInv
<1>1. image' = image
  BY DEF Next, vars, input, Start, Gpt, Table, Partition, PartitionsDone, Load, Create, Write,
         Crash
<1>2. CASE Table
  <2>1. 0 \in DOMAIN image /\ part = 1 /\ part' = 1
    BY <1>2 DEF Table, MbrInv, ReadInv
  <2>2. /\ ~ LooksLikeMbr(image[0]) /\ (LooksLikeFat(image[0]) \/ LooksLikeRbf(image[0]))
        /\ Make("d0", 0, image[0], image[0].total32, image[0].tot)
    BY <1>2, FirstSectors DEF Table, Return
  <2>3. ~ IsTable
    BY <2>2 DEF IsTable
  <2>4. image[0].tot # 0 \/ LooksLikeFat(image[0])
    BY <2>2 DEF LooksLikeRbf
  <2>5. StartOf(1) = 0 /\ Sectors(1) = image[0].tot /\ Names[1] = "d0"
    BY <2>3 DEF StartOf, Sectors, Names
  <2>6. Kind(1) = IF LooksLikeFat(image[0]) THEN "pcf" ELSE "rbf"
    BY <2>1, <2>2, <2>3, <2>5 DEF Kind
  <2>7. /\ job'.name = "d0" /\ job'.lsn = 0
        /\ job'.fm = IF LooksLikeFat(image[0]) THEN "pcf" ELSE "rbf"
        /\ job'.fm = "rbf" => job'.sectors = image[0].tot
        /\ job'.ssize = IF job'.fm = "pcf" THEN image[0].bytes ELSE image[0].lsnsize
    BY <2>2 DEF Make
  <2>8. JobFits(job', 1)
    BY <2>3, <2>4, <2>5, <2>6, <2>7 DEF JobFits
  <2> QED
    BY <1>1, <2>1, <2>8, JobKept
<1>3. CASE Partition
  <2> DEFINE p == image[0].table[part]
  <2>1. 0 \in DOMAIN image /\ IsTable /\ part \in 1..4 /\ part' = part
    <3>1. 0 \in DOMAIN image /\ IsTable
      BY <1>3 DEF Partition, MbrInv, ReadInv
    <3>2. part \in 1..4
      BY <1>3 DEF Partition, TypeOK
    <3>3. ~ GoOn
      BY <3>1, GoesOn
    <3> QED
      BY <1>3, <3>1, <3>2, <3>3 DEF Partition
  <2>2. ~ GoOn
    BY <2>1, GoesOn
  <2>3. /\ p.count # 0 /\ ReadSector(p.start)
        /\ LooksLikeFat(Sector(p.start)) \/ LooksLikeRbf(Sector(p.start))
        /\ Make(Names[part], p.start, Sector(p.start), p.count, p.count)
    BY <1>3, <2>2, FirstSectors DEF Partition
  <2>4. p.start \in Nat /\ p = image[0].table[part]
    <3>1. image[0] \in SectorRecord
      BY <2>1, DeviceTyped
    <3>2. image[0].table \in [1..4 -> PartitionEntry]
      BY <3>1 DEF SectorRecord
    <3>3. p \in PartitionEntry
      BY <2>1, <3>2
    <3> QED
      BY <3>3 DEF PartitionEntry
  <2> HIDE DEF p
  <2>5. StartOf(part) = p.start /\ Sectors(part) = p.count
    BY <2>1, <2>4 DEF StartOf, Sectors
  <2>6. /\ job'.name = Names[part] /\ job'.sectors = p.count /\ job'.lsn = p.start
        /\ job'.fm = IF LooksLikeFat(Sector(p.start)) THEN "pcf" ELSE "rbf"
        /\ job'.ssize = IF job'.fm = "pcf" THEN Sector(p.start).bytes
                                           ELSE Sector(p.start).lsnsize
    BY <2>3 DEF Make
  <2>7. ASSUME Addressable
        PROVE  /\ job'.lsn = StartOf(part) /\ job'.fm = Kind(part)
               /\ job'.ssize = IF job'.fm = "pcf" THEN image[job'.lsn].bytes
                                                  ELSE image[job'.lsn].lsnsize
    <3>1. p.start < Word \div SectorSize
      BY <2>1, <2>5, <2>7 DEF Addressable
    <3>2. Sector(p.start) = image[p.start] /\ p.start \in DOMAIN image
      BY <2>3, <2>4, <3>1, NearSectors DEF Sector, ReadSector
    <3>3. job'.fm = Kind(part)
      BY <2>1, <2>3, <2>5, <2>6, <3>2 DEF Kind
    <3> QED
      BY <2>5, <2>6, <3>2, <3>3
  <2>8. JobFits(job', part)
    BY <2>1, <2>3, <2>5, <2>6, <2>7 DEF JobFits
  <2> QED
    BY <1>1, <2>1, <2>8, JobKept
<1>4. ASSUME pc \in {"load", "create", "write"}, UNCHANGED <<job, part>>
      PROVE  JobInv'
  <2>1. JobFits(job, part)
    BY <1>4 DEF MbrInv, JobInv, JobFits
  <2> QED
    BY <1>1, <1>4, <2>1, JobKept
<1>5. CASE Load
  <2>1. 0 \in DOMAIN image
    BY <1>5 DEF Load, MbrInv, ReadInv
  <2> QED
    BY <1>5, <1>4, <2>1, GoesOn DEF Load
<1>6. CASE Create
  <2>1. 0 \in DOMAIN image
    BY <1>6 DEF Create, MbrInv, ReadInv
  <2> QED
    BY <1>6, <1>4, <2>1, GoesOn DEF Create
<1>7. CASE Write
  <2>1. 0 \in DOMAIN image
    BY <1>7 DEF Write, MbrInv, ReadInv
  <2> QED
    BY <1>7, <2>1, GoesOn DEF Write
<1>8. CASE UNCHANGED vars
  BY <1>8, <1>4 DEF vars
<1> QED
  BY <1>2, <1>3, <1>5, <1>6, <1>7, <1>8
     DEF Next, Start, Gpt, PartitionsDone, Crash, Return

-----------------------------------------------------------------------------
(* A descriptor written stays as it is: its entry's turn is over.           *)

MadeFor(f, i) ==
  /\ 0 \in DOMAIN image
  /\ Addressable => /\ f.lsn = StartOf(i) /\ f.fm = Kind(i)
                    /\ f.ssize = IF f.fm = "pcf" THEN image[f.lsn].bytes
                                                 ELSE image[f.lsn].lsnsize
  /\ f.fm = "rbf" => Sectors(i) # 0 /\ f.cyl = Cylinders(Sectors(i))

LEMMA MadeKept ==
  ASSUME image' = image,
         \A i \in 1..4 : Names[i] \in made' =>
           /\ pc' \notin {"done", "crashed"} => i < part'
           /\ MadeFor(files'[Names[i]], i)
  PROVE  MadeInv'
  BY DEF MadeInv, MadeFor, Fits, Addressable, StartOf, Kind, Sectors, IsTable

LEMMA MadeStep == TypeOK /\ MbrInv /\ [Next]_vars => MadeInv'
<1> SUFFICES ASSUME TypeOK, MbrInv, [Next]_vars PROVE MadeInv'
  OBVIOUS
<1>1. image' = image
  BY DEF Next, vars, input, Start, Gpt, Table, Partition, PartitionsDone, Load, Create, Write,
         Crash
<1>2. \A i \in 1..4 : Names[i] \in made =>
        /\ pc \notin {"done", "crashed"} => i < part
        /\ MadeFor(files[Names[i]], i)
  BY DEF MbrInv, MadeInv, MadeFor, Fits
<1>3. part \in 1..5 /\ files \in [FileNames -> Content]
  BY DEF TypeOK
<1>4. ASSUME UNCHANGED <<files, made>>,
             pc' \notin {"done", "crashed"} =>
               pc \notin {"done", "crashed"} /\ part' \in {part, part + 1}
      PROVE  MadeInv'
  <2>1. \A i \in 1..4 : i < part => i < part + 1
    BY <1>3
  <2> QED
    BY <1>1, <1>2, <1>4, <2>1, MadeKept
<1>5. pc \in {"part", "load", "create", "write"} /\ GoOn => part' \in {part, part + 1}
  BY GoesOn DEF MbrInv, ReadInv
<1>6. CASE Create
  <2>1. CASE GoOn /\ UNCHANGED files
    BY <1>6, <1>4, <1>5, <2>1 DEF Create
  <2>2. CASE UNCHANGED part /\ files' = [files EXCEPT ![job.name] = Damaged]
    <3>1. job.name = Names[part] /\ part \in 1..4 /\ made' = made /\ pc = "create"
      BY <1>6 DEF Create, MbrInv, JobInv
    <3>2. \A i \in 1..4 : Names[i] \in made => i < part /\ Names[i] # job.name
      BY <1>2, <3>1, NamesDiffer
    <3>3. \A i \in 1..4 : Names[i] \in made => files'[Names[i]] = files[Names[i]]
      BY <2>2, <3>2, <1>3, NamesDiffer
    <3> QED
      BY <1>1, <1>2, <2>2, <3>1, <3>2, <3>3, MadeKept
  <2> QED
    BY <1>6, <2>1, <2>2 DEF Create
<1>7. CASE Write
  <2>1. 0 \in DOMAIN image /\ pc = "write" /\ GoOn
    BY <1>7 DEF Write, MbrInv, ReadInv
  <2>2. CASE UNCHANGED <<files, made>>
    BY <1>4, <1>5, <2>1, <2>2
  <2>3. CASE ~ UNCHANGED <<files, made>>
    <3> DEFINE d == [fm |-> job.fm, name |-> job.name, lsn |-> job.lsn,
                     ssize |-> Put16(job.ssize),
                     cyl |-> Put16(IF job.fm = "pcf" THEN 0 ELSE Cylinders(job.sectors))]
    <3>1. files' = [files EXCEPT ![job.name] = d] /\ made' = made \cup {job.name}
      BY <1>7, <2>3 DEF Write
    <3>2. JobFits(job, part)
      BY <2>1 DEF MbrInv, JobInv, JobFits
    <3>c. /\ Put16(job.ssize) = job.ssize
          /\ job.fm = "rbf" => Put16(Cylinders(job.sectors)) = Cylinders(job.sectors)
      <4>1. job \in Job
        BY <2>1 DEF TypeOK
      <4>2. job.ssize \in Nat /\ Cylinders(job.sectors) \in Nat
        BY <4>1, CylindersNat DEF Job
      <4> QED
        BY <2>1, <4>2 DEF MbrInv, SizeInv, Put16
    <3>3. MadeFor(d, part) /\ part \in 1..4 /\ job.name = Names[part]
      BY <2>1, <3>2, <3>c DEF JobFits, MadeFor
    <3> HIDE DEF d
    <3>4. pc' \notin {"done", "crashed"} => part' = part + 1
      BY <2>1, GoesOn
    <3>5. ASSUME NEW i \in 1..4, Names[i] \in made'
          PROVE  /\ pc' \notin {"done", "crashed"} => i < part'
                 /\ MadeFor(files'[Names[i]], i)
      <4>1. CASE i = part
        <5>1. files'[Names[i]] = d
          BY <3>1, <3>3, <4>1, <1>3, NamesDiffer
        <5> QED
          BY <3>3, <3>4, <4>1, <5>1
      <4>2. CASE i # part
        <5>1. Names[i] # job.name /\ Names[i] \in made
          BY <3>1, <3>3, <3>5, <4>2, NamesDiffer
        <5>2. files'[Names[i]] = files[Names[i]]
          BY <3>1, <5>1, <1>3, NamesDiffer
        <5>3. i < part
          BY <1>2, <2>1, <5>1
        <5> QED
          BY <1>2, <3>3, <3>4, <5>1, <5>2, <5>3
      <4> QED
        BY <4>1, <4>2
    <3> QED
      BY <1>1, <3>5, MadeKept
  <2> QED
    BY <2>2, <2>3
<1>8. CASE Partition
  BY <1>8, <1>4, <1>5 DEF Partition, Make
<1>9. CASE Load
  BY <1>9, <1>4, <1>5 DEF Load
<1>10. CASE Start \/ Gpt \/ Table \/ PartitionsDone \/ Crash \/ UNCHANGED vars
  BY <1>10, <1>4 DEF Start, Gpt, Table, PartitionsDone, Crash, vars, Return
<1> QED
  BY <1>6, <1>7, <1>8, <1>9, <1>10 DEF Next

-----------------------------------------------------------------------------
(* The checks of make_descriptor() before it opens the output, mbr.c:209    *)
(* and 215.                                                                 *)
LEMMA SizeStep == TypeOK /\ MbrInv /\ [Next]_vars => SizeInv'
<1> SUFFICES ASSUME TypeOK, MbrInv, [Next]_vars PROVE SizeInv'
  OBVIOUS
<1>1. pc \in {"load", "create", "write"} => 0 \in DOMAIN image
  BY DEF MbrInv, ReadInv
<1>2. CASE Load
  BY <1>1, <1>2, GoesOn DEF Load, SizeInv, Usable
<1>3. CASE Create
  BY <1>1, <1>3, GoesOn DEF Create, MbrInv, SizeInv
<1>4. CASE Write
  BY <1>1, <1>4, GoesOn DEF Write, SizeInv
<1>5. CASE UNCHANGED vars
  BY <1>5 DEF vars, MbrInv, SizeInv
<1>6. CASE Partition
  BY <1>6, GoesOn DEF Partition, Make, MbrInv, ReadInv, SizeInv
<1> QED
  BY <1>2, <1>3, <1>4, <1>5, <1>6
  DEF Next, Start, Gpt, Table, PartitionsDone, Crash, Return, Make, SizeInv

(* Types, and that the arguments of make_descriptor(), mbr.c:508-555, and   *)
(* the descriptors it has written agree with the device.                    *)
THEOREM MbrInvariant == Spec => [](TypeOK /\ MbrInv)
<1>1. TypeOK /\ MbrInv /\ [Next]_vars => (TypeOK /\ MbrInv)'
  BY TypeStep, GptStep, ReadStep, JobStep, MadeStep, SizeStep DEF MbrInv
<1> QED
  BY AtStart, <1>1, PTL DEF Spec

(* Every descriptor mbr writes fits its partition, on every device whose    *)
(* partitions begin where 32-bit offsets reach: read_sector(), mbr.c:345.   *)
THEOREM DescriptorsRight == Spec => []DescriptorsFit
<1>1. MbrInv => DescriptorsFit
  BY DEF MbrInv, MadeInv, DescriptorsFit
<1> QED
  BY MbrInvariant, <1>1, PTL

(* A GPT device changes nothing in the directory: the order of the tests in *)
(* main(), mbr.c:500.                                                       *)
THEOREM GptIsRefused == Spec => []GptRefused
<1>1. MbrInv => GptRefused
  BY DEF MbrInv, GptInv, GptRefused
<1> QED
  BY MbrInvariant, <1>1, PTL

(* The geometry of an RBF descriptor holds every sector of its partition,   *)
(* unless rounding up wraps: mbr.c:207.                                     *)
THEOREM GeometryIsRight == Spec => []GeometryCovers
<1>1. TypeOK /\ MbrInv => GeometryCovers
  <2> SUFFICES ASSUME TypeOK, MbrInv, NEW i \in 1..4,
                      Names[i] \in made, files[Names[i]].fm = "rbf",
                      Sectors(i) + CylinderSize <= Word
               PROVE  /\ files[Names[i]].cyl * CylinderSize >= Sectors(i)
                      /\ (files[Names[i]].cyl - 1) * CylinderSize < Sectors(i)
    BY DEF GeometryCovers
  <2>1. Sectors(i) # 0 /\ files[Names[i]].cyl = Cylinders(Sectors(i))
    BY DEF MbrInv, MadeInv
  <2>2. 0 \in DOMAIN image
    BY DEF MbrInv, MadeInv
  <2>3. Sectors(i) \in Nat
    <3>1. image[0] \in SectorRecord
      BY <2>2, DeviceTyped
    <3>2. image[0].tot \in Nat /\ image[0].table \in [1..4 -> PartitionEntry]
      BY <3>1 DEF SectorRecord
    <3>3. image[0].table[i].count \in Nat
      BY <3>2 DEF PartitionEntry
    <3> QED
      BY <3>2, <3>3 DEF Sectors
  <2> QED
    BY <2>1, <2>3, CylindersCover
<1> QED
  BY MbrInvariant, <1>1, PTL

-----------------------------------------------------------------------------
(* What is no longer as it was: a template may itself be an output, but     *)
(* then it has the file manager its own template had.                       *)
Template(fm) == IF fm = "pcf" THEN PcfTemplate ELSE RbfTemplate

Sound(i) ==
  /\ Kind(i) # ""
  /\ old[Template(Kind(i))] \notin {NoFile, Damaged}
  /\ old[Template(Kind(i))].fm = Kind(i)

FromInv == pc \in {"load", "create", "write"} => job.from = Template(job.fm)

ChangeInv ==
  Addressable =>
    /\ \A n \in FileNames : files[n] # old[n] =>
         /\ n \in made \/ files[n] = Damaged
         /\ \E i \in 1..4 : n = Names[i] /\ Sound(i)
    /\ pc \in {"create", "write"} => Sound(part)

LEMMA SameInput == [Next]_vars => image' = image /\ args' = args /\ old' = old
  BY DEF Next, vars, input, Start, Gpt, Table, Partition, PartitionsDone, Load, Create, Write,
         Crash

LEMMA FromStep == TypeOK /\ MbrInv /\ FromInv /\ [Next]_vars => FromInv'
<1> SUFFICES ASSUME TypeOK, MbrInv, FromInv, [Next]_vars,
                    pc' \in {"load", "create", "write"}
             PROVE  job'.from = Template(job'.fm)
  BY SameInput DEF FromInv, Template, PcfTemplate, RbfTemplate
<1>1. ASSUME pc \in {"load", "create", "write"}, job' = job
      PROVE  job'.from = Template(job'.fm)
  BY <1>1 DEF FromInv
<1>2. ASSUME NEW name, NEW lsn, NEW s, NEW m, NEW n, Make(name, lsn, s, m, n)
      PROVE  job'.from = Template(job'.fm)
  BY <1>2 DEF Make, Template
<1>3. pc \in {"gpt", "table", "part", "load", "create", "write"} => 0 \in DOMAIN image
  BY DEF MbrInv, ReadInv
<1> QED
  BY <1>1, <1>2, <1>3, GoesOn
  DEF Next, vars, Start, Gpt, Table, Partition, PartitionsDone, Load, Create, Write, Crash, Return

LEMMA SameSound ==
  ASSUME [Next]_vars, NEW i
  PROVE  Sound(i)' = Sound(i) /\ Addressable' = Addressable
<1>1. image' = image /\ args' = args /\ old' = old
  BY SameInput
<1>2. IsTable' = IsTable
  BY <1>1 DEF IsTable
<1>3. \A j : StartOf(j)' = StartOf(j)
  BY <1>1, <1>2 DEF StartOf
<1>4. Addressable' = Addressable
  BY <1>2, <1>3 DEF Addressable
<1>5. Kind(i)' = Kind(i)
  BY <1>1, <1>2, <1>3 DEF Kind
<1>6. PcfTemplate' = PcfTemplate /\ RbfTemplate' = RbfTemplate
  BY <1>1 DEF PcfTemplate, RbfTemplate
<1>7. Template(Kind(i))' = Template(Kind(i))
  BY <1>5, <1>6 DEF Template
<1>8. Sound(i)' = Sound(i)
  BY <1>1, <1>5, <1>7 DEF Sound
<1> QED
  BY <1>4, <1>8

(* The template that make_descriptor() accepts was one before the run, too. *)
LEMMA TemplateWasThere ==
  ASSUME TypeOK, MbrInv, FromInv, ChangeInv, Addressable, pc = "load", Usable(files[job.from])
  PROVE  Sound(part)
<1>1. /\ job.from \in FileNames /\ job.fm \in {"pcf", "rbf"}
      /\ job.fm = Kind(part) /\ job.from = Template(Kind(part))
  BY DEF TypeOK, Job, MbrInv, JobInv, FromInv
<1>2. files[job.from] \notin {NoFile, Damaged} /\ files[job.from].fm = job.fm
  BY DEF Usable
<1>3. CASE files[job.from] = old[job.from]
  BY <1>1, <1>2, <1>3 DEF Sound
<1>4. CASE files[job.from] # old[job.from]
  <2>1. job.from \in made
    BY <1>1, <1>2, <1>4 DEF ChangeInv
  <2>2. PICK i \in 1..4 : job.from = Names[i] /\ Sound(i)
    BY <1>1, <1>4 DEF ChangeInv
  <2>3. files[Names[i]].fm = Kind(i)
    BY <2>1, <2>2 DEF MbrInv, MadeInv, Fits
  <2> QED
    BY <1>1, <1>2, <2>2, <2>3 DEF Sound
<1> QED
  BY <1>3, <1>4

LEMMA ChangeStep == TypeOK /\ MbrInv /\ FromInv /\ ChangeInv /\ [Next]_vars => ChangeInv'
<1> SUFFICES ASSUME TypeOK, MbrInv, FromInv, ChangeInv, [Next]_vars, Addressable
             PROVE  ChangeInv'
  BY SameSound DEF ChangeInv
<1>1. /\ old' = old /\ files \in [FileNames -> Content]
      /\ \A i \in 1..4 : Sound(i)' = Sound(i)
  BY SameInput, SameSound DEF TypeOK
<1>2. /\ \A n \in FileNames : files[n] # old[n] =>
           /\ n \in made \/ files[n] = Damaged
           /\ \E i \in 1..4 : n = Names[i] /\ Sound(i)
      /\ pc \in {"create", "write"} => Sound(part)
  BY DEF ChangeInv
<1>3. pc \in {"load", "create", "write"} =>
        0 \in DOMAIN image /\ part \in 1..4 /\ job.name = Names[part] /\ job.name \in FileNames
  BY NamesDiffer DEF MbrInv, JobInv, ReadInv
<1>4. pc' \in {"create", "write"} => Sound(part)' 
  <2>1. CASE Load
    <3>1. pc' \in {"create", "write"} => UNCHANGED part /\ Usable(files[job.from])
      BY <1>3, <2>1, GoesOn DEF Load
    <3> QED
      BY <1>1, <1>3, <2>1, <3>1, TemplateWasThere DEF Load, Sound
  <2>2. CASE Create
    <3>1. pc' \in {"create", "write"} => UNCHANGED part
      BY <1>3, <2>2, GoesOn DEF Create
    <3> QED
      BY <1>1, <1>2, <1>3, <2>2, <3>1 DEF Create, Sound
  <2>3. CASE Write
    BY <1>3, <2>3, GoesOn DEF Write
  <2>4. CASE UNCHANGED vars
    BY <1>1, <1>2, <1>3, <2>4 DEF vars, Sound
  <2>5. CASE Partition
    BY <2>5, GoesOn DEF Partition, Make, MbrInv, ReadInv
  <2> QED
    BY <2>1, <2>2, <2>3, <2>4, <2>5
    DEF Next, Start, Gpt, Table, PartitionsDone, Crash, Return, Make
<1>5. CASE UNCHANGED <<files, made>>
  BY <1>1, <1>2, <1>4, <1>5 DEF ChangeInv
<1>6. CASE \E d : /\ pc \in {"create", "write"} /\ files' = [files EXCEPT ![job.name] = d]
                  /\ \/ d = Damaged /\ made' = made
                     \/ made' = made \cup {job.name}
  <2>1. ASSUME NEW n \in FileNames, files'[n] # old[n]
        PROVE  /\ n \in made' \/ files'[n] = Damaged
               /\ \E i \in 1..4 : n = Names[i] /\ Sound(i)
    <3>1. CASE n = job.name
      BY <1>1, <1>2, <1>3, <1>6, <3>1
    <3>2. CASE n # job.name
      <4>1. files'[n] = files[n] /\ made \subseteq made'
        BY <1>1, <1>6, <3>2
      <4> QED
        BY <1>2, <2>1, <4>1
    <3> QED
      BY <3>1, <3>2
  <2> QED
    BY <1>1, <1>4, <2>1 DEF ChangeInv
<1> QED
  BY <1>5, <1>6
  DEF Next, vars, Start, Gpt, Table, Partition, PartitionsDone, Load, Create, Write, Crash

(* A wrong or missing template costs no old descriptor, and no other file   *)
(* of the directory changes: make_descriptor() reads its template before it *)
(* opens its output.                                                        *)
THEOREM OldDescriptorsKept == Spec => []OldKept
<1>1. ChangeInv => OldKept
  BY DEF ChangeInv, OldKept, Sound, Template
<1>2. Init => FromInv /\ ChangeInv
  BY DEF Init, FromInv, ChangeInv
<1> QED
  BY <1>1, <1>2, FromStep, ChangeStep, MbrInvariant, PTL DEF Spec
=============================================================================

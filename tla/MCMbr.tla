------------------------------- MODULE MCMbr --------------------------------
(* Small instances of Mbr: devices of a few sectors each. *)
EXTENDS Mbr, TLC

Unused == [type |-> 0, start |-> 0, count |-> 0]
Zero ==
  [sig |-> FALSE, efi |-> FALSE, table |-> [i \in 1..4 |-> Unused],
   bytes |-> 0, spc |-> 0, reserved |-> 0, fats |-> 0, at17 |-> 0, at18 |-> 0,
   total16 |-> 0, fatsz |-> 0, total32 |-> 0,
   tot |-> 0, tks |-> 0, map |-> 0, bit |-> 0, dir |-> 0, lsnsize |-> 0]

(* A FAT boot sector of n clusters; an RBF identification sector; a sector  *)
(* that passes for both; a GPT header; a partition table.                   *)
Fat(n, reserved) ==
  [Zero EXCEPT !.sig = TRUE, !.bytes = 512, !.spc = 4, !.reserved = reserved, !.fats = 2,
               !.at18 = 2, !.fatsz = 256, !.total32 = reserved + 512 + 32 + 4 * n]
Rbf == [Zero EXCEPT !.at18 = 63, !.tot = 9000, !.tks = 63, !.map = 12, !.bit = 1,
                    !.dir = 2, !.lsnsize = 256]
Both == [Fat(5000, 1) EXCEPT !.tot = 9000, !.tks = 63, !.map = 12, !.bit = 1,
                             !.dir = 2, !.lsnsize = 256]
Header == [Zero EXCEPT !.efi = TRUE]
Table4(t) == [Zero EXCEPT !.sig = TRUE, !.table = t]
P(type, start, count) == [type |-> type, start |-> start, count |-> count]

Whole == { 0 :> Fat(4085, 1), 0 :> Fat(4084, 1), 0 :> Both, 0 :> Rbf,
           0 :> Zero, 1 :> Fat(5000, 1) }
Gpt2 == 0 :> Table4(<<P(238, 1, 9), P(6, 63, 9000), Unused, Unused>>)
          @@ 1 :> Header @@ 63 :> Fat(5000, 1)
Mixed == 0 :> Table4(<<P(6, 63, 9000), P(83, 20000, 16066), P(6, 40000, 9), P(6, 1000000, 16065)>>)
           @@ 63 :> Fat(65524, 1) @@ 20000 :> Rbf @@ 40000 :> Fat(65525, 1)
           @@ 1000000 :> Rbf
Large == 0 :> Table4(<<P(83, 63, 16065 * 65535), P(83, 64, 16065 * 65535 + 1),
                       P(83, 65, 1), P(6, 66, Word - 1)>>)
           @@ 63 :> Rbf @@ 64 :> Rbf @@ 65 :> Rbf @@ 66 :> Rbf
Odd == 0 :> Table4(<<P(6, 63, 9), P(5, 1500000, 9), P(6, 70, 9), P(6, 64, 16064)>>)
         @@ 63 :> Both @@ 64 :> Rbf @@ 65 :> Fat(4085, 8)
Far == 0 :> Table4(<<P(6, 63, 9000), P(6, (Word \div SectorSize) + 63, 9000), Unused, Unused>>)
         @@ 63 :> Fat(5000, 1)

SmallImages == Whole \cup {Gpt2, Mixed, Large, Odd}
FarImages == {Far}

MCCalls == {<<>>, <<"P">>, <<"R">>, <<"P", "R">>, <<"P", "d0">>, <<"d0", "R">>}

Module(fm) == [fm |-> fm, name |-> fm, lsn |-> 0, ssize |-> 0, cyl |-> 0]
MCDirectories ==
  { "d0" :> d0 @@ "d1" :> Module("scf") @@ "d2" :> NoFile @@ "d3" :> NoFile
      @@ "P" :> p @@ "R" :> Module("rbf") :
        d0 \in {NoFile, Module("rbf"), Module("pcf")}, p \in {Module("pcf"), Damaged} }
=============================================================================

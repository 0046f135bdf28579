---------------------------- MODULE MCModuleDir -----------------------------
(* Small instances of ModuleDir: a module in memory that is longer than the *)
(* stdio buffer, one that is shorter, a device, and one file for all.       *)
EXTENDS ModuleDir

CONSTANTS p, q, mod, tiny, dev, file

Two == {p, q}
One == {p}
MCObject == {mod, tiny, dev}
MCFile == {file}
MCPresent == [o \in MCObject |-> IF o = dev THEN 0 ELSE 1]
MCNewDevice == {dev}
MCSmall == {tiny}

Line(command, objects, options) ==
  [command |-> command,
   calls |-> [i \in DOMAIN objects |-> [object |-> objects[i], file |-> file]],
   go |-> "-i" \in options, rewrite |-> "-r" \in options, exec |-> "-x" \in options]

LinkJobs ==
  { Line("link", <<mod>>, {}), Line("unlink", <<mod, dev>>, {}),
    Line("iniz", <<dev>>, {}), Line("deiniz", <<dev>>, {}), Line("dump", <<mod>>, {}),
    Line("load", <<mod, dev>>, {}), Line("load", <<mod, dev>>, {"-i"}), Line("link", <<>>, {}) }
Saves ==
  { Line("save", <<mod>>, {"-x"}), Line("save", <<mod>>, {"-x", "-r"}),
    Line("save", <<mod>>, {"-r"}), Line("save", <<tiny>>, {"-r"}) }

(* All but the plain save without -r: between its look for the file and its *)
(* fopen(path, "wb") another command may create what it then empties.       *)
PassingJobs == LinkJobs \cup Saves
UnlinkJobs == { Line("unlink", <<mod>>, {}) }
=============================================================================

------------------------------- MODULE MCTftp -------------------------------
(* Small instances of Tftp: files of one to five blocks. *)
EXTENDS Tftp

CONSTANTS x, y, last, none

MCBlock == {x, y, last, none}
MCShort == {last, none}
MCFiles == {<<none>>, <<x, last>>, <<y, none>>, <<x, y, none>>, <<x, y, x, y, last>>}
=============================================================================

-------------------------------- MODULE Stdio --------------------------------
(* The output streams of the C library, as tee and binex use them.          *)
EXTENDS Integers

Smaller(a, b) == IF a <= b THEN a ELSE b

(* Of what a stream was given it has tried to write all but what does not   *)
(* fill its buffer, and fwrite() and ferror() tell of no more than that.    *)
(* The rest is written when the stream is closed, and neither tool looks    *)
(* whether that worked.                                                     *)
Emitted(given, buffer) == given - (given % buffer)

(* What is in the file in the end, as far as there is room. *)
Stored(given, room) == Smaller(given, room)
=============================================================================

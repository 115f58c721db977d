----------------------------- MODULE MCCedInput -----------------------------
(* A keyboard of seven keys, two of which read_key does not know. *)
EXTENDS CedInput

K(key, bytes) == [key |-> key, bytes |-> bytes]
MCStrokes ==
    {K("x", <<"x">>), K("ESC", <<ESC>>), K("UP", <<ESC, "[", "A">>),
     K("DEL", <<ESC, "[", "3", "~">>), K("NONE", <<ESC, "[", "1", ";", "2", "P">>),
     K("END", <<ESC, "O", "F">>), K("NONE", <<ESC, "O", "P">>)}

ASSUME MCStrokesKnown == Known(0 .. 12)
=============================================================================

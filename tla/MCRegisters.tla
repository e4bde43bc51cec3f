----------------------------- MODULE MCRegisters -----------------------------
(* Small instances of Registers: three words, two of which pass arguments, in  *)
(* a compiler that starts, or that has used every register before.            *)
EXTENDS Registers
MCWords == 1 .. 3
MCArgWords == 1 .. 2
MCTemps == 1 .. 3
MCWide == {1}
MCShapes == {<<>>, <<1>>, <<1, 2>>, <<2, 1>>, <<3, 1>>, <<2, 2>>, <<2, 0>>}
MCEarlier == {{}, Registers}
=============================================================================

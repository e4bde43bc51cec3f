------------------------------ MODULE MCStreams ------------------------------
(* Streams with one slot beside the terminal, and one file. *)
EXTENDS Streams, TLC

MCContent == ("tty" :> <<1>>) @@ ("old" :> <<1, 1>>)
MCModes == {Buffering}
=============================================================================

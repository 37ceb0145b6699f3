----------------------------- MODULE MCProtoQueue -----------------------------
(* A ring of seven bytes and messages whose frames have 3, 4, 6 and 8 bytes: *)
(* the last never fits, the others compete for the room.                    *)
EXTENDS ProtoQueue

Bytes == 0..255
FourMessages == {<<1>>, <<END>>, <<BEGIN, ESC>>, <<1, 93, ESC, ESC>>}
==============================================================================

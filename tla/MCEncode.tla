------------------------------ MODULE MCEncode ------------------------------
(* A small instance of Encode: registers of every class (with and without  *)
(* REX, those whose low bits are 4 and 5), values on both sides of every   *)
(* limit the writer tests.                                                 *)
EXTENDS Encode

MCRegs == {0, 1, 3, 4, 5, 8, 12, 13}
MCValues == {ZeroExt(b) : b \in {<<>>, <<1>>, <<127>>, <<128>>, <<120, 86, 52, 18>>,
                                 <<0, 0, 0, 128>>, <<0, 0, 0, 0, 1>>}}
=============================================================================

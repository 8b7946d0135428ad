------------------------------- MODULE MCRtc -------------------------------
(* Frequencies for Rtc: the highest and the lowest rate, and refused ones.  *)
EXTENDS Rtc

MCFreqs == {2, 1024, 1, 3, 2048}
=============================================================================

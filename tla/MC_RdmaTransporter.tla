------------------------- MODULE MC_RdmaTransporter -------------------------
(* Instantiation of RdmaTransporter for TLC.  Ports are the real ones      *)
(* (kRdmaPortStart 51010, offsets at both ends of [0, 1000]); the clock   *)
(* runs in half-second ticks, the default perf interval.                  *)
EXTENDS RdmaTransporter, TLC

MC_RandomOffsets == {0, 1000}

\* Buffer sizes as <<high, low>> 32-bit words of the size_t: 4 KiB, and
\* 4 KiB together with exactly 4 GiB.
MC_Sizes == {<<0, 4096>>}
MC_LargeSizes == {<<0, 4096>>, <<1, 0>>}
=============================================================================

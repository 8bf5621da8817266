--------------------------- MODULE MC_RateEngine ---------------------------
(* One whole-disk device; operations of 5 or 40 ms moving 8 sectors; ticks *)
(* of 50 ms (the floor) or 200 ms; two jiffies and two operations between *)
(* ticks, enough for two 40 ms operations to exceed a 50 ms tick.         *)
EXTENDS RateEngine

MC_Devs == {"sda"}
MC_Lats == {5, 40}
MC_DtMs == {50, 200}

=============================================================================

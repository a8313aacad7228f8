---------------------------- MODULE MCPaperBench ----------------------------
(***************************************************************************)
(* A small paper benchmark: all six modes, two sizes, three processes of   *)
(* two timed operations each.                                              *)
(***************************************************************************)
EXTENDS PaperBench

AllModes == <<"lmcache_total", "stock_breakdown", "raw_aes", "optimized_cpu",
              "lmcache_open", "optimized_cpu_open">>
TwoSizes == <<1, 2>>
Times == {4, 12}

ASSUME LoopsOfTheScript == DistinctPoints
=============================================================================

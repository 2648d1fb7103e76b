------------------------- MODULE MCSplitKTurnstile -------------------------
(* Up to three CTAs and three splits; one CTA alone, which must meet its   *)
(* own splits in order; and a second call over the buffers of the first.   *)
EXTENDS SplitKTurnstile

Launch(mode, splits, tiles, ctas, order, calls) ==
  [mode |-> mode, splits |-> splits, tiles |-> tiles, ctas |-> ctas, order |-> order,
   calls |-> calls, overlap |-> FALSE]

MCLaunches ==
  {Launch(m, 2, 2, x, o, 1) : m \in {"SERIAL", "PARALLEL"}, x \in {1, 2}, o \in {"static", "dynamic", "grid"}}
  \cup {Launch(m, 3, 1, x, "dynamic", 1) : m \in {"SERIAL", "PARALLEL"}, x \in {2, 3}}
  \cup {Launch("SERIAL", 3, 2, 1, "static", 1), Launch("SERIAL", 2, 1, 2, "static", 2)}
MCThreads == {0, 1}

(* The same buffers on two streams.                                        *)
MCStreams == {[Launch("SERIAL", 2, 1, 2, "static", 2) EXCEPT !.overlap = TRUE]}
=============================================================================

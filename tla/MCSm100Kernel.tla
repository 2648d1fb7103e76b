--------------------------- MODULE MCSm100Kernel ---------------------------
(* One CTA with C, split-K, scale factors and both kinds of draws; one CTA *)
(* that gathers with two load warps; pairs of CTAs with every way to load. *)
EXTENDS Sm100Kernel

T(k, e) == [k |-> k, epilogue |-> e]
L(ctas, loads, gather, tma, clc, sf, c, work) ==
  [ctas |-> ctas, loads |-> loads, gather |-> gather, tmaGather |-> tma, clc |-> clc,
   scaled |-> sf > 0, sfCols |-> IF sf > 0 THEN sf ELSE 1, epiCols |-> 2, subtiles |-> IF sf > 0 THEN 3 ELSE 2,
   cStages |-> c, work |-> work]
W(ks) == [i \in DOMAIN ks |-> T(ks[i], TRUE)]
Splits == <<T(1, FALSE), T(1, TRUE), T(0, FALSE), T(1, TRUE)>>

MCLaunches ==
  {L(1, 1, "none", FALSE, TRUE, 0, 2, w) : w \in {<<>>, Splits}}
  \cup {L(1, 1, "none", FALSE, FALSE, 0, 2, W(<<2, 1, 2>>))}
  \cup {L(1, 1, "none", FALSE, FALSE, sf, 0, W(<<2, 1, 1, 2>>)) : sf \in {1, 3, 4}}
  \cup {L(1, 2, "m", FALSE, FALSE, 0, 0, W(<<1, 1, 1>>)), L(1, 2, "k", TRUE, FALSE, 0, 0, W(<<2, 0, 1>>))}
  \cup {L(2, 1, "none", FALSE, FALSE, 3, 0, W(w)) : w \in {<<1, 1>>, <<3>>}}
  \cup {L(2, 1, "m", FALSE, FALSE, 0, 0, W(<<1>>))}
=============================================================================

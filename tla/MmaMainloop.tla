---------------------------- MODULE MmaMainloop ----------------------------
(***************************************************************************)
(* What one consumer executes for a tile of count k-tiles, in the main     *)
(* loops of gemm_sm90.py and gemm_sm120.py.  SM90 multiplies by WGMMAs,    *)
(* which run on after they are issued and are waited for by number; A is   *)
(* read from its stage (ss) or, a block of k16 at a time, from registers   *)
(* that the consumer fills while earlier WGMMAs read other blocks (rs).    *)
(* SM120's mma.sync (warp) is synchronous and reads registers only.        *)
(*                                                                         *)
(* A loop: slow: ss with an accumulator folded at every k-tile; decode: A  *)
(* is packed, block 0 fetches the words of the whole k-tile; promote: the  *)
(* fold applies a scale of the k-tile, which came with those words.        *)
(***************************************************************************)
EXTENDS Integers, Sequences
LOCAL INSTANCE SequencesExt

LoopType ==
  [mma : {"ss", "rs", "warp"}, slow : BOOLEAN, decode : BOOLEAN, promote : BOOLEAN,
   blocks : Nat \ {0}]
(* "mma_is_rs needs >= 4 k16 blocks per tile".  SM120 asserts only that a  *)
(* k-tile has whole blocks; one block would not do (README, section 7).    *)
LoopOK(l) ==
  /\ l \in LoopType
  /\ l.slow => l.mma = "ss"
  /\ l.decode => l.mma # "ss"
  /\ l.promote => l.decode /\ l.mma = "rs"
  /\ CASE l.mma = "ss" -> l.blocks = 1 [] l.mma = "rs" -> l.blocks >= 4 [] l.mma = "warp" -> l.blocks >= 2

(* The steps of a program.  Feed: wait for the next stage or not, fill     *)
(* blocks of registers, issue the MMA of a block or none, at the start of  *)
(* a sum or not.  Retire: wait until n MMAs at most are running, fold the  *)
(* sum ("first" into an empty total), release the oldest stage.            *)
Feed(full, fill, mma, start) == [op |-> "feed", full |-> full, fill |-> fill, mma |-> mma, start |-> start]
Retire(n, fold, release) == [op |-> "retire", n |-> n, fold |-> fold, release |-> release]
HandOver == [op |-> "handOver"]
NoFold == "no"
ReleaseStage == Retire(0, NoFold, TRUE)
If(cond, steps) == IF cond THEN steps ELSE <<>>
Each(n, Step(_)) == FlattenSeq([i \in 1..n |-> Step(i - 1)])

-----------------------------------------------------------------------------
(* GemmSm90.mma: one MMA runs while the next stage is waited for; a stage  *)
(* is released when the MMA after its own has been issued and its own has  *)
(* retired.  slow waits for every MMA and folds it.                        *)
SsTile(slow, k) ==
  <<Feed(TRUE, <<>>, <<<<k, 0>>>>, k = 0 \/ slow)>>
    \o (IF k = 0 THEN If(slow, <<Retire(0, "first", FALSE)>>)
                 ELSE <<IF slow THEN Retire(0, "add", TRUE) ELSE Retire(1, NoFold, TRUE)>>)
SsProgram(slow, count) ==
  Each(count, LAMBDA k : SsTile(slow, k)) \o <<HandOver>> \o If(count > 0, <<ReleaseStage>>)

(* GemmSm90.mma_rs_interleaved: block b + 1 is filled between the MMAs of  *)
(* b - 1 and b, block 0 during the last block of the k-tile before.        *)
\* Variation: one more MMA than may read the registers about to be filled.
OneMore(l) == l.blocks - 1
Running(l) == l.blocks - 2
RsFirst(l, count) ==
  LET B == l.blocks IN
  <<Feed(TRUE, <<<<0, 0>>>>, <<>>, FALSE)>>
    \o Each(B - 1, LAMBDA b : <<Feed(FALSE, <<<<0, b + 1>>>>, <<<<0, b>>>>, b = 0)>>)
    \o <<Feed(FALSE, <<>>, <<<<0, B - 1>>>>, FALSE)>>
    \o If(count > 1, <<Feed(TRUE, <<>>, <<>>, FALSE), Retire(B - 1, NoFold, FALSE),
                       Feed(FALSE, <<<<1, 0>>>>, <<>>, FALSE)>>
                       \o If(~l.promote, <<Retire(Running(l), NoFold, FALSE)>>))
    \o If(l.promote, <<Retire(0, "first", FALSE)>>)
RsBlock(l, k, b, waits) ==
  <<IF b = l.blocks - 1 THEN Feed(TRUE, <<<<k + 1, 0>>>>, <<<<k, b>>>>, FALSE)
                        ELSE Feed(FALSE, <<<<k, b + 1>>>>, <<<<k, b>>>>, l.promote /\ b = 0)>>
    \o If(waits, <<Retire(Running(l), NoFold, FALSE)>>)
    \o If(b = l.blocks - 3, <<Retire(l.blocks, NoFold, TRUE)>>)
RsSteady(l, k) ==
  Each(l.blocks, LAMBDA b : RsBlock(l, k, b, ~l.promote \/ b = l.blocks - 2))
    \o If(l.promote, <<Retire(0, "add", FALSE)>>)
RsLast(l, k) ==
  Each(l.blocks - 1, LAMBDA b : RsBlock(l, k, b, ~l.promote))
    \o <<Feed(FALSE, <<>>, <<<<k, l.blocks - 1>>>>, FALSE)>>
RsProgram(l, count) ==
  If(count > 0, RsFirst(l, count))
    \o Each(count - 2, LAMBDA i : RsSteady(l, i + 1))
    \o If(count > 1, RsLast(l, count - 1))
    \o <<HandOver, Retire(0, IF l.promote /\ count > 1 THEN "add" ELSE NoFold, count > 0)>>

(* GemmSm120.mma: the same rhythm; the stage is released when its last     *)
(* block is in registers.  Without a k-tile, block 0 is filled and unused. *)
WarpBlock(l, k, b, last) ==
  LET end == b = l.blocks - 1 IN
  If(end, <<ReleaseStage>>)
    \o <<Feed(end /\ ~last, If(~(end /\ last), <<IF end THEN <<k + 1, 0>> ELSE <<k, b + 1>>>>),
              <<<<k, b>>>>, FALSE)>>
WarpProgram(l, count) ==
  <<Feed(count > 0, <<<<0, 0>>>>, <<>>, FALSE)>>
    \o Each(count, LAMBDA k : Each(l.blocks, LAMBDA b : WarpBlock(l, k, b, k = count - 1)))
    \o <<HandOver>>

Program(l, count) ==
  CASE l.mma = "ss" -> SsProgram(l.slow, count)
    [] l.mma = "rs" -> RsProgram(l, count)
    [] l.mma = "warp" -> WarpProgram(l, count)

-----------------------------------------------------------------------------
(* A consumer's registers: the words and scale it fetched, the blocks of   *)
(* A, the MMAs that may still run, oldest first, the sum they go to and    *)
(* the sum it is folded into.                                              *)
Nowhere == <<0, 0>>
Registers(l) ==
  [raw |-> Nowhere, scale |-> Nowhere, frag |-> [b \in 0..l.blocks - 1 |-> Nowhere],
   running |-> <<>>, sum |-> <<>>, total |-> <<>>]

(* copy_block(stage, b): from the stage, or decoded from the words that    *)
(* block 0 fetched; block 1 puts the scale where the fold will find it.    *)
\* Variation: the scale stays where block 0 of the next k-tile replaces it.
KeptInPlace(l, raw, b, scale) == IF l.promote THEN raw ELSE scale
ScaleAt(l, raw, b, scale) == IF l.promote /\ b = 1 THEN raw ELSE scale
Filled(l, r, b, data) ==
  LET raw == IF l.decode /\ b = 0 THEN data ELSE r.raw IN
  [r EXCEPT !.raw = raw, !.scale = ScaleAt(l, raw, b, @), !.frag[b] = IF l.decode THEN raw ELSE data]

(* An MMA starts or continues the sum; mma.sync has ended when the next    *)
(* instruction begins.                                                     *)
Issued(l, r, mma, start) ==
  [r EXCEPT !.running = (IF l.mma = "warp" THEN <<>> ELSE @) \o mma,
            !.sum = (IF start THEN <<>> ELSE @) \o mma]

(* wait_group(n), and promote_acc or the fold of the slow accumulator: of  *)
(* what has retired.                                                       *)
Waited(r, n) ==
  [r EXCEPT !.running = IF Len(@) > n THEN SubSeq(@, Len(@) - n + 1, Len(@)) ELSE @]
Folded(r, fold) ==
  LET retired == SubSeq(r.sum, 1, Len(r.sum) - Len(r.running))
      scaled == [i \in DOMAIN retired |-> <<retired[i], r.scale>>]
  IN CASE fold = NoFold -> r
       [] fold = "first" -> [r EXCEPT !.total = scaled]
       [] fold = "add" -> [r EXCEPT !.total = @ \o scaled]

(* What the epilogue finds in the accumulator, and what it should find.    *)
(* Writing the accumulator waits for the mma.sync that adds to it.         *)
Zeroed(r) == [r EXCEPT !.running = <<>>, !.sum = <<>>, !.total = <<>>]
Result(l, r) == IF l.slow \/ l.promote THEN r.total ELSE r.sum
Expected(l, tile, count) ==
  [i \in 1..count * l.blocks |->
     LET block == <<(i - 1) \div l.blocks, (i - 1) % l.blocks>> IN
     IF l.promote THEN <<block, <<tile, block[1]>>>>
     ELSE IF l.slow THEN <<block, Nowhere>> ELSE block]
=============================================================================

------------------------------ MODULE MCBoard ------------------------------
(* Parts of the board and of its programs that share no state, for TLC: the GEMM accelerator
   under its test program (MCGemm), the graphics library and its pixels, the test of the dies' links,
   the check of the multiplier's results, and the boot loaders.  A behaviour exercises one of them;
   the variables of the others stay as they are. *)
EXTENDS MCGemm, GfxDriver

VARIABLES part,
          target, drawn, line,
          me, testPc, count, given_up, passCount, failCount, started, buffer, ended,
          cpuid, tests, reg_mode, mem, cmem, val, signed_in, damage, row, mism, rowsPassed, rowsFailed,
          prog, bootPc, group, turns, spi, flash, dram, weak, failed

MCScreen == [w |-> 4, h |-> 2]
MCSizes == {[w |-> 2, h |-> 2], [w |-> 3, h |-> 1]}
MCRects == {<<0, 0, 1, 1>>, <<1, 0, 2, 2>>}
\* A target of five by four pixels, two parts a pixel.
Raster == INSTANCE GfxRaster WITH
              W <- 5, H <- 4, Sub <- 2, Key <- 4, Image <- <<<<2, 3, 4>>, <<5, 6, 2>>>>,
              Points <- {<<0, 0>>, <<6, 0>>, <<0, 6>>, <<6, 6>>, <<2, 2>>, <<4, 2>>, <<2, 6>>},
              Ends <- {<<2 * x, 2 * y>> : x \in 0 .. 4, y \in 0 .. 3},
              Corners <- {<<x, y>> : x \in {-3, 0, 2, 5, 8}, y \in {-2, 0, 3, 6}}

\* Two words on each link, and polls that may give up.
Package == INSTANCE PackageTest WITH pc <- testPc, Length <- 2, MaxTurns <- 1
CheckVals == {[p \in Index \X Index |-> Val(p[1], p[2])],
              [p \in Index \X Index |-> IF p[1] = 0 THEN -3 ELSE 2 * p[2]],
              [p \in Index \X Index |-> 1]}
Check == INSTANCE GemmCheck WITH
             passCount <- rowsPassed, failCount <- rowsFailed, Vals <- CheckVals,
             SignedIns <- BOOLEAN, Scale <- 256, Zero <- 0, AlphaQ <- 0, Errors <- {-1, 1}
Boot == INSTANCE SdBoot WITH
            pc <- bootPc, Groups <- 3, PerBlock <- 2, Verified <- 2, Limit <- 1,
            Programs <- {"loader", "blocks"}

ASSUME Raster!RasterAssumption
ASSUME Package!PackageAssumption /\ Check!CheckAssumption /\ Boot!BootAssumption

raster == <<target, drawn, line>>

package == <<me, testPc, count, given_up, passCount, failCount, started, buffer, ended>>
check == <<cpuid, tests, reg_mode, mem, cmem, val, signed_in, damage, row, mism, rowsPassed, rowsFailed>>
boot == <<prog, bootPc, group, turns, spi, flash, dram, weak, failed>>

BoardInit ==
    /\ part \in {"gemm", "gfx", "raster", "package", "check", "boot"}
    /\ Init /\ GfxInit /\ Raster!Init
    /\ \/ part = "package" /\ Package!Init
       \/ part # "package" /\ me = 0 /\ testPc = "" /\ count = 0 /\ given_up = {} /\ passCount = 0
                           /\ failCount = 0 /\ started = {} /\ buffer = <<>> /\ ended = {}
    /\ \/ part = "check" /\ Check!Init
       \/ part # "check" /\ cpuid = 0 /\ tests = <<>> /\ reg_mode = <<>> /\ mem = <<>> /\ cmem = <<>> /\ val = <<>>
                         /\ signed_in = TRUE /\ damage = <<>> /\ row = 0 /\ mism = 0 /\ rowsPassed = 0 /\ rowsFailed = 0
    /\ \/ part = "boot" /\ Boot!Init
       \/ part # "boot" /\ prog = "" /\ bootPc = "" /\ group = 0 /\ turns = 0 /\ spi = <<>> /\ flash = 0
                        /\ dram = <<>> /\ weak = 0 /\ failed = FALSE

InGemm(A) == part = "gemm" /\ A /\ UNCHANGED <<part, gfxvars, raster, package, check, boot>>
InGfx(A) == part = "gfx" /\ A /\ UNCHANGED <<part, vars, raster, package, check, boot>>
InRaster(A) == part = "raster" /\ A /\ UNCHANGED <<part, vars, gfxvars, package, check, boot>>
InPackage(A) == part = "package" /\ A /\ UNCHANGED <<part, vars, gfxvars, raster, check, boot>>
InCheck(A) == part = "check" /\ A /\ UNCHANGED <<part, vars, gfxvars, raster, package, boot>>
InBoot(A) == part = "boot" /\ A /\ UNCHANGED <<part, vars, gfxvars, raster, package, check>>

BoardNext ==
    \/ InGemm(Next)
    \/ InGfx(Begin) \/ InGfx(Load) \/ InGfx(Bind) \/ InGfx(Setting) \/ InGfx(Drawing)
    \/ InGfx(Sequence) \/ InGfx(NextPiece) \/ InGfx(orgfxplus_flip) \/ InGfx(FlipDone)
    \/ InGfx(EngineDone) \/ InGfx(FrameEnds)
    \/ InRaster(Raster!First) \/ InRaster(Raster!Second) \/ InRaster(Raster!Rectangle)
    \/ InRaster(Raster!Sprite) \/ InRaster(Raster!Line) \/ InRaster(Raster!LineTurn)
    \/ InPackage(Package!StartTx) \/ InPackage(Package!StartRx) \/ InPackage(Package!Check)
    \/ InPackage(Package!PollTurn("tx")) \/ InPackage(Package!PollTurn("rx"))
    \/ (\E d \in 0 .. 3 : InPackage(Package!OtherStarts(d)))
    \/ (\E k \in 0 .. 2 : InPackage(Package!Arrives(k)))
    \/ (\E k \in 0 .. 2, half \in {"tx", "rx"} : InPackage(Package!EngineDone(k, half)))
    \/ InCheck(Check!gemm_test) \/ InCheck(Check!load_input_matrices) \/ InCheck(Check!Engine)
    \/ InCheck(Check!gemm_check_results)
    \/ InBoot(Boot!Shift) \/ InBoot(Boot!Select) \/ InBoot(Boot!spiMaster_init) \/ InBoot(Boot!PollCommand)
    \/ InBoot(Boot!Try) \/ InBoot(Boot!PollTry) \/ InBoot(Boot!Compare) \/ InBoot(Boot!ddr_sdram_init)
    \/ InBoot(Boot!StartBlock) \/ InBoot(Boot!PollBlock) \/ InBoot(Boot!StartRead) \/ InBoot(Boot!PollRead)
    \/ InBoot(Boot!Store) \/ InBoot(Boot!Jump)
boardvars == <<part, vars, gfxvars, raster, package, check, boot>>
\* The accelerator's fairness is that of its specification.
BoardSpec == /\ BoardInit /\ [][BoardNext]_boardvars
             /\ WF_boardvars(InGemm(Next)) /\ WF_boardvars(InGemm(Answer))
             /\ WF_boardvars(InGemm(sw = "poll" /\ Polls))

\* Shapes that share a side leave no gap, a line ends on its end and a sprite is in place
\* (GfxRaster).
PixelsExact == part = "raster" => Raster!NoGap /\ Raster!LineExact /\ Raster!SpriteExact
\* A die that counts no failure has received all its words from the right senders, and one whose
\* receivers were done counts none (PackageTest); the operands are packed as the check counts with
\* them, and no wrong result passes (GemmCheck); the boot loader jumps to the whole image, or has
\* reported a word that is not (SdBoot).
ProgramsTruthful ==
    /\ part = "package" => Package!DoneMeansPassed /\ Package!NoFalsePass
    /\ part = "check" => Check!OperandsPacked /\ Check!WrongNeverPasses
    /\ part = "boot" => Boot!LoaderImageWhole
\* All of these, and the graphics library's inductive invariant.
PartsRight == PixelsExact /\ ProgramsTruthful /\ GfxInv
=============================================================================

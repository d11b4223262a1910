------------------------------ MODULE FlashDir ------------------------------
(***************************************************************************)
(* The monitor's images in flash: the directory gcfg, where an image goes, *)
(* and the commands that download, store, delete and boot images           *)
(* (orpmon/cmds/load.c and drivers/flash.c with CFG_IN_FLASH).             *)
(*                                                                         *)
(* The directory is saved (erased, then programmed) before the image is    *)
(* copied to the address the saved directory gives for the number typed,   *)
(* and power may fail between any two of these steps.  An address counts   *)
(* flash blocks, in which every image starts; a length counts bytes, Block *)
(* of them in a flash block.  Content is a pair of a download and a block  *)
(* of it.  Far stands for erased words (0xffffffff), Ram for an address in *)
(* RAM, which is what the slots behind the last image hold.                *)
(***************************************************************************)
EXTENDS Integers, FiniteSets

CONSTANTS MaxImages,     \* MAX_IMAGES
          Block,         \* FLASH_BLOCK_SIZE
          FlashBlocks,   \* FLASH_SIZE / FLASH_BLOCK_SIZE
          ImagesBase,    \* block of FLASH_IMAGES_BASE
          Lens,          \* lengths of downloads
          Nums,          \* image numbers users type
          MaxDownloads,  \* bound: images downloaded
          MaxCuts        \* bound: power failures

ASSUME FlashAssumption ==
    /\ {MaxImages, Block, FlashBlocks} \subseteq Nat \ {0}
    /\ ImagesBase \in 0 .. FlashBlocks - 1
    /\ Lens \subseteq 1 .. FlashBlocks * Block
    /\ Nums \subseteq 0 .. 2 * MaxImages
    /\ {MaxDownloads, MaxCuts} \subseteq Nat

VARIABLES gcfg,      \* the directory in flash: img_number, img_start_addr, img_length
          flash,     \* the content of the blocks
          pc,        \* where the command is
          job,       \* its locals
          downloads, cuts,
          torn,      \* history: power failed while the directory was being saved
          unwritten  \* history: addresses of listed images whose copy did not end

vars == <<gcfg, flash, pc, job, downloads, cuts, torn, unwritten>>

Slots == 1 .. MaxImages
Ram == -1
Far == FlashBlocks * FlashBlocks
Empty == <<0, 0>>

\* Flash blocks an image of len bytes takes: ALIGN.
BlocksOf(len) == (len + Block - 1) \div Block
Erased == [number |-> Far, start |-> [i \in Slots |-> Far], length |-> [i \in Slots |-> 0]]

Blank == [number |-> 0, start |-> [i \in Slots |-> Ram], length |-> [i \in Slots |-> 0]]
Job(k, num, len, c, addr) == [k |-> k, num |-> num, len |-> len, cfg |-> c, addr |-> addr]
NoJob == Job("none", 0, 0, Blank, Ram)

Init ==
    /\ gcfg = Blank
    /\ flash = [b \in 0 .. FlashBlocks - 1 |-> Empty]
    /\ pc = "idle" /\ downloads = 0 /\ cuts = 0 /\ torn = FALSE /\ unwritten = {}
    /\ job = NoJob

-----------------------------------------------------------------------------
(* Where an image goes.                                                    *)

\* Fault: an image takes only the flash blocks it fills.
End_Unaligned(c, i) == c.start[i] + c.length[i] \div Block
End(c, i) == c.start[i] + BlocksOf(c.length[i])
Listed(c) == {i \in Slots : i <= c.number}

\* The end of the last hole; flash itself ends ImagesBase blocks before.
Limit == ImagesBase + FlashBlocks

\* The holes: what lies between the end of an image, or the base, and the next image.  Between
\* images that do not overlap these are the differences of neighbours in the sorted arrays.
Holes(c) == {ImagesBase} \cup {End(c, i) : i \in Listed(c)}
Bounds(c, s) == {Limit} \cup {c.start[i] : i \in {j \in Listed(c) : c.start[j] >= s}}
\* Fault: the holes count as longer by what lies before the images.
BigEnough_Longer(c, len) == {s \in Holes(c) : \A e \in Bounds(c, s) : (e + ImagesBase - s) * Block >= len}
BigEnough(c, len) == {s \in Holes(c) : \A e \in Bounds(c, s) : (e - s) * Block >= len}
Smaller(c, s, t) == \E e \in Bounds(c, s) : \A f \in Bounds(c, t) : e - s < f - t
Larger(c, s, t) == \A e \in Bounds(c, s) : \E f \in Bounds(c, t) : f - t < e - s

\* get_good_addr: the smallest hole that is big enough, the first of equals; none if none is.
get_good_addr(c, len) ==
    IF c.number = 0 THEN {ImagesBase}
    ELSE {s \in BigEnough(c, len) :
             \A t \in BigEnough(c, len) : Smaller(c, s, t) \/ (~Larger(c, s, t) /\ s <= t)}

\* Fault: the images behind stay where they are.
Shift_InPlace(f, num, n, v) == [f EXCEPT ![num] = v]
\* Those from num on move one up.
Shift(f, num, n, v) == [i \in Slots |-> IF i < num THEN f[i] ELSE IF i = num THEN v
                                        ELSE IF i <= n THEN f[i - 1] ELSE f[i]]

\* prepare_img_data refuses, or lists the image under num, or last.
Refused(c, len) == c.number >= MaxImages \/ get_good_addr(c, len) = {}
prepare_img_data(c, num, len, addr) ==
    LET n == c.number + 1
        at == IF num > n \/ num = 0 THEN n ELSE num
    IN [number |-> n, start |-> Shift(c.start, at, n, addr),
        length |-> Shift(c.length, at, n, len)]

-----------------------------------------------------------------------------
(* The commands.                                                           *)

\* Every command but the deletion of all reads the directory: with a torn one it is not modelled.
Ready == pc = "idle" /\ ~torn

\* tboot or sboot of an image of len bytes.
Download(k, num, len) ==
    /\ Ready /\ downloads < MaxDownloads /\ downloads' = downloads + 1
    /\ IF Refused(gcfg, len)
       THEN /\ pc' = IF k = "tboot" THEN "booted" ELSE "idle"
            /\ UNCHANGED job
       ELSE /\ pc' = "erase_cfg"
            /\ \E addr \in get_good_addr(gcfg, len) :
                 job' = Job(k, num, len, prepare_img_data(gcfg, num, len, addr), addr)
    /\ UNCHANGED <<gcfg, flash, cuts, torn, unwritten>>

\* del_image of one: those behind move one down; what follows the arrays comes into the last slot,
\* and counts as no address, nor as a length.
Removed(f, num, n) == [i \in Slots |-> IF i < num \/ i > n THEN f[i] ELSE IF i < MaxImages THEN f[i + 1] ELSE Ram]
DeleteOne(num) ==
    /\ Ready /\ gcfg.number > 0
    /\ LET n == gcfg.number
           at == IF num = 0 \/ num > n THEN n ELSE num
       IN job' = Job("delete", 0, 0, [number |-> n - 1, start |-> Removed(gcfg.start, at, n),
                                      length |-> Removed(gcfg.length, at, n)], Ram)
    /\ pc' = "erase_cfg"
    /\ UNCHANGED <<gcfg, flash, downloads, cuts, torn, unwritten>>

\* del_image of all, and a first configuration.
DeleteAll ==
    /\ pc = "idle"
    /\ job' = Job("delete", 0, 0, Blank, Ram)
    /\ pc' = "erase_cfg"
    /\ UNCHANGED <<gcfg, flash, downloads, cuts, torn, unwritten>>

\* save_conf: the images as they are.
SaveConf ==
    /\ Ready
    /\ job' = Job("save", 0, 0, gcfg, Ram)
    /\ pc' = "erase_cfg"
    /\ UNCHANGED <<gcfg, flash, downloads, cuts, torn, unwritten>>

\* boot of an image, tboot without a number.
BootImage ==
    /\ Ready /\ pc' = "booted"
    /\ UNCHANGED <<gcfg, flash, job, downloads, cuts, torn, unwritten>>

\* save_global_cfg, with interrupts disabled.
EraseCfg ==
    /\ pc = "erase_cfg" /\ pc' = "program_cfg"
    /\ gcfg' = Erased
    /\ UNCHANGED <<flash, job, downloads, cuts, torn, unwritten>>

Stores == job.k \in {"tboot", "sboot"}
ProgramCfg ==
    /\ pc = "program_cfg"
    /\ gcfg' = job.cfg /\ torn' = FALSE
    /\ pc' = IF Stores THEN "erase_image" ELSE "idle"
    /\ unwritten' = (IF Stores THEN unwritten \cup {job.addr} ELSE unwritten)
                     \cap {job.cfg.start[i] : i \in Listed(job.cfg)}
    /\ job' = IF Stores THEN [job EXCEPT !.cfg = Blank] ELSE NoJob
    /\ UNCHANGED <<flash, downloads, cuts>>

\* Fault: the image listed last.
Destination_Last == gcfg.start[gcfg.number]
\* The copy goes to the address listed under the number typed; what lies before and behind the
\* arrays, and in the slots not used, is no address in flash.
Destination == IF job.num \in Slots THEN gcfg.start[job.num] ELSE Ram
Target == {b \in 0 .. FlashBlocks - 1 : b >= Destination /\ b < Destination + BlocksOf(job.len)}
Done == IF job.k = "tboot" THEN "booted" ELSE "idle"

\* copy_memory_run: into RAM, or not at all into a region that does not fit, or erase.
EraseImage ==
    /\ pc = "erase_image"
    /\ IF Destination = Ram \/ Destination * Block + job.len >= FlashBlocks * Block
       THEN pc' = Done /\ job' = NoJob /\ UNCHANGED flash
       ELSE /\ pc' = "program_image" /\ UNCHANGED job
            /\ flash' = [b \in DOMAIN flash |-> IF b \in Target THEN Empty ELSE flash[b]]
    /\ UNCHANGED <<gcfg, downloads, cuts, torn, unwritten>>

ProgramImage ==
    /\ pc = "program_image" /\ pc' = Done
    /\ flash' = [b \in DOMAIN flash |-> IF b \in Target THEN <<downloads, b - Destination>> ELSE flash[b]]
    /\ unwritten' = unwritten \ {Destination}
    /\ job' = NoJob
    /\ UNCHANGED <<gcfg, downloads, cuts, torn>>

\* The program that was booted comes back to the monitor by a reset.
Reset ==
    /\ pc = "booted" /\ pc' = "idle"
    /\ UNCHANGED <<gcfg, flash, job, downloads, cuts, torn, unwritten>>

\* Power fails: the directory is lost when it is erased and not programmed.
PowerCut ==
    /\ cuts < MaxCuts /\ cuts' = cuts + 1
    /\ pc # "idle" /\ pc' = "idle"
    /\ torn' = (torn \/ pc = "program_cfg")
    /\ job' = NoJob
    /\ UNCHANGED <<gcfg, flash, downloads, unwritten>>

Next ==
    \/ \E k \in {"tboot", "sboot"}, num \in Nums, len \in Lens : Download(k, num, len)
    \/ \E num \in Nums : DeleteOne(num)
    \/ DeleteAll \/ SaveConf \/ BootImage \/ EraseCfg \/ ProgramCfg \/ EraseImage \/ ProgramImage
    \/ Reset \/ PowerCut
FlashSpec == Init /\ [][Next]_vars

-----------------------------------------------------------------------------
(* Properties.                                                             *)

DirOK(c) ==
    /\ c.number \in 0 .. MaxImages
    /\ c.start \in [Slots -> ImagesBase .. Limit \cup {Ram}] /\ c.length \in [Slots -> 0 .. FlashBlocks * Block \cup {Ram}]
    /\ \A i \in Listed(c) : c.start[i] # Ram /\ c.length[i] \in Lens /\ End(c, i) <= Limit

FlashTypeOK ==
    /\ pc \in {"idle", "erase_cfg", "program_cfg", "erase_image", "program_image", "booted"}
    /\ DirOK(job.cfg) /\ (pc = "program_cfg" \/ torn \/ DirOK(gcfg))
    /\ flash \in [0 .. FlashBlocks - 1 -> (0 .. downloads) \X (0 .. FlashBlocks)]

\* No two listed images share a flash block, through any sequence of insertions and deletions.
Disjoint(c) ==
    \A i, j \in Listed(c) : i # j => \/ c.start[i] + BlocksOf(c.length[i]) <= c.start[j]
                                     \/ c.start[j] + BlocksOf(c.length[j]) <= c.start[i]
ImagesDisjoint == pc # "program_cfg" /\ ~torn => Disjoint(gcfg)

\* Every listed image is in flash whole, whatever was stored, deleted or interrupted by a power
\* failure around it, unless its own copy did not end.
WholeAt(s, len) == \E d \in 1 .. downloads : \A b \in 0 .. BlocksOf(len) - 1 :
                       s + b < FlashBlocks /\ flash[s + b] = <<d, b>>
ImagesWhole ==
    pc # "program_cfg" /\ ~torn =>
        \A i \in Listed(gcfg) : gcfg.start[i] \notin unwritten => WholeAt(gcfg.start[i], gcfg.length[i])

\* The directory is a list: an image comes in between the others or one goes, none moves in flash.
Entries(c) == {<<c.start[i], c.length[i]>> : i \in Listed(c)}
Before(c, x, y) == \E i, j \in Listed(c) : i < j /\ <<c.start[i], c.length[i]>> = x /\ <<c.start[j], c.length[j]>> = y
OthersStay ==
    [][pc = "idle" /\ pc' = "erase_cfg" /\ job'.cfg.number # 0 =>
         LET c == job'.cfg
             both == Entries(gcfg) \cap Entries(c)
         IN /\ Cardinality(Entries(c)) = c.number
            /\ Entries(gcfg) \subseteq Entries(c) \/ Entries(c) \subseteq Entries(gcfg)
            /\ \A x, y \in both : Before(gcfg, x, y) => Before(c, x, y)]_vars

\* The monitor reports the image number and the address it copies the image to; when the command
\* ends, the image that was listed is written.
ReportedImageWritten == pc = "booted" /\ cuts = 0 => unwritten = {}
-----------------------------------------------------------------------------
(* The inductive invariant that ImagesDisjoint and ImagesWhole rest on.    *)

\* The directory as it must be: typed, inside the limit, no two images on one block.
Good(c) == DirOK(c) /\ Disjoint(c)

\* The slots behind the last image hold no address in flash.
RamBehind(c) == \A i \in Slots : i > c.number => c.start[i] = Ram

\* The number typed names the image that was just listed, or no image.
Aimed(c, num, len, addr) ==
    num \in Slots => \/ c.start[num] = Ram
                     \/ (num \in Listed(c) /\ c.start[num] = addr /\ c.length[num] = len)

Copying == {"erase_image", "program_image"}
Saving == {"erase_cfg", "program_cfg"}
\* The inductive invariant: the directory in flash and the one being saved are good; the copy goes to
\* the one image that is listed and not written; every other listed image is whole.
Typed ==
    /\ pc \in {"idle", "booted"} \cup Saving \cup Copying
    /\ job = Job(job.k, job.num, job.len, job.cfg, job.addr)
    /\ downloads \in Nat /\ torn \in BOOLEAN
    /\ flash \in [0 .. FlashBlocks - 1 -> (0 .. downloads) \X (0 .. FlashBlocks)]
Directories ==
    /\ Good(job.cfg) /\ RamBehind(job.cfg)
    /\ pc = "program_cfg" \/ torn \/ (Good(gcfg) /\ RamBehind(gcfg))
Copies ==
    /\ pc \in Saving /\ Stores =>
         downloads >= 1 /\ job.len \in Lens /\ Aimed(job.cfg, job.num, job.len, job.addr)
    /\ pc \in Copying =>
         /\ ~torn /\ downloads >= 1 /\ job.len \in Lens
         /\ Aimed(gcfg, job.num, job.len, job.addr)
         /\ Destination # Ram => job.addr \in unwritten
    /\ pc = "program_image" =>
         Destination # Ram /\ Destination * Block + job.len < FlashBlocks * Block
Wholes ==
    /\ pc \in Saving =>
         \A i \in Listed(job.cfg) : \/ job.cfg.start[i] \in unwritten
                                    \/ (Stores /\ job.cfg.start[i] = job.addr)
                                    \/ WholeAt(job.cfg.start[i], job.cfg.length[i])
    /\ ImagesWhole
FlashInv == Typed /\ Directories /\ Copies /\ Wholes
=============================================================================

----------------------------- MODULE MCBurning ------------------------------
(***************************************************************************)
(* The parts of the burning stack, each on its own: the buffer manager, the *)
(* state of an image and the burning of a package.                         *)
(***************************************************************************)
EXTENDS MCBufManager, ImgDownload, MCPackageBurn

VARIABLE who  \* the part that runs

Img(fmts, parts, medias, totals, ups) ==
    [fmt : fmts, part : parts, media : medias, total : totals, isUpload : ups]

\* Partition images, bootloaders of allowed and of excessive size, keys of
\* allowed and of excessive size, memory images, uploads, and commands that are
\* refused for a word.
MCImages ==
    Img({"normal", "sparse"}, {"system"}, {"store"}, {1, 4}, {FALSE})
      \union Img({"normal"}, {"bootloader"}, {"store"}, {2, 4}, {FALSE})
      \union Img({"normal"}, {"mac"}, {"key"}, {1, 2}, {FALSE})
      \union Img({"normal"}, {"dtb"}, {"mem"}, {3}, {FALSE})
      \union Img({"normal"}, {"system"}, {"store", "mem"}, {3}, {TRUE})
      \union Img({"normal"}, {"system"}, {"spiflash", "other"}, {2}, {FALSE})
      \union Img({"other"}, {"system"}, {"store"}, {2}, {FALSE})

burningVars == <<who, vars, imgVars, packageVars>>

\* They share nothing, so one runs while the others rest.
BurningInit ==
    /\ who \in {"buf", "img", "package"}
    /\ Init
    /\ ImgDownloadInit
    /\ PackageInit
    /\ who # "package" => cfg = Card

BufStep == who = "buf" /\ Next /\ UNCHANGED <<who, imgVars, packageVars>>
ImgStep == who = "img" /\ ImgDownloadNext /\ UNCHANGED <<who, vars, packageVars>>
PackageStep == who = "package" /\ PackageNext /\ UNCHANGED <<who, vars, imgVars>>

\* A device may stay as it is; the other two always go on.
PackageRests == who = "package" /\ UNCHANGED burningVars

BurningNext == BufStep \/ ImgStep \/ PackageStep \/ PackageRests

BurningSpec ==
    /\ BurningInit /\ [][BurningNext]_burningVars
    /\ who = "buf" => BufFairness
    /\ who = "package" => PackageFairness
=============================================================================

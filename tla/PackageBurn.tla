---------------------------- MODULE PackageBurn ----------------------------
(***************************************************************************)
(* Burning a whole Amlogic package: from an SD card                        *)
(* (optimus_burn_with_cfg_file) or from the flash partition                *)
(* aml_sysrecovery (optimus_sysrec_burn_package_from_partition), with the  *)
(* storage initialisation, the burn-complete flag in the environment, and  *)
(* the boot that follows.  The power may be cut between any two steps, so  *)
(* everything in memory is lost and the flash keeps what was written.      *)
(*                                                                         *)
(* How an item gets from the package to its partition is the subject of    *)
(* BufManager and ImgDownload; here an item is being written ("part"),     *)
(* then written as it should be ("new"), but for fill chunks of a sparse   *)
(* item whose writes failed unnoticed ("gaps"), or otherwise ("bad").      *)
(***************************************************************************)
EXTENDS Integers, SequencesExt

CONSTANTS
    Data,       \* the data partitions
    Configs,    \* packages with their ini settings, see Config
    MaxCuts     \* how often the power is cut (bound)

Recovery == "aml_sysrecovery"
Names == Data \cup {"bootloader", "dtb", "media"}
Source == {"sdmmc", "store"}

\* items: the data partitions with an item in the package, in package order,
\* each once;
\* burn_parts: the partitions the ini file names, <<>> when it names none;
\* sparse: items that are sparse images;
\* small: items no larger than the part of them before the first cluster end;
\* verify: partitions with a VERIFY item.
Config ==
    [source : Source, items : Seq(Data), burn_parts : Seq(Data),
     sparse : SUBSET Data, small : SUBSET Data, verify : SUBSET Names,
     hasBootloader : BOOLEAN, dtb : BOOLEAN, media : BOOLEAN,
     needVerify : BOOLEAN, eraseBootloader : BOOLEAN, eraseFlash : BOOLEAN]

ASSUME PackageAssumption ==
    /\ Data \cap {"bootloader", "dtb", "media", "clear"} = {}
    /\ Configs \subseteq Config
    /\ \A c \in Configs : \A i, j \in DOMAIN c.items : c.items[i] = c.items[j] => i = j
    /\ MaxCuts \in Nat

VARIABLES
    cfg,        \* the package and the ini file on the card
    flash,      \* what each partition holds
    env,        \* the saved environment: whether it descends from the
                \* defaults of the package's u-boot, and its upgrade_step
    boot,       \* the device u-boot was loaded from, "off" without power
    pc,         \* where optimus_burn_with_cfg_file is
    todo,       \* what is still to be burned, in order
    diskInited, \* _disk_intialed_ok
    dtbLoaded,  \* _dtb_is_loaded
    report,     \* what the LED and the screen show
    done,       \* a burn has been reported as successful
    cuts        \* power cuts so far

packageVars == <<cfg, flash, env, boot, pc, todo, diskInited, dtbLoaded, report, done, cuts>>
flashVars == <<flash, env>>
volatile == <<diskInited, dtbLoaded>>
stable == <<cfg, cuts>>

PackageInit ==
    /\ cfg \in Configs
    /\ flash = [n \in Names |-> "old"]
    /\ env = [owner |-> "old", step |-> 2]
    /\ boot = "flash"
    /\ pc = "idle"
    /\ todo = <<>>
    /\ diskInited = FALSE
    /\ dtbLoaded = FALSE
    /\ report = "none"
    /\ done = FALSE
    /\ cuts = 0

\* Erased or damaged: u-boot takes its own defaults, upgrade_step=0.
NoEnv == [owner |-> "none", step |-> 0]
Bootable == flash["bootloader"] \in {"old", "new"}

----------------------------------------------------------------------------
(* What is burned, and in which order. *)

\* Mutant: the recovery package's own partition is burned too.
PartsToBurn_All(c) == IF c.burn_parts # <<>> THEN c.burn_parts ELSE c.items

\* get_burn_parts_from_img, unless the ini file configures the parts; the
\* recovery flow resets burn_num first.
PartsToBurn(c) ==
    IF c.source = "store" THEN RemoveFirst(c.items, Recovery)
    ELSE IF c.burn_parts # <<>> THEN c.burn_parts ELSE c.items

\* Mutant: the bootloader comes before the data partitions.
Todo_BootloaderFirst(c) ==
    (IF c.hasBootloader THEN <<"bootloader">> ELSE <<>>)
    \o (IF c.items = <<>> THEN <<>> ELSE PartsToBurn(c))

\* "dtb" and "clear" are the steps the recovery flow has between the data
\* partitions and the bootloader; the other flow saved the device tree when
\* it initialised the storage.
Todo(c) ==
    (IF c.items = <<>> THEN <<>> ELSE PartsToBurn(c))
    \o (IF c.source = "store" THEN <<"dtb", "clear">>
        ELSE IF c.media THEN <<"media">> ELSE <<>>)
    \o (IF c.hasBootloader THEN <<"bootloader">> ELSE <<>>)

\* Mutant: without the test of is_bootloader_old.
MustErase_Always == cfg.eraseBootloader

\* is_bootloader_old: u-boot was not loaded from the card.
MustErase == cfg.eraseBootloader /\ boot # "sd"

----------------------------------------------------------------------------
(* Ways to leave a step. *)

\* goto _finish with this result.
Finish(res) ==
    /\ pc' = IF res = "ok" THEN "success" ELSE "failed"
    /\ report' = IF res = "ok" THEN "success" ELSE "failed"
    /\ todo' = <<>>
    /\ done' = (done \/ res = "ok")

\* return __LINE__: back to the prompt, and nothing is reported.
Return ==
    /\ pc' = "idle"
    /\ todo' = <<>>
    /\ UNCHANGED <<report, done>>

Goto(step) == pc' = step /\ UNCHANGED <<todo, report, done>>

PowerOff ==
    /\ boot' = "off"
    /\ pc' = "off"
    /\ todo' = <<>>
    /\ diskInited' = FALSE
    /\ dtbLoaded' = FALSE
    /\ report' = "none"

----------------------------------------------------------------------------
(* Power and boot. *)

\* The boot ROM takes the bootloader of the flash when it is valid and that
\* of the card otherwise (external); board_late_init replaces an environment
\* that an older u-boot saved; aml_try_factory_sdcard_burning starts the burn
\* when u-boot came from the card, unless the card does not answer.
PowerOn ==
    /\ pc = "off"
    /\ Bootable \/ (cfg.source = "sdmmc" /\ ~done)
    /\ boot' = IF Bootable THEN "flash" ELSE "sd"
    /\ env' = IF env.step = 1
              THEN [owner |-> IF Bootable THEN flash["bootloader"] ELSE "new", step |-> 2]
              ELSE env
    /\ pc' \in IF Bootable THEN {"idle"} ELSE {"idle", "parse"}
    /\ UNCHANGED <<stable, flash, todo, volatile, report, done>>

\* Power goes while something runs, or someone switches the device off.
PowerCut ==
    /\ pc # "off"
    /\ cuts < MaxCuts
    /\ cuts' = cuts + 1
    /\ PowerOff
    /\ UNCHANGED <<cfg, flashVars, done>>

\* do_sdc_burn or do_aml_sysrecovery, at the prompt.
BurnCmd ==
    /\ pc = "idle"
    /\ ~done
    /\ pc' = IF cfg.source = "store" THEN "init" ELSE "parse"
    /\ UNCHANGED <<stable, flashVars, boot, todo, volatile, report, done>>

\* optimus_burn_complete: the device is switched off or reset.
BurnComplete ==
    /\ pc = "success"
    /\ PowerOff
    /\ UNCHANGED <<stable, flashVars, done>>

----------------------------------------------------------------------------
(* The flow of optimus_burn_with_cfg_file. *)

ParseIniCfgFile ==
    /\ pc = "parse"
    /\ UNCHANGED <<stable, env, boot, volatile>>
    /\ \/ Finish("fail") /\ UNCHANGED flash
       \/ /\ MustErase
          /\ Goto("erase")
          /\ flash' = [flash EXCEPT !["bootloader"] = "part"]
       \/ ~MustErase /\ Goto("open") /\ UNCHANGED flash

EraseBootloader ==
    /\ pc = "erase"
    /\ UNCHANGED <<stable, env>>
    /\ \/ Finish("fail") /\ UNCHANGED <<flash, boot, volatile>>
       \/ /\ flash' = [flash EXCEPT !["bootloader"] = "none"]
          /\ PowerOff
          /\ UNCHANGED done

\* image_open, optimus_sdc_burn_dtb_load, the LED, the screen and the
\* progress bar.  A failing LED or screen returns from the card's flow.
OpenImage ==
    /\ pc = "open"
    /\ UNCHANGED <<stable, flashVars, boot, diskInited>>
    /\ \/ Finish("fail") /\ UNCHANGED dtbLoaded
       \/ cfg.source = "sdmmc" /\ Return /\ UNCHANGED dtbLoaded
       \/ /\ cfg.source = "sdmmc"
          /\ Goto("init")
          /\ dtbLoaded' = (dtbLoaded \/ cfg.dtb)
       \/ /\ cfg.source = "store"
          /\ PartsToBurn(cfg) # <<>>
          /\ pc' = "burn"
          /\ todo' = Todo(cfg)
          /\ UNCHANGED <<dtbLoaded, report, done>>

Erased == cfg.eraseFlash /\ cfg.source = "sdmmc" /\ cfg.items # <<>>

\* store_init; with an erase flag the data partitions are gone, and with them
\* perhaps the environment and the bootloader (external).  Then
\* optimus_save_loaded_dtb_to_flash leaves d in the device tree partition.
StoreInit(d) ==
    /\ \E b \in {flash["bootloader"], IF Erased THEN "none" ELSE flash["bootloader"]} :
         flash' = [n \in Names |->
                     IF n = "bootloader" THEN b
                     ELSE IF n = "dtb" /\ dtbLoaded /\ d # "unsaved" THEN d
                     ELSE IF Erased THEN "none" ELSE flash[n]]
    /\ env' \in {env, IF Erased THEN NoEnv ELSE env}

\* What optimus_burn_with_cfg_file and the recovery flow do next.
AfterInit ==
    IF cfg.source = "store" THEN Goto("open")
    ELSE pc' = "burn" /\ todo' = Todo(cfg) /\ UNCHANGED <<report, done>>

\* The recovery flow overwrites the result of optimus_storage_init.
InitFailed == IF cfg.source = "store" THEN Goto("open") ELSE Return

\* optimus_storage_init: nothing when it was initialised before; partitions
\* or storage cannot be had; all went well, or the saved device tree is not
\* one; the device tree cannot be saved.
StorageInit ==
    /\ pc = "init"
    /\ UNCHANGED <<stable, boot, dtbLoaded>>
    /\ \/ diskInited /\ AfterInit /\ UNCHANGED <<flashVars, diskInited>>
       \/ /\ ~diskInited /\ UNCHANGED diskInited
          /\ StoreInit("unsaved") \/ UNCHANGED flashVars
          /\ InitFailed
       \/ /\ ~diskInited /\ diskInited' = TRUE
          /\ StoreInit("new")
          /\ AfterInit \/ (dtbLoaded /\ InitFailed)
       \/ /\ ~diskInited /\ diskInited' = TRUE
          /\ dtbLoaded
          /\ StoreInit("part")
          /\ InitFailed

----------------------------------------------------------------------------
(* optimus_burn_one_partition, and optimus_burn_partition_image for the
   media partition. *)

Item == Head(todo)
BurningItem == pc = "burn" /\ todo # <<>> /\ Item \in Names

\* The item has no data left once the part before the first cluster end is
\* taken off, so the loop that burns it is not entered.
Skipped == Item \in cfg.small

\* Opening the item, its size, the partition's capacity.
BurnBegin ==
    /\ BurningItem
    /\ Item # "dtb"
    /\ UNCHANGED <<stable, env, boot, volatile>>
    /\ \/ Finish("fail") /\ UNCHANGED flash
       \/ Skipped /\ Goto("verify") /\ UNCHANGED flash
       \/ ~Skipped /\ Goto("write") /\ flash' = [flash EXCEPT ![Item] = "part"]

\* What a burn that reports no error leaves in the partition of n.  A sparse
\* image may lack fill chunks (ImgDownload!Losses).
BurnResults(n) == {"new", "bad"} \cup (IF n \in cfg.sparse THEN {"gaps"} ELSE {})

\* A failed media partition also closes the storage.
BurnEnd ==
    /\ pc = "write"
    /\ UNCHANGED <<stable, env, boot, dtbLoaded>>
    /\ \/ /\ Finish("fail")
          /\ diskInited' = (diskInited /\ Item # "media")
          /\ UNCHANGED flash
       \/ /\ Goto("verify")
          /\ \E r \in BurnResults(Item) : flash' = [flash EXCEPT ![Item] = r]
          /\ UNCHANGED diskInited

\* The bootloader is verified even when the recovery flow was told not to.
Verified(n) == n \in cfg.verify /\ n # "media" /\ (cfg.needVerify \/ n = "bootloader")

\* Mutant: the verification's result is not looked at.
VerifyPasses_Unasked(n) == TRUE

\* optimus_media_download_verify wants the image burned whole and the sum of
\* what the media hold to be that of the VERIFY item; of a fill chunk it reads
\* one word, so that one which was lost may go unnoticed.
VerifyPasses(n) == ~Verified(n) \/ (flash[n] \in {"new", "gaps"} /\ n \notin cfg.small)

VerifyPartition ==
    /\ pc = "verify"
    /\ UNCHANGED <<stable, flashVars, boot, volatile>>
    /\ \/ Verified(Item) /\ Finish("fail")
       \/ /\ VerifyPasses(Item)
          /\ pc' = "burn"
          /\ todo' = Tail(todo)
          /\ UNCHANGED <<report, done>>

\* The recovery flow loads and saves the device tree after the partitions.
SaveDtb ==
    /\ pc = "burn" /\ todo # <<>> /\ Item = "dtb"
    /\ dtbLoaded' = (dtbLoaded \/ cfg.dtb)
    /\ UNCHANGED <<stable, env, boot, diskInited>>
    /\ \/ cfg.dtb /\ Finish("fail") /\ UNCHANGED flash
       \/ dtbLoaded' /\ Return /\ flash' = [flash EXCEPT !["dtb"] = "part"]
       \/ /\ todo' = Tail(todo)
          /\ flash' = IF dtbLoaded' THEN [flash EXCEPT !["dtb"] = "new"] ELSE flash
          /\ UNCHANGED <<pc, report, done>>

\* optimus_sysrec_clear_usr_data_parts, whose result nobody looks at.
ClearUsrData ==
    /\ pc = "burn" /\ todo # <<>> /\ Item = "clear"
    /\ todo' = Tail(todo)
    /\ flash' \in {flash, [n \in Names |-> IF n = "data" THEN "none" ELSE flash[n]]}
    /\ UNCHANGED <<stable, env, boot, pc, volatile, report, done>>

\* Mutant: no sign for the next boot that the environment is an old one.
SavedEnv_AlwaysTwo == [owner |-> IF boot = "sd" THEN "new" ELSE "old", step |-> 2]

\* optimus_set_burn_complete_flag: the u-boot of the package saves its own
\* defaults, an older one saves what it has and leaves that to the next boot.
SavedEnv ==
    IF boot = "sd" THEN [owner |-> "new", step |-> 2]
                   ELSE [owner |-> "old", step |-> 1]

SetBurnCompleteFlag ==
    /\ pc = "burn"
    /\ todo = <<>>
    /\ UNCHANGED <<stable, flash, boot, volatile>>
    /\ \/ ~cfg.hasBootloader /\ Finish("ok") /\ UNCHANGED env
       \/ cfg.hasBootloader /\ Finish("ok") /\ env' = SavedEnv
       \/ cfg.hasBootloader /\ Finish("fail") /\ env' \in {env, NoEnv}

----------------------------------------------------------------------------

Step ==
    \/ PowerOn
    \/ BurnComplete
    \/ ParseIniCfgFile
    \/ EraseBootloader
    \/ OpenImage
    \/ StorageInit
    \/ BurnBegin
    \/ BurnEnd
    \/ VerifyPartition
    \/ SaveDtb
    \/ ClearUsrData
    \/ SetBurnCompleteFlag

PackageNext == Step \/ PowerCut \/ BurnCmd

\* A powered device runs on, and the operator switches it on again.
PackageFairness == WF_packageVars(Step)
PackageSpec == PackageInit /\ [][PackageNext]_packageVars /\ PackageFairness

----------------------------------------------------------------------------

Contents == {"old", "none", "part", "bad", "gaps", "new"}

\* The type of the state; a flow step is only reached with power.
PackageTypeOK ==
    /\ cfg \in Configs
    /\ flash \in [Names -> Contents]
    /\ env \in [owner : {"old", "none", "new"}, step : 0 .. 2]
    /\ boot \in {"off", "flash", "sd"}
    /\ pc \in {"off", "idle", "parse", "erase", "open", "init", "burn", "write",
               "verify", "success", "failed"}
    /\ (boot = "off") <=> (pc = "off")
    /\ todo \in Seq(Names \cup {"clear"})
    /\ diskInited \in BOOLEAN
    /\ dtbLoaded \in BOOLEAN
    /\ report \in {"none", "success", "failed"}
    /\ done \in BOOLEAN
    /\ cuts \in 0 .. MaxCuts

\* The partition holds what a burn that reported no error leaves there: the
\* item if it was verified, and at least something written otherwise.  The
\* items the loop of optimus_burn_one_partition never enters are exempt, and
\* so are the fill chunks of a sparse item, which neither the burn nor the
\* verification can vouch for.
Burned(n) ==
    \/ n \in cfg.small
    \/ flash[n] = "new"
    \/ flash[n] = "gaps" /\ n \in cfg.sparse
    \/ flash[n] = "bad" /\ ~Verified(n)

DataBurned == \A i \in DOMAIN PartsToBurn(cfg) : Burned(PartsToBurn(cfg)[i])

\* With erase_bootloader the old bootloader goes first and the new one comes
\* last (optimus_burn_with_cfg_file): wherever the power was cut, a device
\* whose flash holds the new bootloader has all its data partitions, and any
\* other one comes back to the card.
NewBootloaderHasData ==
    cfg.source = "sdmmc" /\ cfg.eraseBootloader /\ cfg.items # <<>>
      /\ flash["bootloader"] = "new" => DataBurned

\* A burn is reported as successful (optimus_report_burn_complete_sta) only
\* when every partition, the media image and the bootloader were burned and,
\* where the package has a sum for them, read back correctly; and nothing
\* between the report and the next boots undoes it.  The partition the
\* recovery flow clears for the first boot is exempt, and what Burned exempts.
SuccessIntact ==
    done => /\ cfg.items # <<>> =>
                 \A i \in DOMAIN PartsToBurn(cfg) :
                    \/ Burned(PartsToBurn(cfg)[i])
                    \/ cfg.source = "store" /\ PartsToBurn(cfg)[i] = "data"
            /\ cfg.hasBootloader => Burned("bootloader")
            /\ cfg.source = "sdmmc" /\ cfg.media => Burned("media")

\* After a successful burn the new u-boot never runs on an environment older
\* than itself: either the u-boot of the package saved its defaults, or
\* upgrade_step tells board_late_init to do so.
EnvFresh ==
    done /\ boot = "flash" /\ cfg.hasBootloader /\ pc = "idle" =>
      env.owner # "old"

\* A recovery that was interrupted can be started again: as long as the
\* flash has a bootloader, the recovery package is where it was
\* (get_burn_parts_from_img skips its partition).
RecoveryCanRestart ==
    cfg.source = "store" /\ Recovery \in Data /\ Bootable => flash[Recovery] = "old"

\* Once the old bootloader is erased, the device gets through the burn by
\* itself: it comes back from the card, whatever the number of power cuts,
\* until the burn succeeds, reports failure or returns to the prompt.
ErasedComesBack ==
    (flash["bootloader"] = "none" /\ pc = "off" /\ ~done)
      ~> (done \/ pc \in {"failed", "idle"})

(* The inductive invariant behind the properties above. *)

InSession == pc \in {"burn", "write", "verify"}
InTodo(n) == \E i \in DOMAIN todo : todo[i] = n
Wanted(n) == \E i \in DOMAIN Todo(cfg) : Todo(cfg)[i] = n

\* What is left to burn comes from the package, the bootloader at the end.
TodoInv ==
    InSession =>
      /\ \A i \in DOMAIN todo : Wanted(todo[i])
      /\ \A i \in DOMAIN todo : todo[i] = "bootloader" => i = Len(todo)
      /\ pc \in {"write", "verify"} => todo # <<>> /\ Item \in Names \ {"dtb"}
      /\ pc = "verify" => Item \in cfg.small \/ flash[Item] \in BurnResults(Item)

\* Burned, or cleared by the recovery flow afterwards.
Settled(n) == Burned(n) \/ (cfg.source = "store" /\ n = "data")

\* An item of the package is still to be burned or has been.
ProgressInv ==
    InSession => \A n \in Names \ {"dtb"} : Wanted(n) => InTodo(n) \/ Settled(n)

DoneInv ==
    done => /\ pc \in {"success", "off", "idle"}
            /\ \A n \in Names \ {"dtb"} : Wanted(n) => Settled(n)
            /\ cfg.hasBootloader =>
                 env.owner = "new" \/ (env.step = 1 /\ pc \in {"success", "off"})

\* With erase_bootloader everything is burned by the u-boot of the card, and
\* the flash has no valid bootloader until nothing else is left to burn.
CardInv ==
    cfg.source = "sdmmc" /\ cfg.eraseBootloader =>
      /\ InSession \/ pc \in {"open", "init"} => boot = "sd"
      /\ boot = "sd" /\ pc \in {"idle", "parse", "open", "init"} => ~Bootable
      /\ InSession /\ Bootable => \A i \in DOMAIN todo : todo[i] = "bootloader"

PackageInv ==
    /\ PackageTypeOK
    /\ TodoInv
    /\ ProgressInv
    /\ DoneInv
    /\ CardInv
    /\ NewBootloaderHasData
    /\ cfg.source = "store" /\ Recovery \in Data => flash[Recovery] = "old"

\* "flag, 0 is burn completed, else burn failed" (optimus_sdc_burn.c, 289):
\* when the burn is reported as completed, every data partition it was to
\* burn has been written.
CompletedIsWritten ==
    report = "success" /\ cfg.items # <<>> =>
      \A i \in DOMAIN PartsToBurn(cfg) : flash[PartsToBurn(cfg)[i]] # "old"
=============================================================================

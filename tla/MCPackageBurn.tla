--------------------------- MODULE MCPackageBurn ---------------------------
(* Packages for TLC: from the card with and without erasing, ini-selected
   parts, an item too small to be burned, no data items, and recovery. *)
EXTENDS PackageBurn

MCData == {"system", "data", "aml_sysrecovery"}

Card == [source |-> "sdmmc", items |-> <<"system", "data">>, burn_parts |-> <<>>,
         sparse |-> {"system"}, small |-> {}, verify |-> {"system", "bootloader"},
         hasBootloader |-> TRUE, dtb |-> TRUE, media |-> FALSE,
         needVerify |-> TRUE, eraseBootloader |-> TRUE, eraseFlash |-> FALSE]

Restore == [Card EXCEPT !.source = "store", !.eraseBootloader = FALSE,
                        !.items = <<"system", "aml_sysrecovery", "data">>]

MCConfigs ==
    { Card,
      [Card EXCEPT !.eraseFlash = TRUE, !.media = TRUE],
      [Card EXCEPT !.eraseBootloader = FALSE, !.verify = {}, !.dtb = FALSE],
      [Card EXCEPT !.burn_parts = <<"data">>, !.verify = {"data"}],
      [Card EXCEPT !.items = <<>>, !.eraseFlash = TRUE],
      [Card EXCEPT !.hasBootloader = FALSE],
      Restore,
      [Restore EXCEPT !.needVerify = FALSE, !.dtb = FALSE] }

SmallConfigs == { [Card EXCEPT !.small = {"data"}] }
=============================================================================

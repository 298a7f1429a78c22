-------------------------- MODULE MCMatterProduce --------------------------
(***************************************************************************)
(* Small instances of MatterProduce.                                       *)
(***************************************************************************)
EXTENDS MatterProduce

(* An item with nothing to package, a two-page image, a spreadsheet that may fail, *)
(* an item that cannot be read.                                                   *)
FourItems == <<{}, {"pdf", "txt"}, {"xls", "txt"}, {}>>
TwoPages == <<0, 2, 0, 0>>
MixedOutcomes == <<{"skipped"}, {"ok", "fatal"}, {"ok", "error"}, {"missing"}>>

(* Two natives of different kinds. *)
TwoItems == <<{"pdf"}, {"xls"}>>
NoPages == <<0, 0>>
AllOk == <<{"ok"}, {"ok"}>>

============================================================================

--------------------------- MODULE MatterProduce ---------------------------
(***************************************************************************)
(* The produce job (matter-produce/src/run.rs): it numbers the selected    *)
(* items, writes their files into a volume, and lists them in a load file. *)
(* Items are 1..N in the frozen order of the selection.  Its state is in   *)
(* four places that no transaction spans: production_items, the volume's   *)
(* files, DATA/rows.jsonl and the job's checkpoint.  The job may die       *)
(* between any two of those writes, and a reviewer may put an item on hold *)
(* or release it at any time.                                              *)
(*                                                                         *)
(* rewrite_rows_jsonl_excluding is one step here.  File contents are       *)
(* abstracted to the item they come from, and "tif" stands for the page    *)
(* images under IMAGES, which no native or text file shares a name with.   *)
(***************************************************************************)
EXTENDS Integers, FiniteSets

CONSTANTS
    N,              \* number of selected items
    Exts,           \* item -> the extensions of its native and text files
    Pages,          \* item -> its image pages; 0 for a native-only kind or outside the image profile
    Start,          \* bates_start
    Outcomes,       \* item -> how packaging it may end: "ok", "skipped", "error", "missing", "fatal"
    AbortChoices,   \* the values fail_if_withheld may have
    CrashPoints,    \* the places where the program may die or a store call may fail
    MaxStops,       \* bound: pauses, failures and crashes
    MaxHolds        \* bound: holds put on

VARIABLES
    abort,      \* params.fail_if_withheld
    withheld,   \* items with item_privilege.withhold = 1
    record,     \* item -> its production_items row
    pageRows,   \* item -> first number of its production_image_pages rows, 0 when it has none
    rows,       \* item -> control number of its line in rows.jsonl, 0 when it has none
    files,      \* the files of the volume
    load,       \* item -> control number of its line in load.dat, 0 when it has none
    status,     \* production_sets.status, "none" before the row exists
    cp,         \* the job's checkpoint
    run,        \* the memory of the running job
    stops, holds,   \* for the bounds
    held,       \* history: items on hold ever since the final sweep began
    lost,       \* history: some memory of the job was lost before it was checkpointed
    undone,     \* history: items a run was taking back for a hold when it died unsaved
    reopened    \* history: one of those was not on hold, then or later

produceVars == <<abort, withheld, record, pageRows, rows, files, load, status, cp, run, stops, holds, held, lost, undone, reopened>>

Items == 1..N

ASSUME ProduceAssumptions ==
    /\ N \in Nat \ {0} /\ Start \in Nat \ {0}
    /\ Pages \in [Items -> Nat]
    /\ \A i \in Items : Outcomes[i] \subseteq {"ok", "skipped", "error", "missing", "fatal"}
    /\ AbortChoices \subseteq BOOLEAN
    /\ \A i \in Items : "tif" \notin Exts[i]
    /\ CrashPoints \subseteq {"select", "setup", "sweep", "sweepPurged", "loop", "gatePurged",
                             "written", "persisted", "save", "load", "check"}
    /\ MaxStops \in Nat /\ MaxHolds \in Nat

(* The numbers an item takes: one for each page, or one. *)
Span(i) == IF Pages[i] >= 1 THEN Pages[i] ELSE 1
Numbers(i, seq) == seq..(seq + Span(i) - 1)

(* What packaging item i under control number seq writes. *)
Images(i, seq) == {[seq |-> seq + p, ext |-> "tif", item |-> i] : p \in 0..(Pages[i] - 1)}
Artifacts(i, seq) == {[seq |-> seq, ext |-> e, item |-> i] : e \in Exts[i]} \cup Images(i, seq)

(* cleanup_control_artifacts, and with the images of the numbers ns. *)
ControlFiles(seq) == {f \in files : f.ext # "tif" /\ f.seq = seq}
ImageFiles(ns) == {f \in files : f.ext = "tif" /\ f.seq \in ns}

NoRecord == [status |-> "none", seq |-> 0]
FreshCursor == [phase |-> "select", index |-> 0, next |-> Start, done |-> {},
                count |-> [produced |-> 0, withheld |-> 0, other |-> 0, error |-> 0]]
Stopped == [pc |-> "stopped", cursor |-> FreshCursor, at |-> 0, seq |-> 0]
Begun(pc, c) == [pc |-> pc, cursor |-> c, at |-> 1, seq |-> 0]

ProduceInit ==
    /\ abort \in AbortChoices
    /\ withheld = {}
    /\ record = [i \in Items |-> NoRecord]
    /\ pageRows = [i \in Items |-> 0]
    /\ rows = [i \in Items |-> 0]
    /\ files = {}
    /\ load = [i \in Items |-> 0]
    /\ status = "none"
    /\ cp = FreshCursor
    /\ run = Begun("select", FreshCursor)
    /\ stops = 0 /\ holds = 0
    /\ held = {} /\ lost = FALSE /\ undone = {} /\ reopened = FALSE

Interrupt == stops < MaxStops /\ stops' = stops + 1

(* The run goes on at pc with the cursor c in memory. *)
Go(pc, c) == run' = [run EXCEPT !.pc = pc, !.cursor = c]
cur == run.cursor

(* What the run had taken back for a hold, and has not saved. *)
TakingBack ==
    {i \in cur.done \ cp.done : record[i].status = "withheld"}
    \cup (IF run.pc = "sweepPurged" THEN {run.at} ELSE {})

(* A run that ends without having saved its cursor. *)
Fail(s) ==
    /\ run' = Stopped
    /\ status' = s
    /\ lost' = TRUE
    /\ undone' = undone \cup TakingBack
    /\ reopened' = (reopened \/ ~(TakingBack \subseteq withheld))

-----------------------------------------------------------------------------
(* Start, resume, selection. *)

(* Mutant: a resumed finalize writes the load file at once. *)
Run_noSweep ==
    /\ run.pc = "stopped"
    /\ cp.phase # "select"
    /\ run' = Begun(CASE cp.phase = "setup" -> "setup"
                      [] cp.phase = "work" -> "sweep"
                      [] cp.phase = "finalize" -> "load"
                      [] cp.phase = "done" -> "ended", cp)
    /\ held' = IF cp.phase = "finalize" THEN withheld ELSE held
    /\ UNCHANGED <<abort, withheld, pageRows, record, rows, files, load, status, cp, stops, holds, lost, undone, reopened>>

(* The checkpoint has the parameters; later phases resume where they were. *)
Run ==
    /\ run.pc = "stopped"
    /\ cp.phase # "select"
    /\ run' = Begun(CASE cp.phase = "setup" -> "setup"
                      [] cp.phase \in {"work", "finalize"} -> "sweep"
                      [] cp.phase = "done" -> "ended", cp)
    /\ held' = IF cp.phase = "finalize" THEN withheld ELSE held
    /\ UNCHANGED <<abort, withheld, pageRows, record, rows, files, load, status, cp, stops, holds, lost, undone, reopened>>

(* A job without a checkpoint has no parameters either: load_resume_params gives "{}", and   *)
(* without bates_start it fails as it was.  Only a workflow that passes the parameters again *)
(* runs it again.                                                                            *)
Rerun ==
    /\ run.pc = "stopped"
    /\ cp.phase = "select"
    /\ run' = Begun("select", cp)
    /\ UNCHANGED <<abort, withheld, pageRows, record, rows, files, load, status, cp, stops, holds, held, lost, undone, reopened>>

(* The selection is frozen in the checkpoint. *)
Select ==
    /\ run.pc = "select"
    /\ cp' = [cur EXCEPT !.phase = "setup"]
    /\ Go("setup", cp')
    /\ UNCHANGED <<abort, withheld, pageRows, record, rows, files, load, status, stops, holds, held, lost, undone, reopened>>

(* Nothing selected, or the QC gate refuses. *)
Refuse ==
    /\ run.pc = "select"
    /\ Interrupt
    /\ run' = Stopped
    /\ UNCHANGED <<abort, withheld, pageRows, record, rows, files, load, status, cp, holds, held, lost, undone, reopened>>

(* create_production_set and the checkpoint: a row without one is never looked at again. *)
Setup ==
    /\ run.pc = "setup"
    /\ ~(abort /\ withheld # {})
    /\ status' = "running"
    /\ cp' = [cur EXCEPT !.phase = "work"]
    /\ Go("sweep", cp')
    /\ UNCHANGED <<abort, withheld, pageRows, record, rows, files, load, stops, holds, held, lost, undone, reopened>>

SetupAbort ==
    /\ run.pc = "setup"
    /\ abort /\ withheld # {}
    /\ run' = Stopped
    /\ UNCHANGED <<abort, withheld, pageRows, record, rows, files, load, status, cp, stops, holds, held, lost, undone, reopened>>

-----------------------------------------------------------------------------
(* apply_late_withhold_sweep: before the work of a run and before the load file is written. *)

Sweeping == run.pc = "sweep" /\ run.at <= N

SweepPass ==
    /\ Sweeping
    /\ run.at \notin withheld
    /\ run' = [run EXCEPT !.at = @ + 1]
    /\ UNCHANGED <<abort, withheld, pageRows, record, rows, files, load, status, cp, stops, holds, held, lost, undone, reopened>>

(* The page numbers purge_item_image_artifacts looks for: those of the page rows, and the *)
(* span of the production_items row, which has an end only when the item was produced.    *)
PageNumbers(i) ==
    (IF pageRows[i] # 0 THEN Numbers(i, pageRows[i]) ELSE {})
    \cup (IF record[i].status = "ok" THEN Numbers(i, record[i].seq) ELSE {record[i].seq})

(* Mutant: only what rows.jsonl says is purged. *)
PurgedFiles_byRow(i) == ControlFiles(rows[i]) \cup ImageFiles(Numbers(i, rows[i]))

(* purge_withheld_item_artifacts: found through the line in rows.jsonl and the production_items row. *)
PurgedFiles(i) == ControlFiles(rows[i]) \cup ControlFiles(record[i].seq) \cup ImageFiles(PageNumbers(i))

Purge(i) ==
    /\ files' = files \ PurgedFiles(i)
    /\ pageRows' = [pageRows EXCEPT ![i] = 0]

SweepPurge ==
    /\ Sweeping
    /\ run.at \in withheld
    /\ Purge(run.at)
    /\ Go("sweepPurged", cur)
    /\ UNCHANGED <<abort, withheld, record, rows, load, status, cp, stops, holds, held, lost, undone, reopened>>

SweepAbort ==
    /\ run.pc = "sweepPurged"
    /\ abort
    /\ rows' = [rows EXCEPT ![run.at] = 0]
    /\ Fail("failed")
    /\ UNCHANGED <<abort, withheld, pageRows, record, files, load, cp, stops, holds, held>>

(* The row of a withheld item; it is counted only if it was not there before. *)
RecordWithheld(i) == record' = [record EXCEPT ![i] = [status |-> "withheld", seq |-> 0]]
CountWithheld(i) == IF record[i].status = "withheld" THEN 0 ELSE 1

(* Mutant: a late hold leaves the produced count alone. *)
Uncounted_kept(i) == 0

(* An item that was packaged is not produced any more. *)
Uncounted(i) ==
    IF (rows[i] # 0 \/ record[i].status = "ok") /\ cur.count.produced > 0 THEN 1 ELSE 0

SweepRecord ==
    /\ run.pc = "sweepPurged"
    /\ ~abort
    /\ LET i == run.at IN
        /\ rows' = [rows EXCEPT ![i] = 0]
        /\ RecordWithheld(i)
        /\ run' = [run EXCEPT !.pc = "sweep", !.at = @ + 1,
                    !.cursor.done = @ \cup {i},
                    !.cursor.count.produced = @ - Uncounted(i),
                    !.cursor.count.withheld = @ + CountWithheld(i)]
    /\ UNCHANGED <<abort, withheld, pageRows, files, load, status, cp, stops, holds, held, lost, undone, reopened>>

SweepEnd ==
    /\ run.pc = "sweep"
    /\ run.at > N
    /\ Go(IF cur.phase = "work" THEN "loop" ELSE "load", cur)
    /\ UNCHANGED <<abort, withheld, pageRows, record, rows, files, load, status, cp, stops, holds, held, lost, undone, reopened>>

-----------------------------------------------------------------------------
(* The work loop. *)

Item == cur.index + 1
Working == run.pc = "loop" /\ cur.index < N
Due == Working /\ Item \notin cur.done

(* The item is done; the cursor moves past it. *)
Advance(c) == [c EXCEPT !.index = @ + 1, !.done = @ \cup {Item}]

(* Mutant: the next number follows the first number of the span. *)
NextAfter_first(i, seq) == IF seq + 1 > cur.next THEN seq + 1 ELSE cur.next

(* advance_next_seq_for_control, with the end of the span. *)
NextAfter(i, seq) == IF seq + Span(i) > cur.next THEN seq + Span(i) ELSE cur.next

Pause ==
    /\ Working
    /\ Interrupt
    /\ status' = "partial"
    /\ cp' = cur
    /\ run' = Stopped
    /\ UNCHANGED <<abort, withheld, pageRows, record, rows, files, load, holds, held, lost, undone, reopened>>

SkipDone ==
    /\ Working
    /\ Item \in cur.done
    /\ Go("loop", [cur EXCEPT !.index = @ + 1])
    /\ UNCHANGED <<abort, withheld, pageRows, record, rows, files, load, status, cp, stops, holds, held, lost, undone, reopened>>

(* The withhold gate, before any recovery. *)
Gate ==
    /\ Due
    /\ Item \in withheld
    /\ Purge(Item)
    /\ Go("gatePurged", cur)
    /\ UNCHANGED <<abort, withheld, record, rows, load, status, cp, stops, holds, held, lost, undone, reopened>>

GateAbort ==
    /\ run.pc = "gatePurged"
    /\ abort
    /\ rows' = [rows EXCEPT ![Item] = 0]
    /\ Fail("failed")
    /\ UNCHANGED <<abort, withheld, pageRows, record, files, load, cp, stops, holds, held>>

(* The item is skipped as withheld: shared by the gate and the check after packaging. *)
SkipWithheld ==
    /\ RecordWithheld(Item)
    /\ Go("save", Advance([cur EXCEPT !.count.withheld = @ + CountWithheld(Item)]))

GateRecord ==
    /\ run.pc = "gatePurged"
    /\ ~abort
    /\ rows' = [rows EXCEPT ![Item] = 0]
    /\ SkipWithheld
    /\ UNCHANGED <<abort, withheld, pageRows, files, load, status, cp, stops, holds, held, lost, undone, reopened>>

(* Mutant: the line is believed. *)
Intact_rowOnly(i) == rows[i] # 0

(* recovered_artifacts_valid and recovered_image_pages_complete, which in the image profile *)
(* packages an item without a native payload again.                                         *)
Intact(i) ==
    /\ rows[i] # 0
    /\ Artifacts(i, rows[i]) \subseteq files
    /\ Pages[i] >= 1 => pageRows[i] # 0

(* A number the checkpoint has not passed was not counted yet. *)
CountRecovered(i) == IF rows[i] >= cur.next THEN 1 ELSE 0

(* recover_done_from_existing_row *)
Recover ==
    /\ Due
    /\ Item \notin withheld
    /\ Intact(Item)
    /\ Go("save", Advance([cur EXCEPT !.next = NextAfter(Item, rows[Item]),
                            !.count.produced = @ + CountRecovered(Item)]))
    /\ UNCHANGED <<abort, withheld, pageRows, record, rows, files, load, status, cp, stops, holds, held, lost, undone, reopened>>

(* An item to package: a stale line and its files go first. *)
Packaging ==
    /\ Due
    /\ Item \notin withheld
    /\ ~Intact(Item)
    /\ rows' = [rows EXCEPT ![Item] = 0]

FreshFiles == files \ (Artifacts(Item, rows[Item]) \ Images(Item, rows[Item]))

(* A number recorded with status ok is used again. *)
Assigned == IF record[Item].status = "ok" THEN record[Item].seq ELSE cur.next
Numbered == [cur EXCEPT !.next = NextAfter(Item, Assigned)]

(* A file replaces the one of the same name. *)
Overwrite(old, new) ==
    {f \in old : ~\E g \in new : g.seq = f.seq /\ g.ext = f.ext} \cup new

Produce ==
    /\ Packaging
    /\ "ok" \in Outcomes[Item]
    /\ files' = Overwrite(FreshFiles, Artifacts(Item, Assigned))
    /\ run' = [run EXCEPT !.pc = "written", !.seq = Assigned, !.cursor = Numbered]
    /\ UNCHANGED <<abort, withheld, pageRows, record, load, status, cp, stops, holds, held, lost, undone, reopened>>

(* The unique index on control_number: another item's row has the number n. *)
Taken(n) == n # 0 /\ \E j \in Items : j # Item /\ record[j].seq = n

(* Nothing to package, or packaging failed and what it wrote was removed; the number is spent. *)
Decline ==
    /\ Packaging
    /\ ~Taken(Assigned)
    /\ \E o \in Outcomes[Item] \cap {"skipped", "error"} :
        /\ record' = [record EXCEPT ![Item] = [status |-> o, seq |-> Assigned]]
        /\ files' = IF o = "error" THEN FreshFiles \ ControlFiles(Assigned) ELSE FreshFiles
        /\ Go("save", Advance(IF o = "error"
                              THEN [Numbered EXCEPT !.count.error = @ + 1]
                              ELSE [Numbered EXCEPT !.count.other = @ + 1]))
    /\ status' = "running"
    /\ UNCHANGED <<abort, withheld, pageRows, load, cp, stops, holds, held, lost, undone, reopened>>

(* get_item fails: no number is spent. *)
Unreadable ==
    /\ Packaging
    /\ "missing" \in Outcomes[Item]
    /\ record' = [record EXCEPT ![Item] = [status |-> "error", seq |-> 0]]
    /\ files' = FreshFiles
    /\ Go("save", Advance([cur EXCEPT !.count.error = @ + 1]))
    /\ UNCHANGED <<abort, withheld, pageRows, load, status, cp, stops, holds, held, lost, undone, reopened>>

(* The image profile: pages that cannot be encoded, or before any number was given cannot *)
(* be counted, fail the job.                                                              *)
PackagingFails ==
    /\ Packaging
    /\ "fatal" \in Outcomes[Item]
    /\ Interrupt
    /\ \E s \in {Assigned} \cup (IF record[Item].status = "ok" THEN {} ELSE {0}) :
        /\ ~Taken(s)
        /\ record' = [record EXCEPT ![Item] = [status |-> "error", seq |-> s]]
        /\ files' = FreshFiles \ ControlFiles(s)
    /\ Fail("failed")
    /\ UNCHANGED <<abort, withheld, pageRows, load, cp, holds, held>>

(* The hold is looked at again after the files are written. *)
RecheckAbort ==
    /\ run.pc = "written"
    /\ Item \in withheld
    /\ abort
    /\ files' = files \ (ControlFiles(run.seq) \cup Images(Item, run.seq))
    /\ Fail("failed")
    /\ UNCHANGED <<abort, withheld, pageRows, record, rows, load, cp, stops, holds, held>>

RecheckWithheld ==
    /\ run.pc = "written"
    /\ Item \in withheld
    /\ ~abort
    /\ files' = files \ (ControlFiles(run.seq) \cup Images(Item, run.seq))
    /\ SkipWithheld
    /\ UNCHANGED <<abort, withheld, pageRows, rows, load, status, cp, stops, holds, held, lost, undone, reopened>>

(* persist_ok_item_and_pages: one transaction. *)
Persist ==
    /\ run.pc = "written"
    /\ Item \notin withheld
    /\ ~Taken(run.seq)
    /\ record' = [record EXCEPT ![Item] = [status |-> "ok", seq |-> run.seq]]
    /\ pageRows' = IF Pages[Item] >= 1 THEN [pageRows EXCEPT ![Item] = run.seq] ELSE pageRows
    /\ Go("persisted", cur)
    /\ UNCHANGED <<abort, withheld, rows, files, load, status, cp, stops, holds, held, lost, undone, reopened>>

(* The index refuses the row, of a produced item or of another: the job fails. *)
RefusePersist ==
    /\ run.pc = "written"
    /\ Item \notin withheld
    /\ Taken(run.seq)
    /\ Fail("failed")
    /\ UNCHANGED <<abort, withheld, pageRows, record, rows, files, load, cp, stops, holds, held>>

RefuseRecord ==
    /\ Packaging
    /\ Taken(Assigned)
    /\ \E o \in Outcomes[Item] \cap {"skipped", "error", "fatal"} :
        files' = IF o = "skipped" THEN FreshFiles ELSE FreshFiles \ ControlFiles(Assigned)
    /\ Fail("failed")
    /\ UNCHANGED <<abort, withheld, pageRows, record, load, cp, stops, holds, held>>

(* append_row_json *)
AppendRow ==
    /\ run.pc = "persisted"
    /\ rows' = [rows EXCEPT ![Item] = run.seq]
    /\ status' = "running"
    /\ Go("save", Advance([cur EXCEPT !.count.produced = @ + 1]))
    /\ UNCHANGED <<abort, withheld, pageRows, record, files, load, cp, stops, holds, held, lost, undone, reopened>>

(* save_checkpoint; after the last one the side file is removed. *)
Save ==
    /\ run.pc = "save"
    /\ cp' = cur
    /\ Go(IF cur.phase = "done" THEN "ended" ELSE "loop", cur)
    /\ rows' = IF cur.phase = "done" THEN [i \in Items |-> 0] ELSE rows
    /\ UNCHANGED <<abort, withheld, pageRows, record, files, load, status, stops, holds, held, lost, undone, reopened>>

FinishWork ==
    /\ run.pc = "loop"
    /\ cur.index = N
    /\ cp' = [cur EXCEPT !.phase = "finalize"]
    /\ run' = [run EXCEPT !.pc = "sweep", !.at = 1, !.cursor = cp']
    /\ held' = withheld
    /\ UNCHANGED <<abort, withheld, pageRows, record, rows, files, load, status, stops, holds, lost, undone, reopened>>

-----------------------------------------------------------------------------
(* finalize_volume, after its sweep. *)

WriteLoad ==
    /\ run.pc = "load"
    /\ load' = rows
    /\ Go("check", cur)
    /\ UNCHANGED <<abort, withheld, pageRows, record, rows, files, status, cp, stops, holds, held, lost, undone, reopened>>

(* check_image_fail_closed: a page of a produced item is on hold by now, or missing; *)
(* whatever it cannot match up fails the job.                                        *)
ImageMismatch ==
    \E i \in Items :
        /\ record[i].status = "ok" /\ Pages[i] >= 1
        /\ i \in withheld \/ pageRows[i] = 0 \/ ~(Images(i, pageRows[i]) \subseteq files)

FailImages ==
    /\ run.pc = "check"
    /\ ImageMismatch
    /\ Fail("failed")
    /\ UNCHANGED <<abort, withheld, pageRows, record, rows, files, load, cp, stops, holds, held>>

Complete ==
    /\ run.pc = "check"
    /\ ~ImageMismatch
    /\ status' = IF cur.count.error + cur.count.other > 0 THEN "complete_with_errors" ELSE "complete"
    /\ Go("save", [cur EXCEPT !.phase = "done"])
    /\ UNCHANGED <<abort, withheld, pageRows, record, rows, files, load, cp, stops, holds, held, lost, undone, reopened>>

-----------------------------------------------------------------------------
(* Reviewers and faults. *)

(* A claim with withhold is asserted. *)
Hold(i) ==
    /\ holds < MaxHolds
    /\ run.pc # "ended"
    /\ i \notin withheld
    /\ holds' = holds + 1
    /\ withheld' = withheld \cup {i}
    /\ UNCHANGED <<abort, pageRows, record, rows, files, load, status, cp, run, stops, held, lost, undone, reopened>>

(* The claim is cleared. *)
Release(i) ==
    /\ run.pc # "ended"
    /\ i \in withheld
    /\ withheld' = withheld \ {i}
    /\ held' = held \ {i}
    /\ reopened' = (reopened \/ i \in undone)
    /\ UNCHANGED <<abort, pageRows, record, rows, files, load, status, cp, run, stops, holds, lost, undone>>

(* The program dies, or a call fails and mark_failed_from_checkpoint runs.  Files of items *)
(* that no checkpoint says are done may not have reached the disk.                         *)
Unsynced == {f \in files : f.item \notin cp.done}

Crash ==
    /\ run.pc \in CrashPoints
    /\ Interrupt
    /\ files' \in {files, files \ Unsynced}
    /\ \E s \in {status} \cup (IF cp.phase \in {"work", "finalize"} THEN {"failed"} ELSE {}) : Fail(s)
    /\ UNCHANGED <<abort, withheld, pageRows, record, rows, load, cp, holds, held>>

Work ==
    \/ SkipDone \/ Gate \/ GateRecord \/ Recover \/ Produce \/ Decline \/ Unreadable
    \/ RecheckWithheld \/ Persist \/ AppendRow \/ Save \/ FinishWork

Sweep == SweepPass \/ SweepPurge \/ SweepRecord \/ SweepEnd

Aborts == SetupAbort \/ SweepAbort \/ GateAbort \/ RecheckAbort
Refusals == RefusePersist \/ RefuseRecord

Progress ==
    Run \/ Select \/ Setup \/ Sweep \/ Work \/ WriteLoad \/ FailImages \/ Complete \/ Aborts \/ Refusals

ProduceNext ==
    \/ Progress
    \/ Rerun \/ Refuse \/ Pause \/ PackagingFails \/ Crash
    \/ \E i \in Items : Hold(i) \/ Release(i)

ProduceSpec == ProduceInit /\ [][ProduceNext]_produceVars /\ WF_produceVars(Progress)

-----------------------------------------------------------------------------
Ended == run.pc = "ended"
Listed == {i \in Items : load[i] # 0}

(* Unless a hold is lifted that a run acted on and died before it could save   *)
(* so, no two items of a production ever share a number of their spans, nor    *)
(* two lines of rows.jsonl, whatever was committed when the program died; the  *)
(* number an item is packaged under overlaps no other, so that the unique      *)
(* index on control_number never refuses its row.                              *)
ControlsNeverShared ==
    ~reopened =>
        /\ \A i, j \in Items : i # j =>
            /\ record[i].seq # 0 /\ record[j].seq # 0 =>
                Numbers(i, record[i].seq) \cap Numbers(j, record[j].seq) = {}
            /\ rows[i] # 0 => rows[i] # rows[j]
        /\ run.pc = "written" =>
            \A j \in Items : j # Item /\ record[j].seq # 0 =>
                Numbers(Item, run.seq) \cap Numbers(j, record[j].seq) = {}

(* The load file of a finished production lists exactly the items that         *)
(* production_items says were produced, under the same numbers, and every      *)
(* listed item has its files in the volume.  The exception is again a hold     *)
(* lifted after a run had purged the item for it and died: the line is still   *)
(* in rows.jsonl and no sweep looks at the item again.                         *)
LoadFileIsExact ==
    Ended /\ ~abort /\ ~reopened =>
        /\ \A i \in Items : load[i] = IF record[i].status = "ok" THEN record[i].seq ELSE 0
        /\ \A i \in Listed : Artifacts(i, load[i]) \subseteq files

(* An item on hold since before finalize_volume has neither a line in the load *)
(* file nor a file in the volume, whenever the hold came and whatever had been *)
(* written for the item before; with the exception of ControlsNeverShared,     *)
(* where the files of a refused row stay behind.                               *)
NoWithheldBytes ==
    Ended /\ ~reopened =>
        \A i \in held : load[i] = 0 /\ ~\E f \in files : f.item = i

(* Over pauses, resumes and late holds, as long as no run was cut short, the   *)
(* summary counts as produced the items of the load file and as withheld the   *)
(* items that were skipped or taken back for a hold, each once.                *)
CountsMatchVolume ==
    Ended /\ ~lost =>
        /\ cur.count.produced = Cardinality(Listed)
        /\ cur.count.withheld = Cardinality({i \in Items : record[i].status = "withheld"})

(* Unless it is to abort on a hold, a production that has frozen its selection *)
(* comes to an end when it is resumed, whatever state a pause, a crash or a    *)
(* failed image check left behind; the exception is that of                    *)
(* ControlsNeverShared, where the index may refuse the same row every time.    *)
ProductionEnds == abort \/ <>reopened \/ (cp.phase # "select" ~> Ended)

============================================================================

------------------------ MODULE MatterProduce_proofs ------------------------
(***************************************************************************)
(* Proofs about the produce job.  The control numbers rest on an invariant *)
(* that compares three places: the production_items and page rows, the     *)
(* checkpoint, and the cursor in memory.  What the checkpoint says is done *)
(* lies below its next number; at most one other item has a number, which  *)
(* is exactly that next number; and every item before that one is done or  *)
(* on hold, as it was when a run that died had taken it back.              *)
(***************************************************************************)
EXTENDS MatterProduce, FiniteSetTheorems, TLAPS

-----------------------------------------------------------------------------
(* Types and the places of the program. *)

RecordStatus == {"none", "ok", "skipped", "error", "withheld"}
Phases == {"select", "setup", "work", "finalize", "done"}
Counts == [produced : Nat, withheld : Nat, other : Nat, error : Nat]
Cursors == [phase : Phases, index : 0..N, next : Nat, done : SUBSET Items, count : Counts]
Places == {"stopped", "select", "setup", "sweep", "sweepPurged", "loop", "gatePurged",
           "written", "persisted", "save", "load", "check", "ended"}

ProduceTypeOK ==
    /\ abort \in BOOLEAN
    /\ withheld \subseteq Items
    /\ record \in [Items -> [status : RecordStatus, seq : Nat]]
    /\ pageRows \in [Items -> Nat]
    /\ rows \in [Items -> Nat]
    /\ load \in [Items -> Nat]
    /\ cp \in Cursors
    /\ run \in [pc : Places, cursor : Cursors, at : Nat, seq : Nat]
    /\ held \subseteq Items
    /\ lost \in BOOLEAN

(* Which cursor the program can have in memory at each of its places. *)
PlaceOK ==
    /\ run.pc = "stopped" => run = Stopped /\ cp.phase # "done"
    /\ run.pc \in {"select", "setup"} => cur = cp /\ cp.phase = run.pc /\ run.at = 1
    /\ run.pc \in {"sweep", "sweepPurged"} =>
        cur.phase = cp.phase /\ cp.phase \in {"work", "finalize"} /\ run.at \in 1..(N + 1)
    /\ run.pc = "sweepPurged" => run.at \in Items
    /\ run.pc \in {"loop", "gatePurged", "written", "persisted"} =>
        cur.phase = "work" /\ cp.phase = "work"
    /\ run.pc \in {"gatePurged", "written", "persisted"} => cur.index < N /\ Item \notin cur.done
    /\ run.pc = "save" =>
        \/ cur.phase = "work" /\ cp.phase = "work" /\ cur.index >= 1
        \/ cur.phase = "done" /\ cp.phase = "finalize"
    /\ run.pc \in {"load", "check"} => cur.phase = "finalize" /\ cp.phase = "finalize"
    /\ run.pc = "ended" => cur = cp /\ cp.phase = "done"

(* The items before the index are done, all of them once the work is finished. *)
IndexOK(c) ==
    /\ \A k \in Items : k <= c.index => k \in c.done
    /\ c.phase \in {"select", "setup"} => c.done = {}
    /\ c.phase \in {"finalize", "done"} => c.index = N

-----------------------------------------------------------------------------
(* The numbers. *)

(* The numbers the database has for an item.  The page rows of an item that get_item may *)
(* fail to return are left out: they outlive its number.                                 *)
PageKnown(i) == IF "missing" \in Outcomes[i] THEN 0 ELSE pageRows[i]
Known(i) == {record[i].seq, PageKnown(i)} \ {0}

(* What a run that died had taken back: still on hold, unless reopened. *)
Firm(k) == k \in undone

(* Below the next number of the checkpoint, or at it. *)
NumbersOK ==
    /\ cp.next >= 1
    /\ \A i \in cp.done : \A s \in Known(i) : s + Span(i) <= cp.next
    /\ \A i \in Items \ cp.done : \A s \in Known(i) :
        /\ s = cp.next
        /\ \A k \in Items : k < i =>
            \/ k \in cp.done \/ Firm(k)
            \/ run.pc \in {"persisted", "save"} /\ k \in cur.done
    /\ \A i, j \in Items \ cp.done : Known(i) # {} /\ Known(j) # {} => i = j
    /\ \A i, j \in cp.done : i # j =>
        \A s \in Known(i), t \in Known(j) : Numbers(i, s) \cap Numbers(j, t) = {}

(* No item but the ones the cursor has passed has a number. *)
NoneBeyond == \A i \in Items \ cur.done : Known(i) = {}
NoneButItem == \A i \in Items \ cur.done : i # Item => Known(i) = {}

(* The cursor in memory against the checkpoint. *)
CursorOK ==
    /\ run.pc # "stopped" => cp.done \subseteq cur.done
    /\ \A i \in cur.done \ cp.done :
        \/ Known(i) = {} /\ record[i].status = "withheld"
        \/ run.pc = "save" /\ i = cur.index
    /\ run.pc \in {"sweep", "sweepPurged", "loop", "gatePurged", "load", "check"} => cur.next = cp.next
    /\ run.pc = "sweepPurged" => pageRows[run.at] = 0
    /\ run.pc = "gatePurged" => pageRows[Item] = 0
    /\ run.pc \in {"written", "persisted"} =>
        run.seq = cp.next /\ cur.next = cp.next + Span(Item) /\ NoneButItem /\ rows[Item] = 0
    /\ run.pc = "persisted" => record[Item] = [status |-> "ok", seq |-> run.seq]
    /\ run.pc = "save" =>
        /\ cp.next <= cur.next
        /\ \A s \in Known(cur.index) : s + Span(cur.index) <= cur.next
        /\ NoneBeyond \/ (cur.next = cp.next /\ record[cur.index].status = "withheld")

(* A line of rows.jsonl is that of an item recorded as produced, under a number. *)
RowsOK ==
    \A i \in Items :
        /\ rows[i] # 0 => record[i] = [status |-> "ok", seq |-> rows[i]]
        /\ record[i].status = "ok" => record[i].seq # 0

(* What a run that died was taking back is still on hold. *)
UndoneOK == undone \subseteq withheld

NumberInv ==
    ProduceTypeOK /\ PlaceOK /\ IndexOK(cp) /\ IndexOK(cur) /\ NumbersOK /\ CursorOK /\ RowsOK /\ UndoneOK

-----------------------------------------------------------------------------
(* The files. *)

(* The files of the items that are done, unless a firm hold is to be swept or is being swept. *)
Swept(i) ==
    \/ run.pc = "sweepPurged" /\ i = run.at
    \/ Firm(i) /\ (run.pc = "stopped" \/ (run.pc \in {"sweep", "sweepPurged"} /\ run.at <= i))

Delivered(i) ==
    record[i].status = "ok" => rows[i] = record[i].seq /\ Artifacts(i, record[i].seq) \subseteq files

(* Items that cannot be read have never been packaged. *)
ReadOK ==
    /\ \A i \in Items : "missing" \in Outcomes[i] => record[i].status # "ok" /\ pageRows[i] = 0
    /\ run.pc \in {"written", "persisted"} => "missing" \notin Outcomes[Item]

DoneDelivered ==
    ~abort => \A i \in cp.done \cup cur.done : Delivered(i) \/ Swept(i) \/ run.pc = "ended"

WrittenThere == run.pc \in {"written", "persisted"} => Artifacts(Item, run.seq) \subseteq files

LoadMatches ==
    ~abort /\ (run.pc = "check" \/ cur.phase = "done") =>
        \A i \in Items :
            /\ load[i] = IF record[i].status = "ok" THEN record[i].seq ELSE 0
            /\ record[i].status = "ok" => Artifacts(i, record[i].seq) \subseteq files

VolumeOK == DoneDelivered /\ WrittenThere /\ LoadMatches

(* Every file can be found through the database, or is the one being written. *)
Reachable(f) ==
    LET i == f.item IN
    \/ /\ f.ext # "tif"
       /\ f.seq = record[i].seq /\ record[i].status \in {"ok", "skipped"}
    \/ f.ext = "tif" /\ pageRows[i] # 0 /\ f.seq \in Numbers(i, pageRows[i])
    \/ run.pc = "written" /\ i = Item /\ f \in Artifacts(i, run.seq)

NoFiles(i) == \A f \in files : f.item # i

FilesOK ==
    /\ \A f \in files : f.item \in Items /\ f.seq \in Nat \ {0} /\ Reachable(f)
    /\ \A i \in Items : /\ "missing" \in Outcomes[i] => NoFiles(i)
                        /\ record[i].status = "skipped" => "skipped" \in Outcomes[i]
    /\ run.pc = "sweepPurged" => NoFiles(run.at)
    /\ run.pc = "gatePurged" => NoFiles(Item)

(* What the final sweep has passed. *)
HeldOK ==
    /\ cur.phase = "finalize" => held \subseteq withheld
    /\ cur.phase = "finalize" /\ run.pc \in {"sweep", "sweepPurged"} =>
        \A i \in held : i < run.at => rows[i] = 0 /\ NoFiles(i)
    /\ run.pc \in {"load", "check"} \/ cur.phase = "done" =>
        \A i \in held : rows[i] = 0 /\ NoFiles(i)
    /\ run.pc = "check" \/ cur.phase = "done" => \A i \in held : load[i] = 0

-----------------------------------------------------------------------------
(* The counts. *)

Produced == {i \in Items : record[i].status = "ok"}
TakenBack == {i \in Items : record[i].status = "withheld"}

(* The cursor the next step counts on. *)
Kept == IF run.pc = "stopped" THEN cp ELSE cur

(* What is done was counted, what is not done has left no trace. *)
CountOK ==
    /\ \A i \in Items \ Kept.done :
        rows[i] = 0 /\ (record[i] = NoRecord \/ (run.pc = "persisted" /\ i = Item))
    /\ \A i \in Kept.done : run.pc # "ended" => (rows[i] # 0 <=> record[i].status = "ok")
    /\ run.pc = "persisted" => record[Item].status = "ok"
    /\ Kept.count.produced = Cardinality(Produced \cap Kept.done)
    /\ Kept.count.withheld = Cardinality(TakenBack)

ListOK ==
    /\ run.pc = "check" => load = rows
    /\ Kept.phase = "done" => \A i \in Items : load[i] # 0 <=> record[i].status = "ok"

(* Numbers that are given are not 0. *)
PositiveOK ==
    /\ cp.next >= 1 /\ cur.next >= 1
    /\ run.pc \in {"written", "persisted"} => run.seq >= 1
    /\ \A i \in Items : record[i].status = "ok" => record[i].seq >= 1

CountInv == PositiveOK /\ (~lost => CountOK /\ ListOK)

-----------------------------------------------------------------------------
(* Types, places and indexes are kept by every step. *)

ControlInv == ProduceTypeOK /\ PlaceOK /\ IndexOK(cp) /\ IndexOK(cur)

RunType == [pc : Places, cursor : Cursors, at : Nat, seq : Nat]

(* What the cursor operators do to the fields. *)
LEMMA SpanPositive == ASSUME NEW i \in Items PROVE Span(i) \in Nat /\ Span(i) >= 1
BY ProduceAssumptions DEF Span, Items

(* A run that begins, with the parameters of its checkpoint or with those it is given again. *)
Begin == Run \/ Rerun

LEMMA FreshType == FreshCursor \in Cursors /\ Stopped \in RunType /\ Begun("select", FreshCursor) \in RunType
BY ProduceAssumptions DEF FreshCursor, Stopped, Begun, Cursors, RunType, Counts, Phases, Places, Items

LEMMA GoFacts ==
    ASSUME run \in RunType, NEW pc \in Places, NEW c \in Cursors, Go(pc, c)
    PROVE  /\ run' \in RunType
           /\ run'.pc = pc /\ cur' = c /\ run'.at = run.at /\ run'.seq = run.seq
BY DEF RunType, Go, cur

LEMMA AdvanceFacts ==
    ASSUME NEW c \in Cursors, cur \in Cursors, cur.index < N
    PROVE  /\ c.index < N => Advance(c) \in Cursors
           /\ Advance(c).index = c.index + 1 /\ Advance(c).phase = c.phase
           /\ Advance(c).next = c.next /\ Advance(c).count = c.count
           /\ Advance(c).done = c.done \cup {Item}
<1>1. Item \in Items
    BY ProduceAssumptions DEF Item, Items, Cursors
<1>2. Advance(c).index = c.index + 1 /\ Advance(c).phase = c.phase
    BY DEF Advance, Cursors
<1>3. Advance(c).next = c.next /\ Advance(c).count = c.count
    BY DEF Advance, Cursors
<1>4. Advance(c).done = c.done \cup {Item}
    BY DEF Advance, Cursors
<1>5. ASSUME c.index < N PROVE Advance(c) \in Cursors
    <2>1. c.index + 1 \in 0..N /\ c.done \cup {Item} \subseteq Items
        BY <1>1, <1>5, ProduceAssumptions DEF Cursors
    <2> QED BY <2>1 DEF Advance, Cursors
<1> QED
    BY <1>2, <1>3, <1>4, <1>5

LEMMA InitControl == ASSUME ProduceInit PROVE ControlInv
<1>1. ProduceTypeOK
    BY FreshType, ProduceAssumptions DEF ProduceInit, ProduceTypeOK, NoRecord, RecordStatus, RunType
<1>2. PlaceOK
    BY DEF ProduceInit, PlaceOK, Begun, FreshCursor, cur
<1>3. IndexOK(cp) /\ IndexOK(cur)
    BY ProduceAssumptions DEF ProduceInit, IndexOK, Begun, FreshCursor, cur, Items
<1> QED BY <1>1, <1>2, <1>3 DEF ControlInv

(* A run that ends anywhere but at its end. *)
LEMMA ControlStopped ==
    ASSUME ControlInv, run' = Stopped, run.pc # "ended",
           cp' = cp \/ (run.pc = "loop" /\ cp' = cur)
    PROVE  /\ PlaceOK' /\ IndexOK(cp)' /\ IndexOK(cur)'
           /\ run' \in RunType /\ cp' \in Cursors
<1>1. run' \in RunType /\ cp' \in Cursors
    BY FreshType DEF ControlInv, ProduceTypeOK, cur
<1>2. cp'.phase # "done"
    BY DEF ControlInv, PlaceOK, ProduceTypeOK, Places
<1>3. PlaceOK'
    BY <1>2 DEF PlaceOK, Stopped
<1>4. IndexOK(cp)'
    BY DEF ControlInv, IndexOK
<1>5. IndexOK(cur)'
    BY ProduceAssumptions DEF IndexOK, Stopped, FreshCursor, cur, Items
<1> QED BY <1>1, <1>3, <1>4, <1>5

(* A row that is written, a line that is dropped. *)
LEMMA RecordType ==
    ASSUME ProduceTypeOK, NEW i \in Items, NEW st \in RecordStatus, NEW s \in Nat,
           record' = [record EXCEPT ![i] = [status |-> st, seq |-> s]]
    PROVE  record' \in [Items -> [status : RecordStatus, seq : Nat]]
BY DEF ProduceTypeOK

LEMMA ItemFacts ==
    ASSUME ControlInv, run.pc \in {"gatePurged", "written", "persisted"} \/ Working
    PROVE  Item \in Items /\ cur.index < N /\ cur.index \in Nat /\ Item = cur.index + 1
<1>1. cur.index \in 0..N /\ cur.index < N
    BY DEF ControlInv, ProduceTypeOK, PlaceOK, cur, Cursors, Working
<1> QED BY <1>1, ProduceAssumptions DEF Item, Items

LEMMA AssignedType ==
    ASSUME ControlInv, Working
    PROVE  /\ Assigned \in Nat /\ Numbered \in Cursors
           /\ Numbered.next = NextAfter(Item, Assigned) /\ Numbered.done = cur.done
           /\ Numbered.index = cur.index /\ Numbered.phase = cur.phase /\ Numbered.count = cur.count
<1>1. Item \in Items /\ cur \in Cursors
    BY ItemFacts DEF ControlInv, ProduceTypeOK, cur
<1>2. Assigned \in Nat
    BY <1>1 DEF Assigned, ControlInv, ProduceTypeOK, Cursors
<1>3. NextAfter(Item, Assigned) \in Nat
    BY <1>1, <1>2, SpanPositive DEF NextAfter, Cursors
<1> QED BY <1>1, <1>2, <1>3 DEF Numbered, Cursors

(* The step past an item. *)
LEMMA AdvancedFacts ==
    ASSUME ControlInv, run.pc \in {"gatePurged", "written", "persisted"} \/ Working,
           NEW c \in Cursors, c.index = cur.index, c.done = cur.done, c.phase = cur.phase,
           Go("save", Advance(c)), cp' = cp
    PROVE  /\ PlaceOK' /\ IndexOK(cp)' /\ IndexOK(cur)' /\ run' \in RunType
           /\ run'.pc = "save" /\ run'.seq = run.seq
           /\ cur'.index = Item /\ cur'.done = cur.done \cup {Item} /\ cur'.next = c.next
           /\ cur'.count = c.count /\ cur'.phase = "work"
<1>1. cur \in Cursors /\ run \in RunType /\ cur.phase = "work" /\ cp.phase = "work"
    BY DEF ControlInv, ProduceTypeOK, PlaceOK, Working, RunType, cur
<1>2. Item \in Items /\ cur.index < N /\ cur.index \in Nat /\ Item = cur.index + 1
    BY ItemFacts
<1>3. /\ Advance(c) \in Cursors /\ Advance(c).index = Item /\ Advance(c).phase = "work"
      /\ Advance(c).next = c.next /\ Advance(c).count = c.count
      /\ Advance(c).done = cur.done \cup {Item}
    BY <1>1, <1>2, AdvanceFacts
<1>4. run' \in RunType /\ run'.pc = "save" /\ cur' = Advance(c) /\ run'.seq = run.seq
    BY <1>1, <1>3, GoFacts DEF Places
<1>5. PlaceOK'
    BY <1>1, <1>2, <1>3, <1>4 DEF PlaceOK
<1>6. IndexOK(cur)' /\ IndexOK(cp)'
    BY <1>2, <1>3, <1>4 DEF ControlInv, IndexOK, Items
<1> QED BY <1>3, <1>4, <1>5, <1>6

(* The actions that pass an item, and what they count. *)
Passing == GateRecord \/ RecheckWithheld \/ Recover \/ Decline \/ Unreadable \/ AppendRow

LEMMA PassingFacts ==
    ASSUME ControlInv, Passing
    PROVE  /\ Item \in Items /\ Item \notin cur.done
           /\ run.pc = IF GateRecord THEN "gatePurged" ELSE IF RecheckWithheld THEN "written"
                       ELSE IF AppendRow THEN "persisted" ELSE "loop"
           /\ PlaceOK' /\ IndexOK(cp)' /\ IndexOK(cur)' /\ run' \in RunType
           /\ run'.pc = "save" /\ cp' = cp /\ cur'.phase = "work"
           /\ cur'.index = Item /\ cur'.done = cur.done \cup {Item}
           /\ cur'.next = IF Recover THEN NextAfter(Item, rows[Item])
                          ELSE IF Decline THEN NextAfter(Item, Assigned) ELSE cur.next
           /\ cur'.count.produced = cur.count.produced
                    + (IF AppendRow THEN 1 ELSE IF Recover THEN CountRecovered(Item) ELSE 0)
           /\ cur'.count.withheld = cur.count.withheld
                    + (IF GateRecord \/ RecheckWithheld THEN CountWithheld(Item) ELSE 0)
<1>0. cur \in Cursors /\ run \in RunType /\ cp \in Cursors /\ ProduceTypeOK
    BY DEF ControlInv, ProduceTypeOK, RunType, cur
<1>1. CASE GateRecord \/ RecheckWithheld
    <2> DEFINE c == [cur EXCEPT !.count.withheld = @ + CountWithheld(Item)]
    <2>1. /\ c \in Cursors /\ c.index = cur.index /\ c.done = cur.done /\ c.phase = cur.phase /\ c.next = cur.next
          /\ c.count.produced = cur.count.produced /\ cur.count.produced \in Nat
          /\ c.count.withheld = cur.count.withheld + CountWithheld(Item)
        BY <1>0 DEF Cursors, Counts, CountWithheld
    <2>2. Item \in Items /\ Item \notin cur.done /\ run.pc \in {"gatePurged", "written"}
        BY <1>1, ItemFacts DEF GateRecord, RecheckWithheld, ControlInv, PlaceOK
    <2>3. /\ cp' = cp /\ Go("save", Advance(c)) /\ ~Recover /\ ~Decline /\ ~AppendRow
          /\ run.pc = IF GateRecord THEN "gatePurged" ELSE "written"
        BY <1>1 DEF GateRecord, RecheckWithheld, SkipWithheld, Recover, Decline, Packaging, Due, Working, AppendRow
    <2> HIDE DEF c
    <2> QED BY <1>1, <2>1, <2>2, <2>3, AdvancedFacts
<1>2. CASE Recover
    <2> DEFINE c == [cur EXCEPT !.next = NextAfter(Item, rows[Item]), !.count.produced = @ + CountRecovered(Item)]
    <2>1. Item \in Items /\ Item \notin cur.done /\ Working /\ run.pc = "loop"
        BY <1>2, ItemFacts DEF Recover, Due, Working
    <2>2. NextAfter(Item, rows[Item]) \in Nat /\ cur.count.produced + CountRecovered(Item) \in Nat
        BY <1>0, <2>1, SpanPositive DEF NextAfter, CountRecovered, ProduceTypeOK, Cursors, Counts
    <2>3. /\ c \in Cursors /\ c.index = cur.index /\ c.done = cur.done /\ c.phase = cur.phase
          /\ c.next = NextAfter(Item, rows[Item])
          /\ c.count.produced = cur.count.produced + CountRecovered(Item)
          /\ c.count.withheld = cur.count.withheld /\ cur.count.withheld \in Nat
        BY <1>0, <2>2 DEF Cursors, Counts
    <2>4. cp' = cp /\ Go("save", Advance(c)) /\ ~GateRecord /\ ~RecheckWithheld /\ ~AppendRow
        BY <1>2, <2>1 DEF Recover, GateRecord, RecheckWithheld, AppendRow
    <2> HIDE DEF c
    <2> QED BY <1>2, <2>1, <2>3, <2>4, AdvancedFacts
<1>3. CASE Decline
    <2>1. Item \in Items /\ Item \notin cur.done /\ Working /\ run.pc = "loop"
        BY <1>3, ItemFacts DEF Decline, Packaging, Due, Working
    <2>2. /\ Numbered \in Cursors /\ Numbered.phase = cur.phase /\ Numbered.count = cur.count
          /\ Numbered.index = cur.index /\ Numbered.done = cur.done
          /\ Numbered.next = NextAfter(Item, Assigned)
        BY <2>1, AssignedType
    <2>3. PICK o \in {"skipped", "error"} :
            Go("save", Advance(IF o = "error"
                              THEN [Numbered EXCEPT !.count.error = @ + 1]
                              ELSE [Numbered EXCEPT !.count.other = @ + 1]))
        BY <1>3 DEF Decline
    <2> DEFINE c == IF o = "error" THEN [Numbered EXCEPT !.count.error = @ + 1]
                                   ELSE [Numbered EXCEPT !.count.other = @ + 1]
    <2>4. /\ c \in Cursors /\ c.index = cur.index /\ c.done = cur.done /\ c.phase = cur.phase
          /\ c.next = NextAfter(Item, Assigned)
          /\ c.count.produced = cur.count.produced /\ cur.count.produced \in Nat
          /\ c.count.withheld = cur.count.withheld /\ cur.count.withheld \in Nat
        BY <2>2 DEF Cursors, Counts
    <2>5. cp' = cp /\ ~GateRecord /\ ~RecheckWithheld /\ ~AppendRow /\ ~Recover
        BY <1>3, <2>1 DEF Decline, GateRecord, RecheckWithheld, AppendRow, Packaging, Recover
    <2> HIDE DEF c
    <2>6. Go("save", Advance(c))
        BY <2>3 DEF c
    <2> QED BY <1>3, <2>1, <2>4, <2>5, <2>6, AdvancedFacts
<1>4. CASE Unreadable /\ ~Decline
    <2> DEFINE c == [cur EXCEPT !.count.error = @ + 1]
    <2>1. Item \in Items /\ Item \notin cur.done /\ Working /\ run.pc = "loop"
        BY <1>4, ItemFacts DEF Unreadable, Packaging, Due, Working
    <2>2. /\ c \in Cursors /\ c.index = cur.index /\ c.done = cur.done /\ c.phase = cur.phase
          /\ c.next = cur.next
          /\ c.count.produced = cur.count.produced /\ cur.count.produced \in Nat
          /\ c.count.withheld = cur.count.withheld /\ cur.count.withheld \in Nat
        BY <1>0 DEF Cursors, Counts
    <2>3. cp' = cp /\ Go("save", Advance(c)) /\ ~GateRecord /\ ~RecheckWithheld /\ ~AppendRow /\ ~Recover
        BY <1>4, <2>1 DEF Unreadable, GateRecord, RecheckWithheld, AppendRow, Packaging, Recover
    <2> HIDE DEF c
    <2> QED BY <1>4, <2>1, <2>2, <2>3, AdvancedFacts
<1>5. CASE AppendRow
    <2> DEFINE c == [cur EXCEPT !.count.produced = @ + 1]
    <2>1. Item \in Items /\ Item \notin cur.done /\ run.pc = "persisted"
        BY <1>5, ItemFacts DEF AppendRow, ControlInv, PlaceOK
    <2>2. /\ c \in Cursors /\ c.index = cur.index /\ c.done = cur.done /\ c.phase = cur.phase
          /\ c.next = cur.next
          /\ c.count.produced = cur.count.produced + 1
          /\ c.count.withheld = cur.count.withheld /\ cur.count.withheld \in Nat
        BY <1>0 DEF Cursors, Counts
    <2>3. /\ cp' = cp /\ Go("save", Advance(c)) /\ ~GateRecord /\ ~RecheckWithheld /\ ~Recover
          /\ ~Decline
        BY <1>5, <2>1 DEF AppendRow, GateRecord, RecheckWithheld, Recover, Decline, Packaging, Due, Working
    <2> HIDE DEF c
    <2> QED BY <1>5, <2>1, <2>2, <2>3, AdvancedFacts
<1> QED BY <1>1, <1>2, <1>3, <1>4, <1>5 DEF Passing

(* The unique index refuses a row. *)
LEMMA RefusalsFacts ==
    ASSUME Refusals
    PROVE  /\ run' = Stopped /\ run'.pc = "stopped" /\ cur' = FreshCursor /\ lost' /\ run.pc # "ended"
           /\ UNCHANGED <<abort, cp, record, pageRows, load, withheld, held>>
           /\ rows' = rows \/ rows' = [rows EXCEPT ![Item] = 0]
BY DEF Refusals, RefusePersist, RefuseRecord, Packaging, Due, Working, Fail, Stopped, cur

LEMMA ControlNext ==
    ASSUME ControlInv, [ProduceNext]_produceVars
    PROVE  ControlInv'
<1> USE DEF ControlInv
<1>c. cur \in Cursors /\ cp \in Cursors /\ run \in RunType
    BY DEF ProduceTypeOK, RunType, cur
<1>1. CASE Begin
    <2>1. run' \in RunType
        BY <1>1, <1>c DEF Begin, Run, Rerun, Begun, RunType, Places, Cursors, Phases
    <2>2. ProduceTypeOK'
        BY <1>1, <2>1 DEF Begin, Run, Rerun, Begun, ProduceTypeOK, RunType
    <2>3. cur' = cp /\ cp' = cp /\ run'.at = 1 /\ cp.phase # "done"
        BY <1>1 DEF Begin, Run, Rerun, Begun, cur, PlaceOK
    <2>4. PlaceOK'
        BY <1>1, <1>c, <2>3, ProduceAssumptions DEF Begin, Run, Rerun, Begun, PlaceOK, Cursors, Phases, Stopped
    <2> QED BY <2>2, <2>3, <2>4 DEF IndexOK
<1>2. CASE Select
    <2>1. cp' \in Cursors /\ cur' = cp' /\ cp'.phase = "setup" /\ cp'.done = cur.done /\ cp'.index = cur.index
        BY <1>2, <1>c DEF Select, Go, cur, Cursors, Phases, RunType
    <2>2. run' \in RunType /\ run'.pc = "setup" /\ run'.at = run.at
        BY <1>2, <1>c, <2>1, GoFacts DEF Select, Places
    <2>3. ProduceTypeOK'
        BY <1>2, <2>1, <2>2 DEF Select, ProduceTypeOK, RunType
    <2>4. PlaceOK'
        BY <1>2, <2>1, <2>2 DEF PlaceOK, Select
    <2> QED BY <1>2, <2>1, <2>3, <2>4 DEF IndexOK, Select, PlaceOK
<1>3. CASE Refuse \/ SetupAbort
    <2>1. run.pc # "ended" /\ run' = Stopped /\ cp' = cp
        BY <1>3 DEF Refuse, SetupAbort
    <2>2. ProduceTypeOK'
        BY <1>3, <2>1, ControlStopped DEF Refuse, SetupAbort, ProduceTypeOK, RunType
    <2> QED BY <2>1, <2>2, ControlStopped
<1>4. CASE Setup
    <2>1. cp' \in Cursors /\ cur' = cp' /\ cp'.phase = "work" /\ cp'.done = cur.done /\ cp'.index = cur.index
        BY <1>4, <1>c DEF Setup, Go, cur, Cursors, Phases, RunType
    <2>2. run' \in RunType /\ run'.pc = "sweep" /\ run'.at = run.at
        BY <1>4, <1>c, <2>1, GoFacts DEF Setup, Places
    <2>3. ProduceTypeOK'
        BY <1>4, <2>1, <2>2 DEF Setup, ProduceTypeOK, RunType
    <2>4. PlaceOK'
        BY <2>1, <2>2, <1>4, ProduceAssumptions DEF PlaceOK, Setup
    <2> QED BY <1>4, <2>1, <2>3, <2>4 DEF IndexOK, Setup, PlaceOK
<1>5. CASE SweepPass
    <2>1. cur' = cur /\ cp' = cp /\ run'.pc = "sweep" /\ run'.at = run.at + 1 /\ run' \in RunType
        BY <1>5, <1>c DEF SweepPass, Sweeping, cur, RunType
    <2>2. ProduceTypeOK'
        BY <1>5, <2>1 DEF SweepPass, ProduceTypeOK, RunType
    <2>3. PlaceOK'
        BY <1>5, <2>1, ProduceAssumptions DEF PlaceOK, SweepPass, Sweeping
    <2> QED BY <2>1, <2>2, <2>3 DEF IndexOK
<1>6. CASE SweepPurge
    <2>1. cur' = cur /\ cp' = cp /\ run'.pc = "sweepPurged" /\ run'.at = run.at /\ run' \in RunType
        BY <1>6, <1>c, GoFacts DEF SweepPurge, Sweeping, Places
    <2>2. pageRows' \in [Items -> Nat]
        BY <1>6 DEF SweepPurge, Purge, ProduceTypeOK
    <2>3. ProduceTypeOK'
        BY <1>6, <2>1, <2>2 DEF SweepPurge, ProduceTypeOK, RunType
    <2>4. PlaceOK'
        BY <1>6, <2>1, ProduceAssumptions DEF PlaceOK, SweepPurge, Sweeping, Items
    <2> QED BY <2>1, <2>3, <2>4 DEF IndexOK
<1>7. CASE SweepAbort
    <2>1. run.pc # "ended" /\ run' = Stopped /\ cp' = cp
        BY <1>7 DEF SweepAbort, Fail
    <2>2. rows' \in [Items -> Nat]
        BY <1>7 DEF SweepAbort, ProduceTypeOK
    <2>3. ProduceTypeOK'
        BY <1>7, <2>1, <2>2, ControlStopped DEF SweepAbort, Fail, ProduceTypeOK, RunType
    <2> QED BY <2>1, <2>3, ControlStopped
<1>8. CASE SweepRecord
    <2> DEFINE c == [cur EXCEPT !.done = @ \cup {run.at},
                                !.count.produced = @ - Uncounted(run.at),
                                !.count.withheld = @ + CountWithheld(run.at)]
    <2>0. run.at \in Items
        BY <1>8 DEF SweepRecord, PlaceOK
    <2>1. cur' = c /\ run'.pc = "sweep" /\ run'.at = run.at + 1 /\ run'.seq = run.seq
        BY <1>8, <1>c DEF SweepRecord, cur, RunType, Cursors, Counts
    <2>2. cur.count.produced - Uncounted(run.at) \in Nat /\ cur.count.withheld + CountWithheld(run.at) \in Nat
        BY <1>c DEF Uncounted, CountWithheld, Cursors, Counts
    <2>3. c \in Cursors /\ c.phase = cur.phase /\ c.index = cur.index /\ c.done = cur.done \cup {run.at}
        BY <1>c, <2>0, <2>2 DEF Cursors, Counts
    <2>4. run' \in RunType
        <3>1. run.at + 1 \in Nat /\ cur' \in Cursors
            BY <2>0, <2>1, <2>3, ProduceAssumptions DEF Items
        <3>2. run' = [pc |-> "sweep", cursor |-> cur', at |-> run.at + 1, seq |-> run.seq]
            BY <1>8, <1>c DEF SweepRecord, RunType, cur
        <3> QED BY <1>c, <3>1, <3>2 DEF RunType, Places
    <2>5. rows' \in [Items -> Nat] /\ record' \in [Items -> [status : RecordStatus, seq : Nat]]
        BY <1>8, <2>0, RecordType DEF SweepRecord, ProduceTypeOK, RecordWithheld, RecordStatus
    <2>6. ProduceTypeOK'
        BY <1>8, <2>4, <2>5 DEF SweepRecord, ProduceTypeOK, RunType
    <2>7. PlaceOK'
        BY <1>8, <2>0, <2>1, <2>3, ProduceAssumptions DEF PlaceOK, SweepRecord, Items
    <2>8. IndexOK(cur)' /\ IndexOK(cp)'
        BY <1>8, <2>1, <2>3 DEF IndexOK, SweepRecord, PlaceOK
    <2> QED BY <2>6, <2>7, <2>8
<1>9. CASE SweepEnd
    <2>1. /\ cur' = cur /\ cp' = cp /\ run' \in RunType
          /\ run'.pc = IF cur.phase = "work" THEN "loop" ELSE "load"
        BY <1>9, <1>c, GoFacts DEF SweepEnd, Places
    <2>2. ProduceTypeOK'
        BY <1>9, <2>1 DEF SweepEnd, ProduceTypeOK, RunType
    <2>3. PlaceOK'
        BY <1>9, <2>1 DEF PlaceOK, SweepEnd
    <2> QED BY <2>1, <2>2, <2>3 DEF IndexOK
<1>10. CASE Pause
    <2>1. run.pc = "loop" /\ run' = Stopped /\ cp' = cur
        BY <1>10 DEF Pause, Working
    <2>2. ProduceTypeOK'
        BY <1>10, <2>1, ControlStopped DEF Pause, ProduceTypeOK, RunType
    <2> QED BY <2>1, <2>2, ControlStopped
<1>11. CASE SkipDone
    <2> DEFINE c == [cur EXCEPT !.index = @ + 1]
    <2>1. Item \in Items /\ Item = cur.index + 1 /\ cur.index \in Nat
        BY <1>11, ItemFacts DEF SkipDone
    <2>2. c \in Cursors /\ c.index = Item /\ c.done = cur.done /\ c.phase = cur.phase
        <3>1. cur.index + 1 \in 0..N
            BY <2>1, ProduceAssumptions DEF Items
        <3> QED BY <2>1, <3>1, <1>c DEF Cursors
    <2>3. cur' = c /\ cp' = cp /\ run'.pc = "loop" /\ run' \in RunType
        BY <1>11, <1>c, <2>2, GoFacts DEF SkipDone, Places
    <2>4. ProduceTypeOK'
        BY <1>11, <2>3 DEF SkipDone, ProduceTypeOK, RunType
    <2>5. PlaceOK'
        BY <1>11, <2>2, <2>3 DEF PlaceOK, SkipDone, Working
    <2>6. IndexOK(cur)' /\ IndexOK(cp)'
        BY <1>11, <2>1, <2>2, <2>3 DEF IndexOK, SkipDone, PlaceOK, Working, Items
    <2> QED BY <2>4, <2>5, <2>6
<1>12. CASE Gate
    <2>1. cur' = cur /\ cp' = cp /\ run'.pc = "gatePurged" /\ run' \in RunType
        BY <1>12, <1>c, GoFacts DEF Gate, Places
    <2>2. pageRows' \in [Items -> Nat]
        BY <1>12 DEF Gate, Purge, ProduceTypeOK
    <2>3. ProduceTypeOK'
        BY <1>12, <2>1, <2>2 DEF Gate, ProduceTypeOK, RunType
    <2>4. PlaceOK'
        BY <1>12, <2>1 DEF PlaceOK, Gate, Due, Working, Item
    <2> QED BY <2>1, <2>3, <2>4 DEF IndexOK
<1>13. CASE GateAbort \/ RecheckAbort \/ FailImages
    <2>1. run.pc # "ended" /\ run' = Stopped /\ cp' = cp
        BY <1>13 DEF GateAbort, RecheckAbort, FailImages, Fail
    <2>2. rows' \in [Items -> Nat]
        BY <1>13 DEF GateAbort, RecheckAbort, FailImages, ProduceTypeOK
    <2>3. ProduceTypeOK'
        BY <1>13, <2>1, <2>2, ControlStopped DEF GateAbort, RecheckAbort, FailImages, Fail, ProduceTypeOK, RunType
    <2> QED BY <2>1, <2>3, ControlStopped
<1>14. CASE Passing
    <2>1. Item \in Items /\ PlaceOK' /\ IndexOK(cp)' /\ IndexOK(cur)' /\ run' \in RunType /\ cp' = cp
        BY <1>14, PassingFacts
    <2>2. rows' \in [Items -> Nat]
        BY <1>14, <1>c DEF Passing, GateRecord, RecheckWithheld, Recover, Decline, Unreadable, AppendRow,
                           Packaging, ProduceTypeOK, RunType
    <2>3. \/ record' = record
          \/ \E st \in RecordStatus, n \in Nat : record' = [record EXCEPT ![Item] = [status |-> st, seq |-> n]]
        <3>1. Decline => Assigned \in Nat
            BY AssignedType DEF Decline, Packaging, Due
        <3> QED
            BY <1>14, <3>1 DEF Passing, GateRecord, RecheckWithheld, SkipWithheld, RecordWithheld, Recover,
                               Decline, Unreadable, AppendRow, RecordStatus
    <2>4. record' \in [Items -> [status : RecordStatus, seq : Nat]]
        BY <2>1, <2>3, RecordType DEF ProduceTypeOK
    <2>5. ProduceTypeOK'
        BY <1>14, <2>1, <2>2, <2>4 DEF Passing, GateRecord, RecheckWithheld, Recover, Decline, Unreadable,
                                       AppendRow, ProduceTypeOK, RunType
    <2> QED BY <2>1, <2>5
<1>15. CASE Produce
    <2>1. Item \in Items /\ Working
        BY <1>15, ItemFacts DEF Produce, Packaging, Due
    <2>2. /\ Assigned \in Nat /\ Numbered \in Cursors /\ Numbered.phase = cur.phase
          /\ Numbered.index = cur.index /\ Numbered.done = cur.done
        BY <2>1, AssignedType
    <2>3. run' \in RunType /\ run'.pc = "written" /\ cur' = Numbered
        BY <1>15, <1>c, <2>2 DEF Produce, RunType, Places, cur
    <2>4. rows' \in [Items -> Nat]
        BY <1>15 DEF Produce, Packaging, ProduceTypeOK
    <2>5. ProduceTypeOK'
        BY <1>15, <2>3, <2>4 DEF Produce, ProduceTypeOK, RunType
    <2>6. PlaceOK'
        BY <1>15, <2>1, <2>2, <2>3 DEF Produce, PlaceOK, Packaging, Due, Working, Item
    <2>7. IndexOK(cur)' /\ IndexOK(cp)'
        BY <1>15, <2>2, <2>3 DEF IndexOK, Produce
    <2> QED BY <2>5, <2>6, <2>7
<1>16. CASE PackagingFails
    <2>1. Item \in Items /\ Working
        BY <1>16, ItemFacts DEF PackagingFails, Packaging, Due
    <2>2. run.pc # "ended" /\ run' = Stopped /\ cp' = cp
        BY <1>16, <2>1 DEF PackagingFails, Fail, Working
    <2>3. PICK s \in Nat : record' = [record EXCEPT ![Item] = [status |-> "error", seq |-> s]]
        BY <1>16, <2>1, AssignedType DEF PackagingFails
    <2>4. rows' \in [Items -> Nat] /\ record' \in [Items -> [status : RecordStatus, seq : Nat]]
        BY <1>16, <2>1, <2>3, RecordType DEF PackagingFails, Packaging, ProduceTypeOK, RecordStatus
    <2>5. ProduceTypeOK'
        BY <1>16, <2>2, <2>4, ControlStopped DEF PackagingFails, Fail, ProduceTypeOK, RunType
    <2> QED BY <2>2, <2>5, ControlStopped
<1>17. CASE Persist
    <2>1. Item \in Items
        BY <1>17, ItemFacts DEF Persist
    <2>2. cur' = cur /\ cp' = cp /\ run'.pc = "persisted" /\ run' \in RunType
        BY <1>17, <1>c, GoFacts DEF Persist, Places
    <2>3. record' \in [Items -> [status : RecordStatus, seq : Nat]] /\ pageRows' \in [Items -> Nat]
        BY <1>17, <1>c, <2>1, RecordType DEF Persist, ProduceTypeOK, RecordStatus, RunType
    <2>4. ProduceTypeOK'
        BY <1>17, <2>2, <2>3 DEF Persist, ProduceTypeOK, RunType
    <2>5. PlaceOK'
        BY <1>17, <2>2 DEF PlaceOK, Persist, Item
    <2> QED BY <2>2, <2>4, <2>5 DEF IndexOK
<1>18. CASE Save
    <2>1. /\ cur' = cur /\ cp' = cur /\ run' \in RunType
          /\ run'.pc = IF cur.phase = "done" THEN "ended" ELSE "loop"
        BY <1>18, <1>c, GoFacts DEF Save, Places
    <2>2. rows' \in [Items -> Nat]
        BY <1>18 DEF Save, ProduceTypeOK
    <2>3. ProduceTypeOK'
        BY <1>18, <1>c, <2>1, <2>2 DEF Save, ProduceTypeOK, RunType
    <2>4. PlaceOK'
        BY <1>18, <2>1 DEF PlaceOK, Save
    <2> QED BY <2>1, <2>3, <2>4 DEF IndexOK
<1>19. CASE FinishWork
    <2> DEFINE c == [cur EXCEPT !.phase = "finalize"]
    <2>1. c \in Cursors /\ c.phase = "finalize" /\ c.done = cur.done /\ c.index = cur.index
        BY <1>c DEF Cursors, Phases
    <2>2. cp' = c /\ cur' = c /\ run' \in RunType /\ run'.pc = "sweep" /\ run'.at = 1
        BY <1>19, <1>c, <2>1 DEF FinishWork, cur, RunType, Places
    <2>3. ProduceTypeOK'
        BY <1>19, <2>1, <2>2 DEF FinishWork, ProduceTypeOK, RunType
    <2>4. PlaceOK'
        BY <2>1, <2>2, ProduceAssumptions DEF PlaceOK
    <2>5. IndexOK(cp)' /\ IndexOK(cur)'
        BY <1>19, <2>1, <2>2 DEF IndexOK, FinishWork
    <2> QED BY <2>3, <2>4, <2>5
<1>20. CASE WriteLoad
    <2>1. cur' = cur /\ cp' = cp /\ run'.pc = "check" /\ run' \in RunType
        BY <1>20, <1>c, GoFacts DEF WriteLoad, Places
    <2>2. ProduceTypeOK'
        BY <1>20, <2>1 DEF WriteLoad, ProduceTypeOK, RunType
    <2>3. PlaceOK'
        BY <1>20, <2>1 DEF PlaceOK, WriteLoad
    <2> QED BY <2>1, <2>2, <2>3 DEF IndexOK
<1>21. CASE Complete
    <2> DEFINE c == [cur EXCEPT !.phase = "done"]
    <2>1. c \in Cursors /\ c.phase = "done" /\ c.done = cur.done /\ c.index = cur.index
        BY <1>c DEF Cursors, Phases
    <2>2. cp' = cp /\ cur' = c /\ run' \in RunType /\ run'.pc = "save"
        BY <1>21, <1>c, <2>1, GoFacts DEF Complete, Places
    <2>3. ProduceTypeOK'
        BY <1>21, <2>2 DEF Complete, ProduceTypeOK, RunType
    <2>4. PlaceOK'
        BY <1>21, <2>1, <2>2 DEF PlaceOK, Complete
    <2>5. IndexOK(cp)' /\ IndexOK(cur)'
        BY <1>21, <2>1, <2>2 DEF IndexOK, Complete, PlaceOK
    <2> QED BY <2>3, <2>4, <2>5
<1>22. CASE \E i \in Items : Hold(i) \/ Release(i)
    <2>1. cur' = cur /\ cp' = cp /\ run' = run
        BY <1>22 DEF Hold, Release, cur
    <2>2. withheld' \subseteq Items /\ held' \subseteq Items
        BY <1>22 DEF Hold, Release, ProduceTypeOK
    <2>3. ProduceTypeOK'
        BY <1>22, <2>1, <2>2 DEF Hold, Release, ProduceTypeOK
    <2>4. PlaceOK'
        BY <2>1 DEF PlaceOK, Item
    <2> QED BY <2>1, <2>3, <2>4 DEF IndexOK
<1>23. CASE Crash
    <2>1. run.pc # "ended" /\ run' = Stopped /\ cp' = cp
        BY <1>23, ProduceAssumptions DEF Crash, Fail
    <2>2. ProduceTypeOK'
        BY <1>23, <2>1, ControlStopped DEF Crash, Fail, ProduceTypeOK, RunType
    <2> QED BY <2>1, <2>2, ControlStopped
<1>24. CASE UNCHANGED produceVars
    <2>1. cur' = cur /\ cp' = cp /\ run' = run
        BY <1>24 DEF produceVars, cur
    <2>2. ProduceTypeOK'
        BY <1>24 DEF produceVars, ProduceTypeOK
    <2>3. PlaceOK'
        BY <2>1 DEF PlaceOK, Item
    <2> QED BY <2>1, <2>2, <2>3 DEF IndexOK
<1>25. CASE Refusals
    <2>1. rows' \in [Items -> Nat]
        BY <1>25, RefusalsFacts DEF ProduceTypeOK
    <2>2. PlaceOK' /\ IndexOK(cp)' /\ IndexOK(cur)' /\ run' \in RunType
        BY <1>25, RefusalsFacts, ControlStopped
    <2>3. ProduceTypeOK'
        BY <1>25, <2>1, <2>2, RefusalsFacts DEF ProduceTypeOK, RunType
    <2> QED BY <2>2, <2>3
<1> QED
    BY <1>1, <1>2, <1>3, <1>4, <1>5, <1>6, <1>7, <1>8, <1>9, <1>10, <1>11, <1>12, <1>13, <1>14, <1>15, <1>16, <1>17, <1>18, <1>19, <1>20, <1>21, <1>22, <1>23, <1>24, <1>25
    DEF ProduceNext, Progress, Work, Sweep, Aborts, Passing, Begin

-----------------------------------------------------------------------------
(* The numbers of the items. *)

(* No item gets a number. *)
LEMMA NumbersKept ==
    ASSUME NumbersOK, cp'.next = cp.next, cp'.done = cp.done, cp.done \subseteq Items,
           \A i \in Items : Known(i)' \subseteq Known(i),
           \A k \in Items : Firm(k) => Firm(k)',
           \/ run.pc \notin {"persisted", "save"}
           \/ run'.pc \in {"persisted", "save"} /\ cur.done \subseteq cur'.done
    PROVE  NumbersOK'
<1>1. \A i \in cp.done : \A s \in Known(i)' : s + Span(i) <= cp.next
    BY DEF NumbersOK
<1>2. ASSUME NEW i \in Items \ cp.done, NEW s \in Known(i)'
      PROVE  /\ s = cp.next
             /\ \A k \in Items : k < i =>
                    \/ k \in cp.done \/ Firm(k)'
                    \/ run'.pc \in {"persisted", "save"} /\ k \in cur'.done
    BY <1>2 DEF NumbersOK
<1>3. \A i, j \in Items \ cp.done : Known(i)' # {} /\ Known(j)' # {} => i = j
    BY DEF NumbersOK
<1>4. \A i, j \in cp.done : i # j =>
        \A s \in Known(i)', t \in Known(j)' : Numbers(i, s) \cap Numbers(j, t) = {}
    BY DEF NumbersOK
<1> QED BY <1>1, <1>2, <1>3, <1>4 DEF NumbersOK, Span, Numbers

(* The only item that is not done and may have a number gets the next one. *)
LEMMA NumbersGiven ==
    ASSUME NumbersOK, cp' = cp, cp.done \subseteq Items, NEW j \in Items \ cp.done,
           \A i \in Items : i # j => Known(i)' = Known(i),
           Known(j)' \subseteq {cp.next},
           \A i \in Items \ cp.done : i # j => Known(i) = {},
           \A k \in Items : k < j =>
               \/ k \in cp.done \/ Firm(k)'
               \/ run'.pc \in {"persisted", "save"} /\ k \in cur'.done
    PROVE  NumbersOK'
<1>1. \A i \in cp.done : i # j /\ Known(i)' = Known(i)
    OBVIOUS
<1>2. \A i \in cp.done : \A s \in Known(i)' : s + Span(i) <= cp.next
    BY <1>1 DEF NumbersOK
<1>3. \A i \in Items \ cp.done : Known(i)' # {} => i = j
    OBVIOUS
<1>4. \A i, j1 \in cp.done : i # j1 =>
        \A s \in Known(i)', t \in Known(j1)' : Numbers(i, s) \cap Numbers(j1, t) = {}
    BY <1>1 DEF NumbersOK
<1>5. ASSUME NEW i \in Items \ cp.done, NEW s \in Known(i)'
      PROVE  /\ s = cp.next
             /\ \A k \in Items : k < i =>
                    \/ k \in cp.done \/ Firm(k)'
                    \/ run'.pc \in {"persisted", "save"} /\ k \in cur'.done
    BY <1>3, <1>5
<1> QED BY <1>2, <1>3, <1>4, <1>5 DEF NumbersOK, Span, Numbers

LEMMA SpansApart ==
    ASSUME NEW i \in Items, NEW j \in Items, NEW s \in Nat, NEW t \in Nat, s + Span(i) <= t
    PROVE  Numbers(i, s) \cap Numbers(j, t) = {} /\ Numbers(j, t) \cap Numbers(i, s) = {}
BY SpanPositive DEF Numbers

LEMMA KnownNat == ASSUME ProduceTypeOK, NEW i \in Items PROVE Known(i) \subseteq Nat \ {0}
BY DEF Known, PageKnown, ProduceTypeOK

(* The cursor in memory becomes the checkpoint. *)
LEMMA NumbersSaved ==
    ASSUME NumberInv, run.pc \in {"loop", "save"}, cp'.next = cur.next, cp'.done = cur.done,
           record' = record, pageRows' = pageRows, withheld' = withheld, undone' = undone
    PROVE  NumbersOK'
<1>0. cp \in Cursors /\ cur \in Cursors /\ cp.done \subseteq cur.done /\ cp.next <= cur.next
    BY DEF NumberInv, ProduceTypeOK, CursorOK, cur, Cursors
<1>1. /\ cur.done \subseteq Items /\ cp.done \subseteq Items /\ cp.next \in Nat /\ cur.next \in Nat
      /\ cur.next >= 1
    BY <1>0 DEF Cursors, NumberInv, NumbersOK
<1>2. \A i \in Items : Known(i)' = Known(i) /\ Known(i) \subseteq Nat
    BY KnownNat DEF Known, PageKnown, NumberInv
<1>3. ASSUME NEW i \in cur.done \ cp.done, Known(i) # {}
      PROVE  run.pc = "save" /\ i = cur.index
    BY <1>3 DEF NumberInv, CursorOK
<1>4. ASSUME NEW i \in cur.done, NEW s \in Known(i) PROVE s + Span(i) <= cur.next
    <2>1. CASE i \in cp.done
        BY <2>1, <1>0, <1>1, <1>2, <1>4, SpanPositive DEF NumberInv, NumbersOK
    <2>2. CASE i \notin cp.done
        BY <2>2, <1>3, <1>4 DEF NumberInv, CursorOK
    <2> QED BY <2>1, <2>2
<1>5. ASSUME NEW i \in Items \ cur.done, NEW s \in Known(i)
      PROVE  /\ s = cur.next
             /\ \A k \in Items : k < i => k \in cur.done \/ Firm(k)'
    <2>1. i \in Items \ cp.done
        BY <1>0
    <2>2. s = cp.next /\ \A k \in Items : k < i => k \in cur.done \/ Firm(k)
        BY <1>0, <1>5, <2>1 DEF NumberInv, NumbersOK
    <2>3. cur.next = cp.next
        BY <1>5 DEF NumberInv, CursorOK, NoneBeyond
    <2> QED BY <2>2, <2>3 DEF Firm
<1>6. ASSUME NEW i \in Items \ cur.done, NEW j \in Items \ cur.done, Known(i) # {}, Known(j) # {}
      PROVE  i = j
    BY <1>0, <1>6 DEF NumberInv, NumbersOK
<1>7. ASSUME NEW i \in cur.done, NEW j \in cur.done, i # j, NEW s \in Known(i), NEW t \in Known(j)
      PROVE  Numbers(i, s) \cap Numbers(j, t) = {}
    <2>1. CASE i \in cp.done /\ j \in cp.done
        BY <2>1, <1>7 DEF NumberInv, NumbersOK
    <2>2. CASE i \in cp.done /\ j \notin cp.done
        <3>1. t = cp.next /\ s + Span(i) <= cp.next
            BY <2>2, <1>1, <1>7 DEF NumberInv, NumbersOK
        <3> QED BY <3>1, <1>1, <1>2, SpansApart
    <2>3. CASE i \notin cp.done /\ j \in cp.done
        <3>1. s = cp.next /\ t + Span(j) <= cp.next
            BY <2>3, <1>1, <1>7 DEF NumberInv, NumbersOK
        <3> QED BY <3>1, <1>1, <1>2, SpansApart
    <2>4. CASE i \notin cp.done /\ j \notin cp.done
        BY <2>4, <1>3, <1>7
    <2> QED BY <2>1, <2>2, <2>3, <2>4
<1> HIDE DEF NumberInv
<1>8. \A i \in cp'.done : \A s \in Known(i)' : s + Span(i) <= cp'.next
    BY <1>1, <1>2, <1>4
<1>9. \A i \in Items \ cp'.done : \A s \in Known(i)' :
        s = cp'.next /\ \A k \in Items : k < i => k \in cp'.done \/ Firm(k)'
    BY <1>2, <1>5
<1>10. \A i, j \in Items \ cp'.done : Known(i)' # {} /\ Known(j)' # {} => i = j
    BY <1>2, <1>6
<1>11. \A i, j \in cp'.done : i # j =>
        \A s \in Known(i)', t \in Known(j)' : Numbers(i, s) \cap Numbers(j, t) = {}
    BY <1>1, <1>2, <1>7
<1> QED BY <1>1, <1>8, <1>9, <1>10, <1>11 DEF NumbersOK, Span, Numbers

(* The run ends unsaved: what it had marked for a hold is not to be lifted any more. *)
LEMMA NumbersLost ==
    ASSUME NumberInv, run' = Stopped, UNCHANGED <<cp, record, pageRows>>, undone' = undone \cup TakingBack
    PROVE  NumbersOK'
<1>0. cp.done \subseteq Items
    BY DEF NumberInv, ProduceTypeOK, Cursors
<1>1. \A i \in Items : Known(i)' = Known(i)
    BY DEF Known, PageKnown
<1>2. \A k \in Items : Firm(k)' <=> k \in undone \/ k \in TakingBack
    BY DEF Firm
<1>3. ASSUME NEW i \in Items \ cp.done, NEW s \in Known(i), NEW k \in Items, k < i
      PROVE  k \in cp.done \/ k \in undone \/ k \in TakingBack
    <2>1. k \in cp.done \/ k \in undone \/ (run.pc \in {"persisted", "save"} /\ k \in cur.done)
        BY <1>3 DEF NumberInv, NumbersOK, Firm
    <2>2. CASE k \in cur.done \ cp.done
        <3>1. record[k].status = "withheld" \/ (run.pc = "save" /\ k = cur.index)
            BY <2>2 DEF NumberInv, CursorOK
        <3>2. CASE run.pc = "save" /\ k = cur.index
            <4>1. CASE i \in cur.done
                <5>1. i = k
                    BY <4>1, <3>2, <1>3 DEF NumberInv, CursorOK
                <5> QED BY <5>1, <1>3, ProduceAssumptions DEF Items
            <4>2. CASE i \notin cur.done
                <5>1. record[k].status = "withheld"
                    BY <4>2, <3>2, <1>3 DEF NumberInv, CursorOK, NoneBeyond
                <5> QED BY <2>2, <5>1 DEF TakingBack
            <4> QED BY <4>1, <4>2
        <3> QED BY <2>2, <3>1, <3>2 DEF TakingBack
    <2> QED BY <2>1, <2>2
<1>4. /\ cp.next >= 1
      /\ \A i \in cp.done : \A s \in Known(i) : s + Span(i) <= cp.next
      /\ \A i \in Items \ cp.done : \A s \in Known(i) : s = cp.next
      /\ \A i, j \in Items \ cp.done : Known(i) # {} /\ Known(j) # {} => i = j
      /\ \A i, j \in cp.done : i # j =>
            \A s \in Known(i), t \in Known(j) : Numbers(i, s) \cap Numbers(j, t) = {}
    BY DEF NumberInv, NumbersOK
<1> QED BY <1>0, <1>1, <1>2, <1>3, <1>4 DEF NumbersOK, Span, Numbers

(* At the next item to package, no other item that is not done has a number. *)
LEMMA Lone ==
    ASSUME NumberInv, Due, Item \notin withheld
    PROVE  /\ Item \in Items \ cur.done /\ cp.done \subseteq cur.done
           /\ \A i \in Items \ cp.done : i # Item => Known(i) = {}
           /\ NoneButItem
           /\ Known(Item) \subseteq {cp.next} /\ cur.next = cp.next
           /\ Assigned = cp.next /\ NextAfter(Item, Assigned) = cp.next + Span(Item)
<1>1. /\ Item \in Items /\ cur.index < N /\ cur.index \in Nat /\ Item = cur.index + 1
      /\ run.pc = "loop" /\ Item \notin cur.done
    BY ItemFacts DEF NumberInv, ControlInv, Due, Working
<1>2. cp.done \subseteq cur.done /\ cur.next = cp.next /\ cp.next \in Nat
    BY <1>1 DEF NumberInv, CursorOK, ProduceTypeOK, Cursors
<1>3. ASSUME NEW i \in Items \ cur.done, i # Item, Known(i) # {}
      PROVE  FALSE
    <2>1. i > Item
        BY <1>1, <1>3 DEF NumberInv, IndexOK, Items
    <2>2. Item \in cp.done \/ Firm(Item)
        BY <1>1, <1>2, <1>3, <2>1 DEF NumberInv, NumbersOK
    <2> QED BY <1>1, <1>2, <2>2 DEF Firm, NumberInv, UndoneOK
<1>4. ASSUME NEW i \in Items \ cp.done, i # Item PROVE Known(i) = {}
    <2>1. CASE i \in cur.done
        BY <2>1, <1>1, <1>4 DEF NumberInv, CursorOK
    <2>2. CASE i \notin cur.done
        BY <2>2, <1>3, <1>4
    <2> QED BY <2>1, <2>2
<1>5. Known(Item) \subseteq {cp.next}
    BY <1>1, <1>2 DEF NumberInv, NumbersOK
<1>6. Assigned = cp.next
    <2>1. record[Item].status = "ok" => record[Item].seq \in Known(Item)
        BY <1>1 DEF NumberInv, RowsOK, Known, PageKnown
    <2> QED BY <1>2, <1>5, <2>1 DEF Assigned
<1>7. NextAfter(Item, Assigned) = cp.next + Span(Item)
    BY <1>1, <1>2, <1>6, SpanPositive DEF NextAfter
<1> QED BY <1>1, <1>2, <1>3, <1>4, <1>5, <1>6, <1>7 DEF NoneButItem

(* The number an item is packaged under is no other item's. *)
LEMMA NeverTaken ==
    ASSUME NumberInv
    PROVE  /\ run.pc = "written" => ~Taken(run.seq)
           /\ Due /\ Item \notin withheld => ~Taken(Assigned)
<1>1. ASSUME NEW j \in Items, j # Item, record[j].seq = cp.next, cp.next # 0,
             \A i \in Items \ cp.done : i # Item => Known(i) = {}
      PROVE  FALSE
    <2>1. record[j].seq \in Known(j)
        BY <1>1 DEF Known
    <2>2. j \in cp.done
        BY <1>1, <2>1
    <2>3. record[j].seq + Span(j) <= cp.next /\ cp.next \in Nat
        BY <2>1, <2>2 DEF NumberInv, NumbersOK, ProduceTypeOK, Cursors
    <2> QED BY <1>1, <2>3, SpanPositive
<1>2. ASSUME run.pc = "written" PROVE ~Taken(run.seq)
    <2>1. run.seq = cp.next /\ \A i \in Items \ cp.done : i # Item => Known(i) = {}
        BY <1>2 DEF NumberInv, CursorOK, NoneButItem
    <2> QED BY <1>1, <2>1 DEF Taken
<1>3. ASSUME Due, Item \notin withheld PROVE ~Taken(Assigned)
    <2>1. Assigned = cp.next /\ \A i \in Items \ cp.done : i # Item => Known(i) = {}
        BY <1>3, Lone
    <2> QED BY <1>1, <2>1 DEF Taken
<1> QED BY <1>2, <1>3

LEMMA NeverRefused == ASSUME NumberInv PROVE ~Refusals
BY NeverTaken DEF Refusals, RefusePersist, RefuseRecord, Packaging

(* What the steps do to the holds that are not to be lifted. *)
LEMMA HoldSteps ==
    ASSUME [ProduceNext]_produceVars
    PROVE  \/ \E i \in Items : Hold(i) \/ Release(i)
           \/ \E s : Fail(s) /\ withheld' = withheld
           \/ UNCHANGED <<withheld, undone, reopened>>
<1>1. Crash \/ PackagingFails \/ FailImages \/ SweepAbort \/ GateAbort \/ RecheckAbort \/ Refusals =>
        \E s : Fail(s) /\ withheld' = withheld
    BY DEF Crash, PackagingFails, FailImages, SweepAbort, GateAbort, RecheckAbort, Refusals, RefusePersist, RefuseRecord
<1>2. Run \/ Rerun \/ Select \/ Setup \/ WriteLoad \/ Complete \/ SetupAbort \/ Refuse \/ Pause =>
        UNCHANGED <<withheld, undone, reopened>>
    BY DEF Run, Rerun, Select, Setup, WriteLoad, Complete, SetupAbort, Refuse, Pause
<1>3. Sweep => UNCHANGED <<withheld, undone, reopened>>
    BY DEF Sweep, SweepPass, SweepPurge, SweepRecord, SweepEnd
<1>4. Work => UNCHANGED <<withheld, undone, reopened>>
    BY DEF Work, SkipDone, Gate, GateRecord, Recover, Produce, Decline, Unreadable, RecheckWithheld, Persist,
           AppendRow, Save, FinishWork
<1>5. UNCHANGED produceVars => UNCHANGED <<withheld, undone, reopened>>
    BY DEF produceVars
<1> QED BY <1>1, <1>2, <1>3, <1>4, <1>5 DEF ProduceNext, Progress, Aborts

(* A reopened hold stays one; as long as there is none, what was undone is on hold. *)
LEMMA UndoneNext ==
    ASSUME [ProduceNext]_produceVars
    PROVE  (reopened => reopened') /\ (UndoneOK /\ ~reopened' => UndoneOK')
<1>1. CASE \E i \in Items : Hold(i) \/ Release(i)
    <2>1. PICK i \in Items : Hold(i) \/ Release(i)
        BY <1>1
    <2>a. undone' = undone /\ (Hold(i) => (reopened => reopened'))
        BY <2>1, SMT DEF Hold, Release
    <2>b. Release(i) => (reopened => reopened')
        BY Zenon DEF Release
    <2>2. undone' = undone /\ (reopened => reopened')
        BY <2>1, <2>a, <2>b, Zenon
    <2>3. withheld' = withheld \cup {i} \/ (withheld' = withheld \ {i} /\ (i \in undone => reopened'))
        BY <2>1, Zenon DEF Hold, Release
    <2> QED BY <2>2, <2>3 DEF UndoneOK
<1>2. CASE \E s : Fail(s) /\ withheld' = withheld
    BY <1>2 DEF Fail, UndoneOK
<1>3. CASE UNCHANGED <<withheld, undone, reopened>>
    BY <1>3 DEF UndoneOK
<1> QED BY <1>1, <1>2, <1>3, HoldSteps

(* A run that ends keeps the invariant if the numbers are. *)
LEMMA CursorStopped == ASSUME run' = Stopped PROVE CursorOK'
BY DEF CursorOK, Stopped, FreshCursor, cur

(* An item is passed, with the number it had, the next one or none. *)
LEMMA Passed ==
    ASSUME NumberInv, NEW j \in Items \ cur.done, j = Item, run.pc \in {"loop", "gatePurged", "written", "persisted"},
           run'.pc = "save", cp' = cp, withheld' = withheld, undone' = undone,
           cur'.index = j, cur'.done = cur.done \cup {j},
           \A i \in Items : i # j => Known(i)' = Known(i) /\ record'[i] = record[i],
           Known(j)' \subseteq {cp.next},
           \/ cur'.next = cp.next + Span(j) /\ NoneButItem
           \/ cur'.next = cp.next /\ Known(j)' = {} /\ (NoneButItem \/ record'[j].status = "withheld")
    PROVE  NumbersOK' /\ CursorOK'
<1>0. /\ cp.done \subseteq cur.done /\ cp \in Cursors /\ cur \in Cursors /\ cp.next \in Nat
      /\ cur.done \subseteq Items
    BY DEF NumberInv, CursorOK, ProduceTypeOK, Cursors, cur
<1>1. cp.next <= cur'.next /\ \A s \in Known(j)' : s + Span(j) <= cur'.next
    BY <1>0, SpanPositive
<1>2. NoneButItem => \A i \in Items \ cur'.done : Known(i)' = {}
    BY DEF NoneButItem
<1>3. NoneButItem => \A i \in Items \ cp.done : i # j => Known(i) = {}
    BY DEF NoneButItem, NumberInv, CursorOK
<1>4. \A k \in Items : k < j => k \in cur'.done
    BY <1>0, ProduceAssumptions DEF NumberInv, IndexOK, Item, Items, Cursors
<1>5. NumbersOK'
    <2>1. CASE NoneButItem
        BY <2>1, <1>0, <1>3, <1>4, NumbersGiven DEF NumberInv
    <2>2. CASE Known(j)' = {}
        <3>1. \A i \in Items : Known(i)' \subseteq Known(i)
            BY <2>2
        <3>2. \A k \in Items : Firm(k) => Firm(k)'
            BY DEF Firm
        <3> QED BY <1>0, <3>1, <3>2, NumbersKept DEF NumberInv, Cursors
    <2> QED BY <2>1, <2>2
<1>6. CursorOK'
    <2>1. cp.done \subseteq cur'.done
        BY <1>0
    <2>2. ASSUME NEW i \in cur'.done \ cp.done
          PROVE  \/ /\ Known(i)' = {} /\ record'[i].status = "withheld"
                 \/ i = cur'.index
        BY <1>0, <2>2 DEF NumberInv, CursorOK
    <2>3. \/ \A i \in Items \ cur'.done : Known(i)' = {}
          \/ cur'.next = cp.next /\ record'[cur'.index].status = "withheld"
        BY <1>2
    <2> QED BY <1>1, <2>1, <2>2, <2>3 DEF CursorOK, NoneBeyond, Span
<1> QED BY <1>5, <1>6

(* The database keeps its numbers; holds are as firm as they were. *)
Untouched == UNCHANGED <<cp, record, pageRows, undone, withheld>>

LEMMA UntouchedFacts ==
    ASSUME NumberInv, Untouched
    PROVE  /\ \A i \in Items : Known(i)' = Known(i)
           /\ \A k \in Items : Firm(k) => Firm(k)'
           /\ cp.done \subseteq Items /\ cur.done \subseteq Items
           /\ run.pc \notin {"persisted", "save"} => NumbersOK'
<1>1. \A i \in Items : Known(i)' = Known(i)
    BY DEF Untouched, Known, PageKnown
<1>2. \A k \in Items : Firm(k) => Firm(k)'
    BY DEF Untouched, Firm
<1>3. cp.done \subseteq Items /\ cur.done \subseteq Items
    BY DEF NumberInv, ProduceTypeOK, Cursors, cur
<1>4. ASSUME run.pc \notin {"persisted", "save"} PROVE NumbersOK'
    BY <1>1, <1>2, <1>3, <1>4, NumbersKept DEF NumberInv, Untouched
<1> QED BY <1>1, <1>2, <1>3, <1>4

(* The cursor moves without passing an item. *)
LEMMA Moved ==
    ASSUME NumberInv, Untouched, cur'.done = cur.done, cur'.next = cur.next,
           run.pc \in {"select", "setup", "sweep", "loop", "load", "check"},
           run'.pc \in {"setup", "sweep", "loop", "load", "check"},
           run.pc \in {"select", "setup"} => cur = cp
    PROVE  NumbersOK' /\ CursorOK'
<1>1. NumbersOK' /\ \A i \in Items : Known(i)' = Known(i)
    BY UntouchedFacts
<1>2. cp.done \subseteq cur.done /\ cur.next = cp.next
    BY DEF NumberInv, CursorOK
<1>3. \A i \in cur.done \ cp.done : /\ Known(i) = {} /\ record[i].status = "withheld"
    BY DEF NumberInv, CursorOK
<1>4. CursorOK'
    BY <1>1, <1>2, <1>3, UntouchedFacts DEF CursorOK, Untouched
<1> QED BY <1>1, <1>4

LEMMA NumberInit == ASSUME ProduceInit PROVE NumberInv
<1>1. ControlInv
    BY InitControl
<1>2. \A i \in Items : Known(i) = {}
    BY DEF ProduceInit, Known, PageKnown, NoRecord
<1>3. NumbersOK
    BY <1>2, ProduceAssumptions DEF NumbersOK, ProduceInit, FreshCursor
<1>4. CursorOK
    BY DEF CursorOK, ProduceInit, Begun, FreshCursor, cur
<1>5. RowsOK
    BY DEF RowsOK, ProduceInit, NoRecord
<1>6. UndoneOK
    BY DEF UndoneOK, ProduceInit
<1> QED BY <1>1, <1>3, <1>4, <1>5, <1>6 DEF NumberInv, ControlInv

(* A line is dropped, and the row of an item that is not produced is written. *)
LEMMA RowsDropped ==
    ASSUME NumberInv, NEW j \in Items,
           \/ rows' = [rows EXCEPT ![j] = 0]
           \/ rows' = rows /\ rows[j] = 0,
           \/ record' = record
           \/ record'[j].status # "ok" /\ \A i \in Items : i # j => record'[i] = record[i]
    PROVE  RowsOK'
BY DEF NumberInv, RowsOK, ProduceTypeOK

LEMMA NumberNext ==
    ASSUME NumberInv, [ProduceNext]_produceVars, ~reopened'
    PROVE  NumberInv'
<1>c. cur \in Cursors /\ cp \in Cursors /\ run \in RunType /\ ControlInv
    BY DEF NumberInv, ControlInv, ProduceTypeOK, RunType, cur
<1>a. ControlInv'
    BY <1>c, ControlNext
<1>u. UndoneOK'
    BY UndoneNext DEF NumberInv
<1> SUFFICES NumbersOK' /\ CursorOK' /\ RowsOK'
    BY <1>a, <1>u DEF NumberInv, ControlInv
<1>1. CASE Begin
    <2>1. cur' = cp /\ Untouched /\ run'.pc \in {"select", "setup", "sweep", "ended"} /\ run.pc = "stopped"
        BY <1>1, <1>c DEF Begin, Run, Rerun, Begun, cur, Untouched, Cursors, Phases
    <2>2. NumbersOK'
        BY <2>1, UntouchedFacts
    <2>3. CursorOK'
        BY <2>1 DEF CursorOK, Untouched
    <2>4. RowsOK'
        BY <1>1 DEF Begin, Run, Rerun, Begun, RowsOK, NumberInv
    <2> QED BY <2>2, <2>3, <2>4
<1>2. CASE Select \/ Setup
    <2>1. cur = cp
        BY <1>2, <1>c DEF Select, Setup, ControlInv, PlaceOK
    <2>2. cp' = cur' /\ cur'.next = cp.next /\ cur'.done = cp.done /\ run'.pc \in {"setup", "sweep"}
        <3>1. cp' \in Cursors /\ cp'.next = cur.next /\ cp'.done = cur.done
            BY <1>2, <1>c DEF Select, Setup, Cursors, Phases
        <3>2. Go("setup", cp') \/ Go("sweep", cp')
            BY <1>2 DEF Select, Setup
        <3> QED BY <1>c, <2>1, <3>1, <3>2, GoFacts DEF Places
    <2>3. (\A i \in Items : Known(i)' \subseteq Known(i)) /\ (\A k \in Items : Firm(k) => Firm(k)')
        BY <1>2 DEF Select, Setup, Known, PageKnown, Firm
    <2>4. NumbersOK'
        BY <1>2, <1>c, <2>2, <2>3, NumbersKept DEF Select, Setup, NumberInv, Cursors
    <2>5. CursorOK'
        BY <2>2 DEF CursorOK
    <2>6. RowsOK'
        BY <1>2 DEF Select, Setup, RowsOK, NumberInv
    <2> QED BY <2>4, <2>5, <2>6
<1>3. CASE Refuse \/ SetupAbort
    <2>1. run' = Stopped /\ Untouched /\ run.pc \notin {"persisted", "save"} /\ rows' = rows
        BY <1>3 DEF Refuse, SetupAbort, Untouched
    <2>2. NumbersOK' /\ CursorOK'
        BY <2>1, UntouchedFacts, CursorStopped
    <2>3. RowsOK'
        BY <2>1 DEF Untouched, RowsOK, NumberInv
    <2> QED BY <2>2, <2>3
<1>4. CASE SweepAbort \/ GateAbort \/ RecheckAbort \/ FailImages \/ Crash
    <2>1. run' = Stopped /\ UNCHANGED <<cp, record, pageRows>> /\ undone' = undone \cup TakingBack
        BY <1>4 DEF SweepAbort, GateAbort, RecheckAbort, FailImages, Crash, Fail
    <2>2. NumbersOK' /\ CursorOK'
        BY <2>1, NumbersLost, CursorStopped
    <2>3. RowsOK'
        BY <1>4 DEF SweepAbort, GateAbort, RecheckAbort, FailImages, Crash, RowsOK, NumberInv, ProduceTypeOK
    <2> QED BY <2>2, <2>3
<1>5. CASE SweepPass \/ SweepEnd \/ WriteLoad \/ SkipDone
    <2>1. Untouched /\ rows' = rows
        BY <1>5 DEF SweepPass, SweepEnd, WriteLoad, SkipDone, Untouched
    <2>2. cur'.done = cur.done /\ cur'.next = cur.next
        BY <1>5, <1>c DEF SweepPass, SweepEnd, WriteLoad, SkipDone, Go, cur, RunType, Cursors
    <2>3. run.pc \in {"sweep", "loop", "load"} /\ run'.pc \in {"sweep", "loop", "load", "check"}
        BY <1>5, <1>c DEF SweepPass, Sweeping, SweepEnd, WriteLoad, SkipDone, Working, Go, RunType
    <2>4. NumbersOK' /\ CursorOK'
        BY <2>1, <2>2, <2>3, Moved
    <2>5. RowsOK'
        BY <2>1 DEF Untouched, RowsOK, NumberInv
    <2> QED BY <2>4, <2>5
<1>6. CASE SweepPurge \/ Gate
    <2>1. PICK j \in Items :
            /\ pageRows' = [pageRows EXCEPT ![j] = 0] /\ j \in withheld
            /\ SweepPurge => j = run.at
            /\ Gate => j = Item
        <3>1. SweepPurge => run.at \in Items
            BY <1>c DEF SweepPurge, Sweeping, ControlInv, PlaceOK, ProduceAssumptions, Items
        <3>2. Gate => Item \in Items
            BY <1>c, ItemFacts DEF Gate, Due
        <3>3. CASE SweepPurge
            BY <3>1, <3>3 DEF SweepPurge, Purge, Sweeping, Gate, Due, Working
        <3>4. CASE Gate
            BY <3>2, <3>4 DEF Gate, Purge, SweepPurge, Sweeping, Due, Working
        <3> QED BY <1>6, <3>3, <3>4
    <2>2. /\ cur' = cur /\ run'.at = run.at /\ cp' = cp /\ record' = record /\ rows' = rows
          /\ withheld' = withheld /\ undone' = undone
          /\ SweepPurge => run.pc = "sweep" /\ run'.pc = "sweepPurged"
          /\ Gate => run.pc = "loop" /\ run'.pc = "gatePurged"
        BY <1>6, <1>c, GoFacts DEF SweepPurge, Sweeping, Gate, Due, Working, Places
    <2>3. (\A i \in Items : Known(i)' \subseteq Known(i)) /\ (\A k \in Items : Firm(k) => Firm(k)')
        BY <2>1, <2>2 DEF Known, PageKnown, Firm, NumberInv, ProduceTypeOK
    <2>4. NumbersOK'
        BY <1>6, <1>c, <2>2, <2>3, NumbersKept DEF NumberInv, Cursors
    <2>5. pageRows'[j] = 0 /\ (SweepPurge => run'.at = j) /\ (Gate => Item' = j)
        BY <2>1, <2>2 DEF NumberInv, ProduceTypeOK, Item
    <2>6. cp.done \subseteq cur.done /\ cur.next = cp.next /\ cur.done \subseteq Items
        BY <1>6, <1>c, <2>2 DEF NumberInv, CursorOK, Cursors
    <2>7. \A i \in cur.done \ cp.done : /\ Known(i)' = {} /\ record[i].status = "withheld"
        BY <1>6, <2>2, <2>3, <2>6 DEF NumberInv, CursorOK
    <2>8. CursorOK'
        BY <1>6, <2>1, <2>2, <2>5, <2>6, <2>7 DEF CursorOK
    <2>9. RowsOK'
        BY <2>2 DEF RowsOK, NumberInv
    <2> QED BY <2>4, <2>8, <2>9
<1>7. CASE SweepRecord
    <2>0. run.at \in Items /\ pageRows[run.at] = 0
        BY <1>7, <1>c DEF SweepRecord, ControlInv, PlaceOK, NumberInv, CursorOK
    <2>1. /\ run.pc = "sweepPurged" /\ run'.pc = "sweep" /\ cur'.next = cur.next
          /\ cur'.done = cur.done \cup {run.at}
        BY <1>7, <1>c DEF SweepRecord, cur, RunType, Cursors
    <2>2. /\ record' = [record EXCEPT ![run.at] = [status |-> "withheld", seq |-> 0]]
          /\ UNCHANGED <<cp, pageRows, withheld, undone>> /\ rows' = [rows EXCEPT ![run.at] = 0]
        BY <1>7 DEF SweepRecord, RecordWithheld
    <2>3. /\ \A i \in Items : Known(i)' \subseteq Known(i)
          /\ \A k \in Items : Firm(k) => Firm(k)'
        BY <2>0, <2>2 DEF Known, PageKnown, Firm, NumberInv, ProduceTypeOK
    <2>4. NumbersOK'
        BY <1>c, <2>1, <2>2, <2>3, NumbersKept DEF NumberInv, Cursors
    <2>5. ASSUME NEW i \in cur'.done \ cp.done
          PROVE  Known(i)' = {} /\ record'[i].status = "withheld"
        <3>1. CASE i = run.at
            BY <2>0, <2>2, <3>1 DEF Known, PageKnown, NumberInv, ProduceTypeOK
        <3>2. CASE i # run.at
            <4>1. i \in cur.done \ cp.done /\ i \in Items
                BY <1>c, <2>1, <2>5, <3>2 DEF Cursors
            <4> QED BY <2>1, <2>2, <2>3, <3>2, <4>1 DEF NumberInv, CursorOK, ProduceTypeOK
        <3> QED BY <3>1, <3>2
    <2>6. CursorOK'
        BY <2>1, <2>2, <2>5 DEF CursorOK, NumberInv
    <2>7. RowsOK'
        BY <2>0, <2>2, RowsDropped DEF NumberInv, ProduceTypeOK
    <2> QED BY <2>4, <2>6, <2>7
<1>8. CASE Pause
    <2>1. run.pc = "loop" /\ run' = Stopped /\ cp' = cur
        BY <1>8 DEF Pause, Working
    <2>2. NumbersOK' /\ CursorOK'
        BY <1>8, <2>1, NumbersSaved, CursorStopped DEF Pause
    <2>3. RowsOK'
        BY <1>8 DEF Pause, RowsOK, NumberInv
    <2> QED BY <2>2, <2>3
<1>9. CASE FinishWork
    <2>1. /\ run.pc = "loop" /\ cp'.next = cur.next /\ cp'.done = cur.done /\ cur' = cp'
          /\ run'.pc = "sweep"
        BY <1>9, <1>c DEF FinishWork, cur, RunType, Cursors
    <2>2. NumbersOK'
        BY <1>9, <2>1, NumbersSaved DEF FinishWork
    <2>3. CursorOK'
        BY <2>1 DEF CursorOK
    <2>4. RowsOK'
        BY <1>9 DEF FinishWork, RowsOK, NumberInv
    <2> QED BY <2>2, <2>3, <2>4
<1>10. CASE Save
    <2>1. /\ run.pc = "save" /\ cp' = cur /\ cur' = cur
          /\ run'.pc \in {"loop", "ended"}
        BY <1>10, <1>c, GoFacts DEF Save, Places
    <2>2. NumbersOK'
        BY <1>10, <2>1, NumbersSaved DEF Save
    <2>3. CursorOK'
        BY <2>1 DEF CursorOK
    <2>4. RowsOK'
        BY <1>10 DEF Save, RowsOK, NumberInv
    <2> QED BY <2>2, <2>3, <2>4
<1>11. CASE Complete
    <2>1. /\ run.pc = "check" /\ run'.pc = "save" /\ cur'.done = cur.done /\ cur'.next = cur.next
          /\ cur'.index = cur.index
        BY <1>11, <1>c DEF Complete, Go, cur, RunType, Cursors
    <2>2. Untouched /\ rows' = rows
        BY <1>11 DEF Complete, Untouched
    <2>3. NumbersOK' /\ \A i \in Items : Known(i)' = Known(i)
        BY <2>1, <2>2, UntouchedFacts
    <2>4. cur.index = N /\ cur.done = Items /\ cp.done = Items /\ cur.next = cp.next
        <3>1. cur.index = N /\ cp.index = N /\ cur.next = cp.next
            BY <1>c, <2>1 DEF ControlInv, PlaceOK, IndexOK, NumberInv, CursorOK
        <3>2. \A k \in Items : k \in cur.done /\ k \in cp.done
            BY <1>c, <3>1, ProduceAssumptions DEF ControlInv, IndexOK, Items
        <3> QED BY <1>c, <3>1, <3>2 DEF Cursors
    <2>5. N \in Items /\ \A s \in Known(N) : s + Span(N) <= cp.next
        BY <2>4, ProduceAssumptions DEF NumberInv, NumbersOK, Items
    <2>6. CursorOK'
        BY <1>c, <2>1, <2>2, <2>3, <2>4, <2>5 DEF CursorOK, Untouched, NoneBeyond, Cursors, Span
    <2>7. RowsOK'
        BY <2>2 DEF Untouched, RowsOK, NumberInv
    <2> QED BY <2>3, <2>6, <2>7
<1>12. CASE \E i \in Items : Hold(i) \/ Release(i)
    <2>1. UNCHANGED <<cp, run, record, pageRows, rows, undone>>
        BY <1>12 DEF Hold, Release
    <2>2. /\ \A i \in Items : Known(i)' = Known(i)
          /\ \A k \in Items : Firm(k) => Firm(k)'
          /\ cur' = cur /\ cp.done \subseteq Items /\ cur.done \subseteq Items
        BY <1>c, <2>1 DEF Known, PageKnown, Firm, cur, Cursors
    <2>3. NumbersOK'
        BY <2>1, <2>2, NumbersKept DEF NumberInv
    <2>4. CursorOK'
        <3>1. /\ Item' = Item /\ (NoneBeyond => NoneBeyond') /\ (NoneButItem => NoneButItem')
            BY <2>2 DEF Item, NoneBeyond, NoneButItem
        <3>2. Known(cur.index)' = Known(cur.index)
            BY <2>1, <2>2 DEF Known, PageKnown
        <3>3. \A i \in cur.done \ cp.done :
                \/ Known(i)' = {} /\ record'[i].status = "withheld"
                \/ run'.pc = "save" /\ i = cur'.index
            BY <2>1, <2>2 DEF NumberInv, CursorOK
        <3> QED BY <2>1, <2>2, <3>1, <3>2, <3>3 DEF NumberInv, CursorOK, Span
    <2>5. RowsOK'
        BY <2>1 DEF RowsOK, NumberInv
    <2> QED BY <2>3, <2>4, <2>5
<1>13. CASE GateRecord
    <2>1. PICK j \in Items : j = Item
        BY <1>13, <1>c, ItemFacts DEF GateRecord
    <2>3. /\ run.pc = "gatePurged" /\ run'.pc = "save" /\ cur'.index = j /\ cur'.done = cur.done \cup {j}
          /\ cur'.next = cur.next /\ cp' = cp
        BY <1>13, <1>c, <2>1, PassingFacts DEF Passing, GateRecord, RecheckWithheld, AppendRow, Recover, Decline,
                                            Packaging, Due, Working
    <2>4. /\ cur.next = cp.next /\ pageRows[j] = 0
          /\ j \notin cur.done
        BY <1>c, <2>1, <2>3 DEF NumberInv, CursorOK, PlaceOK
    <2>5. /\ record' = [record EXCEPT ![j] = [status |-> "withheld", seq |-> 0]]
          /\ rows' = [rows EXCEPT ![j] = 0] /\ UNCHANGED <<pageRows, withheld, undone>>
        BY <1>13, <2>1 DEF GateRecord, SkipWithheld, RecordWithheld
    <2>6. /\ \A i \in Items : i # j => Known(i)' = Known(i) /\ record'[i] = record[i]
          /\ Known(j)' = {}
        BY <2>4, <2>5 DEF Known, PageKnown, NumberInv, ProduceTypeOK
    <2>a. record'[j].status = "withheld"
        BY <2>5 DEF NumberInv, ProduceTypeOK
    <2>7. NumbersOK' /\ CursorOK'
        BY <2>1, <2>3, <2>4, <2>5, <2>6, <2>a, Passed
    <2>8. RowsOK'
        BY <2>5, RowsDropped DEF NumberInv, ProduceTypeOK
    <2> QED BY <2>7, <2>8
<1>14. CASE RecheckWithheld
    <2>1. PICK j \in Items : j = Item
        BY <1>14, <1>c, ItemFacts DEF RecheckWithheld
    <2>3. /\ run.pc = "written" /\ run'.pc = "save" /\ cur'.index = j /\ cur'.done = cur.done \cup {j}
          /\ cur'.next = cur.next /\ cp' = cp
        BY <1>14, <1>c, <2>1, PassingFacts DEF Passing, GateRecord, RecheckWithheld, AppendRow, Recover, Decline,
                                            Packaging, Due, Working
    <2>4. /\ cur.next = cp.next + Span(j) /\ NoneButItem /\ rows[j] = 0
          /\ j \notin cur.done /\ cp.done \subseteq cur.done
        BY <1>c, <2>1, <2>3 DEF NumberInv, CursorOK, PlaceOK
    <2>5. /\ record' = [record EXCEPT ![j] = [status |-> "withheld", seq |-> 0]]
          /\ UNCHANGED <<rows, pageRows, withheld, undone>>
        BY <1>14, <2>1 DEF RecheckWithheld, SkipWithheld, RecordWithheld
    <2>6. /\ \A i \in Items : i # j => Known(i)' = Known(i) /\ record'[i] = record[i]
          /\ Known(j)' \subseteq Known(j)
        BY <2>5 DEF Known, PageKnown, NumberInv, ProduceTypeOK
    <2>7. Known(j) \subseteq {cp.next}
        BY <2>4 DEF NumberInv, NumbersOK
    <2>8. NumbersOK' /\ CursorOK'
        BY <2>1, <2>3, <2>4, <2>5, <2>6, <2>7, Passed
    <2>9. RowsOK'
        BY <2>4, <2>5, RowsDropped DEF NumberInv, ProduceTypeOK
    <2> QED BY <2>8, <2>9
<1>15. CASE AppendRow
    <2>1. PICK j \in Items : j = Item
        BY <1>15, <1>c, ItemFacts DEF AppendRow
    <2>3. /\ run.pc = "persisted" /\ run'.pc = "save" /\ cur'.index = j /\ cur'.done = cur.done \cup {j}
          /\ cur'.next = cur.next /\ cp' = cp
        BY <1>15, <1>c, <2>1, PassingFacts DEF Passing, GateRecord, RecheckWithheld, AppendRow, Recover, Decline,
                                            Packaging, Due, Working
    <2>4. /\ cur.next = cp.next + Span(j) /\ NoneButItem
          /\ j \notin cur.done /\ cp.done \subseteq cur.done
          /\ record[j] = [status |-> "ok", seq |-> run.seq]
        BY <1>c, <2>1, <2>3 DEF NumberInv, CursorOK, PlaceOK
    <2>5. UNCHANGED <<record, pageRows, withheld, undone>> /\ rows' = [rows EXCEPT ![j] = run.seq]
        BY <1>15, <2>1 DEF AppendRow
    <2>6. \A i \in Items : Known(i)' = Known(i)
        BY <2>5 DEF Known, PageKnown
    <2>7. Known(j) \subseteq {cp.next}
        BY <2>4 DEF NumberInv, NumbersOK
    <2>8. NumbersOK' /\ CursorOK'
        BY <2>1, <2>3, <2>4, <2>5, <2>6, <2>7, Passed
    <2>9. RowsOK'
        BY <2>4, <2>5 DEF RowsOK, NumberInv, ProduceTypeOK
    <2> QED BY <2>8, <2>9
<1>16. CASE Recover
    <2>1. PICK j \in Items : j = Item
        BY <1>16, <1>c, ItemFacts DEF Recover, Due
    <2>l. Due /\ Item \notin withheld /\ run.pc = "loop"
        BY <1>16 DEF Recover, Due, Working
    <2>2. rows[j] = cp.next /\ NextAfter(Item, rows[Item]) = cp.next + Span(j)
        <3>1. rows[j] # 0 /\ record[j].seq = rows[j]
            BY <1>16, <2>1, <1>c DEF Recover, Intact, NumberInv, RowsOK, ControlInv, ProduceTypeOK
        <3>2. rows[j] = cp.next
            BY <2>1, <2>l, <3>1, Lone DEF Known, PageKnown
        <3>3. cur.next = cp.next /\ cp.next \in Nat
            BY <1>c, <2>l, Lone DEF Cursors
        <3> QED BY <2>1, <3>2, <3>3, SpanPositive DEF NextAfter
    <2>4. /\ run'.pc = "save" /\ cur'.index = j /\ cur'.done = cur.done \cup {j}
          /\ cur'.next = cp.next + Span(j) /\ cp' = cp
        BY <1>16, <1>c, <2>1, <2>2, PassingFacts DEF Passing
    <2>5. Untouched /\ rows' = rows
        BY <1>16 DEF Recover, Untouched
    <2>6. \A i \in Items : Known(i)' = Known(i)
        BY <2>5, UntouchedFacts
    <2>7. NumbersOK' /\ CursorOK'
        BY <2>1, <2>l, <2>4, <2>5, <2>6, Lone, Passed DEF Untouched
    <2>8. RowsOK'
        BY <2>5 DEF Untouched, RowsOK, NumberInv
    <2> QED BY <2>7, <2>8
<1>17. CASE Decline
    <2>1. PICK j \in Items : j = Item
        BY <1>17, <1>c, ItemFacts DEF Decline, Packaging, Due
    <2>l. Due /\ Working /\ Item \notin withheld /\ run.pc = "loop"
        BY <1>17 DEF Decline, Packaging, Due, Working
    <2>2. Assigned = cp.next /\ NextAfter(Item, Assigned) = cp.next + Span(j)
        BY <2>1, <2>l, Lone
    <2>3. PICK o \in {"skipped", "error"} : record' = [record EXCEPT ![Item] = [status |-> o, seq |-> Assigned]]
        BY <1>17 DEF Decline
    <2>5. /\ run'.pc = "save" /\ cur'.index = j /\ cur'.done = cur.done \cup {j}
          /\ cur'.next = cp.next + Span(j) /\ cp' = cp
        BY <1>17, <1>c, <2>1, <2>2, PassingFacts DEF Passing, Decline, Recover, Packaging
    <2>6. /\ UNCHANGED <<pageRows, withheld, undone>> /\ rows' = [rows EXCEPT ![j] = 0]
          /\ record' = [record EXCEPT ![j] = [status |-> o, seq |-> cp.next]]
        BY <1>17, <2>1, <2>2, <2>3 DEF Decline, Packaging
    <2>7. /\ \A i \in Items : i # j => Known(i)' = Known(i) /\ record'[i] = record[i]
          /\ Known(j)' \subseteq {cp.next}
        BY <2>1, <2>l, <2>6, Lone DEF Known, PageKnown, NumberInv, ProduceTypeOK
    <2>8. NumbersOK' /\ CursorOK'
        BY <2>1, <2>l, <2>5, <2>6, <2>7, Lone, Passed
    <2>9. RowsOK'
        BY <2>6, RowsDropped DEF NumberInv, ProduceTypeOK
    <2> QED BY <2>8, <2>9
<1>18. CASE Unreadable
    <2>1. PICK j \in Items : j = Item
        BY <1>18, <1>c, ItemFacts DEF Unreadable, Packaging, Due
    <2>l. Due /\ Working /\ Item \notin withheld /\ run.pc = "loop"
        BY <1>18 DEF Unreadable, Packaging, Due, Working
    <2>2. ~Decline
        <3>1. Assigned # 0 /\ record'[Item].seq = 0
            BY <1>18, <1>c, <2>1, <2>l, Lone DEF NumberInv, NumbersOK, Unreadable, ProduceTypeOK, Cursors
        <3> QED BY <2>1, <3>1 DEF Decline, NumberInv, ProduceTypeOK
    <2>3. /\ run'.pc = "save" /\ cur'.index = j /\ cur'.done = cur.done \cup {j}
          /\ cur'.next = cur.next /\ cp' = cp
        BY <1>18, <1>c, <2>1, <2>2, PassingFacts DEF Passing, Unreadable, Recover, Packaging
    <2>4. /\ UNCHANGED <<pageRows, withheld, undone>> /\ rows' = [rows EXCEPT ![j] = 0]
          /\ record' = [record EXCEPT ![j] = [status |-> "error", seq |-> 0]]
        BY <1>18, <2>1 DEF Unreadable, Packaging
    <2>5. /\ \A i \in Items : i # j => Known(i)' = Known(i) /\ record'[i] = record[i]
          /\ Known(j)' = {}
        BY <1>18, <2>1, <2>4 DEF Unreadable, Known, PageKnown, NumberInv, ProduceTypeOK
    <2>6. NumbersOK' /\ CursorOK'
        BY <2>1, <2>l, <2>3, <2>4, <2>5, Lone, Passed
    <2>7. RowsOK'
        BY <2>4, RowsDropped DEF NumberInv, ProduceTypeOK
    <2> QED BY <2>6, <2>7
<1>19. CASE PackagingFails
    <2>1. PICK j \in Items : j = Item
        BY <1>19, <1>c, ItemFacts DEF PackagingFails, Packaging, Due
    <2>l. Due /\ Working /\ Item \notin withheld /\ run.pc = "loop"
        BY <1>19 DEF PackagingFails, Packaging, Due, Working
    <2>2. /\ run' = Stopped /\ UNCHANGED <<cp, pageRows>> /\ rows' = [rows EXCEPT ![j] = 0]
          /\ undone' = undone \cup TakingBack
        BY <1>19, <2>1 DEF PackagingFails, Fail, Packaging
    <2>3. PICK s \in {cp.next, 0} : record' = [record EXCEPT ![j] = [status |-> "error", seq |-> s]]
        BY <1>19, <2>1, <2>l, Lone DEF PackagingFails
    <2>4. /\ \A i \in Items : i # j => Known(i)' = Known(i)
          /\ Known(j)' \subseteq {cp.next}
        BY <2>1, <2>l, <2>2, <2>3, Lone DEF Known, PageKnown, NumberInv, ProduceTypeOK
    <2>5. ASSUME NEW k \in Items, k < j PROVE k \in cp.done \/ Firm(k)'
        <3>1. k \in cur.done
            BY <1>c, <2>1, <2>5, ProduceAssumptions DEF ControlInv, IndexOK, Item, Items, Cursors
        <3>2. k \in cp.done \/ k \in TakingBack
            BY <2>l, <3>1 DEF NumberInv, CursorOK, TakingBack
        <3> QED BY <2>2, <3>2 DEF Firm
    <2>6. NumbersOK' /\ CursorOK'
        BY <1>c, <2>1, <2>l, <2>2, <2>4, <2>5, Lone, NumbersGiven, CursorStopped DEF NumberInv, Cursors
    <2>7. RowsOK'
        BY <2>2, <2>3, RowsDropped DEF NumberInv, ProduceTypeOK
    <2> QED BY <2>6, <2>7
<1>20. CASE Produce
    <2>1. PICK j \in Items : j = Item
        BY <1>20, <1>c, ItemFacts DEF Produce, Packaging, Due
    <2>l. Due /\ Working /\ Item \notin withheld /\ run.pc = "loop"
        BY <1>20 DEF Produce, Packaging, Due, Working
    <2>2. /\ Assigned = cp.next /\ Numbered \in Cursors
          /\ Numbered.index = cur.index /\ Numbered.done = cur.done /\ Numbered.next = cp.next + Span(j)
        BY <1>c, <2>1, <2>l, Lone, AssignedType
    <2>3. run'.pc = "written" /\ cur' = Numbered /\ run'.seq = cp.next
        BY <1>20, <1>c, <2>2 DEF Produce, RunType, cur
    <2>4. Untouched /\ rows' = [rows EXCEPT ![j] = 0]
        BY <1>20, <2>1 DEF Produce, Packaging, Untouched
    <2>5. NumbersOK' /\ (\A i \in Items : Known(i)' = Known(i)) /\ cur.done \subseteq Items
        BY <2>l, <2>4, UntouchedFacts
    <2>6. Item' = j /\ NoneButItem' /\ rows'[j] = 0
        BY <2>1, <2>l, <2>2, <2>3, <2>4, <2>5, Lone DEF Item, NoneButItem, NumberInv, ProduceTypeOK
    <2>7. \A i \in cur.done \ cp.done : /\ Known(i)' = {} /\ record[i].status = "withheld"
        BY <2>l, <2>5 DEF NumberInv, CursorOK
    <2>8. CursorOK'
        BY <2>l, <2>2, <2>3, <2>4, <2>6, <2>7, Lone DEF CursorOK, Untouched, Span
    <2>9. RowsOK'
        BY <2>4, RowsDropped DEF Untouched
    <2> QED BY <2>5, <2>8, <2>9
<1>21. CASE Persist
    <2>1. PICK j \in Items : j = Item
        BY <1>21, <1>c, ItemFacts DEF Persist
    <2>2. /\ run.pc = "written" /\ run'.pc = "persisted" /\ cur' = cur /\ run'.seq = run.seq
          /\ UNCHANGED <<cp, rows, withheld, undone>>
        BY <1>21, <1>c, GoFacts DEF Persist, Places
    <2>3. /\ run.seq = cp.next /\ cur.next = cp.next + Span(j) /\ NoneButItem /\ rows[j] = 0
          /\ j \notin cur.done /\ cp.done \subseteq cur.done /\ cur.done \subseteq Items /\ cp.next # 0
        BY <1>c, <2>1, <2>2 DEF NumberInv, CursorOK, PlaceOK, Cursors, NumbersOK
    <2>4. /\ record' = [record EXCEPT ![j] = [status |-> "ok", seq |-> cp.next]]
          /\ pageRows' \in {pageRows, [pageRows EXCEPT ![j] = cp.next]}
        BY <1>21, <2>1, <2>3 DEF Persist
    <2>5. Known(j) \subseteq {cp.next}
        BY <2>3 DEF NumberInv, NumbersOK
    <2>6. /\ \A i \in Items : i # j => Known(i)' = Known(i) /\ record'[i] = record[i]
          /\ Known(j)' \subseteq {cp.next} /\ record'[j] = [status |-> "ok", seq |-> cp.next]
        BY <2>4, <2>5 DEF Known, PageKnown, NumberInv, ProduceTypeOK
    <2>7. \A k \in Items : k < j => k \in cur.done
        BY <1>c, <2>1, ProduceAssumptions DEF ControlInv, IndexOK, Item, Items, Cursors
    <2>8. \A i \in Items \ cp.done : i # j => Known(i) = {}
        BY <2>1, <2>2, <2>3 DEF NoneButItem, NumberInv, CursorOK
    <2>9. NumbersOK'
        BY <2>2, <2>3, <2>6, <2>7, <2>8, NumbersGiven DEF NumberInv
    <2>10. Item' = j /\ NoneButItem'
        BY <2>1, <2>2, <2>3, <2>6 DEF Item, NoneButItem
    <2>11. \A i \in cur.done \ cp.done : /\ Known(i)' = {} /\ record'[i].status = "withheld"
        BY <2>2, <2>3, <2>6 DEF NumberInv, CursorOK
    <2>12. CursorOK'
        BY <2>2, <2>3, <2>6, <2>10, <2>11 DEF CursorOK, Span
    <2>13. RowsOK'
        BY <2>2, <2>3, <2>6 DEF RowsOK, NumberInv
    <2> QED BY <2>9, <2>12, <2>13
<1>22. CASE UNCHANGED produceVars
    <2>1. UNCHANGED <<cp, run, record, pageRows, rows, undone, withheld>> /\ cur' = cur
        BY <1>22 DEF produceVars, cur
    <2>2. /\ \A i \in Items : Known(i)' = Known(i)
          /\ \A k \in Items : Firm(k)' <=> Firm(k)
          /\ Known(cur.index)' = Known(cur.index) /\ Item' = Item
          /\ cp.done \subseteq Items /\ cur.done \subseteq Items
        BY <1>c, <2>1 DEF Known, PageKnown, Firm, Cursors, Item
    <2>3. NumbersOK'
        BY <2>1, <2>2, NumbersKept DEF NumberInv
    <2>4. CursorOK'
        BY <2>1, <2>2 DEF NumberInv, CursorOK, Span, NoneBeyond, NoneButItem
    <2>5. RowsOK'
        BY <2>1 DEF RowsOK, NumberInv
    <2> QED BY <2>3, <2>4, <2>5
<1> QED
    BY <1>1, <1>2, <1>3, <1>4, <1>5, <1>6, <1>7, <1>8, <1>9, <1>10, <1>11, <1>12, <1>13, <1>14, <1>15,
       <1>16, <1>17, <1>18, <1>19, <1>20, <1>21, <1>22, NeverRefused
    DEF ProduceNext, Progress, Work, Sweep, Aborts, Begin

(* Two items that are numbered have spans that do not meet. *)
LEMMA NumbersApart ==
    ASSUME NumberInv, NEW i \in Items, NEW j \in Items, i # j, NEW s \in Known(i), NEW t \in Known(j)
    PROVE  Numbers(i, s) \cap Numbers(j, t) = {}
<1>1. s \in Nat /\ t \in Nat
    BY KnownNat DEF NumberInv
<1>2. CASE i \in cp.done /\ j \in cp.done
    BY <1>2 DEF NumberInv, NumbersOK
<1>3. CASE i \in cp.done /\ j \notin cp.done
    <2>1. t = cp.next /\ s + Span(i) <= cp.next
        BY <1>3 DEF NumberInv, NumbersOK
    <2> QED BY <2>1, <1>1, SpansApart
<1>4. CASE i \notin cp.done /\ j \in cp.done
    <2>1. s = cp.next /\ t + Span(j) <= cp.next
        BY <1>4 DEF NumberInv, NumbersOK
    <2> QED BY <2>1, <1>1, SpansApart
<1>5. CASE i \notin cp.done /\ j \notin cp.done
    BY <1>5 DEF NumberInv, NumbersOK
<1> QED BY <1>2, <1>3, <1>4, <1>5

LEMMA NumberHolds ==
    ASSUME ~reopened => NumberInv, [ProduceNext]_produceVars
    PROVE  ~reopened' => NumberInv'
BY NumberNext, UndoneNext

LEMMA NumbersShared == ASSUME NumberInv PROVE ControlsNeverShared
<1>1. ASSUME NEW i \in Items, NEW j \in Items, i # j, record[i].seq # 0, record[j].seq # 0
      PROVE  Numbers(i, record[i].seq) \cap Numbers(j, record[j].seq) = {}
    BY <1>1, NumbersApart DEF Known
<1>2. ASSUME NEW i \in Items, NEW j \in Items, i # j, rows[i] # 0, rows[i] = rows[j]
      PROVE  FALSE
    <2>1. record[i].seq = rows[i] /\ record[j].seq = rows[i] /\ rows[i] \in Nat
        BY <1>2 DEF NumberInv, RowsOK, ProduceTypeOK
    <2>2. rows[i] \in Numbers(i, rows[i]) /\ rows[i] \in Numbers(j, rows[i])
        BY <2>1, SpanPositive DEF Numbers
    <2> QED BY <1>1, <1>2, <2>1, <2>2
<1>3. ASSUME run.pc = "written", NEW j \in Items, j # Item, record[j].seq # 0
      PROVE  Numbers(Item, run.seq) \cap Numbers(j, record[j].seq) = {}
    <2>1. Item \in Items /\ run.seq = cp.next /\ cp.next \in Nat /\ record[j].seq \in Nat
        BY <1>3, ItemFacts DEF NumberInv, ControlInv, CursorOK, ProduceTypeOK, Cursors
    <2>2. record[j].seq \in Known(j)
        BY <1>3 DEF Known
    <2>3. j \in cp.done
        BY <1>3, <2>2 DEF NumberInv, CursorOK, NoneButItem
    <2>4. record[j].seq + Span(j) <= cp.next
        BY <2>2, <2>3 DEF NumberInv, NumbersOK
    <2> QED BY <2>1, <2>4, SpansApart
<1> QED BY <1>1, <1>2, <1>3 DEF ControlsNeverShared

(* In every production no two items ever share a number, not when a pause, a   *)
(* crash or a failed packaging comes between the rows and the checkpoint, nor  *)
(* when the job is resumed, as long as no hold is lifted that a run had acted  *)
(* on and died.                                                                *)
THEOREM ControlsNeverSharedTheorem == ProduceSpec => []ControlsNeverShared
<1> DEFINE Inv == ControlInv /\ (~reopened => NumberInv)
<1>1. ProduceInit => Inv
    BY NumberInit, InitControl
<1>2. Inv /\ [ProduceNext]_produceVars => Inv'
    BY ControlNext, NumberHolds
<1>3. Inv => ControlsNeverShared
    BY NumbersShared DEF ControlsNeverShared
<1> QED BY <1>1, <1>2, <1>3, PTL DEF ProduceSpec

-----------------------------------------------------------------------------
(* The files of the items that are done. *)

(* get_item fails on an item always or never. *)
ReadsAreStable == \A i \in Items : "missing" \in Outcomes[i] => Outcomes[i] = {"missing"}

LEMMA ArtifactFacts ==
    ASSUME NEW i \in Items, NEW s \in Nat, NEW f \in Artifacts(i, s)
    PROVE  f.item = i /\ f.seq \in Numbers(i, s) /\ f.seq \in Nat /\ f.seq >= s
<1>1. CASE f \in Images(i, s)
    <2>1. PICK q \in 0..(Pages[i] - 1) : f = [seq |-> s + q, ext |-> "tif", item |-> i]
        BY <1>1 DEF Images
    <2> QED BY <2>1, ProduceAssumptions DEF Numbers, Span
<1>2. CASE f \notin Images(i, s)
    <2>1. PICK e \in Exts[i] : f = [seq |-> s, ext |-> e, item |-> i]
        BY <1>2 DEF Artifacts
    <2> QED BY <2>1, SpanPositive DEF Numbers
<1> QED BY <1>1, <1>2

LEMMA KnownAll ==
    ASSUME ReadOK, NEW i \in Items
    PROVE  Known(i) = {record[i].seq, pageRows[i]} \ {0}
BY DEF ReadOK, Known, PageKnown

(* A purge of one item leaves the files of another alone. *)
LEMMA PurgeSpares ==
    ASSUME NumberInv, ReadOK, NEW i \in Items, NEW j \in Items, i # j, NEW s \in Known(i),
           NEW f \in Artifacts(i, s)
    PROVE  f \notin PurgedFiles(j)
<1>1. s \in Nat /\ s # 0 /\ f.seq \in Numbers(i, s) /\ f.seq \in Nat /\ f.seq >= s
    BY KnownNat, ArtifactFacts DEF NumberInv
<1>2. \A t \in Known(j) : f.seq \notin Numbers(j, t)
    BY <1>1, NumbersApart
<1>3. record[j].seq \in Nat /\ pageRows[j] \in Nat /\ rows[j] \in {0, record[j].seq}
    BY DEF NumberInv, ProduceTypeOK, RowsOK
<1>4. record[j].seq # 0 => f.seq \notin Numbers(j, record[j].seq)
    BY <1>2 DEF Known
<1>5. pageRows[j] # 0 => f.seq \notin Numbers(j, pageRows[j])
    BY <1>2, KnownAll
<1>6. f.seq # record[j].seq /\ f.seq # rows[j]
    <2>1. record[j].seq \in Numbers(j, record[j].seq)
        BY <1>3, SpanPositive DEF Numbers
    <2> QED BY <1>1, <1>3, <1>4, <2>1
<1>7. f.seq \notin PageNumbers(j)
    BY <1>4, <1>5, <1>6 DEF PageNumbers, NumberInv, RowsOK
<1> QED BY <1>6, <1>7 DEF PurgedFiles, ControlFiles, ImageFiles

(* What is done is below the next number of the checkpoint. *)
LEMMA DoneBelow ==
    ASSUME NumberInv, NEW i \in cp.done, record[i].status = "ok", NEW f \in Artifacts(i, record[i].seq)
    PROVE  f.item = i /\ f.seq \in Nat /\ f.seq # 0 /\ f.seq < cp.next
<1>1. i \in Items /\ record[i].seq \in Nat /\ record[i].seq \in Known(i) /\ cp.next \in Nat
    BY DEF NumberInv, ProduceTypeOK, Cursors, RowsOK, Known
<1>2. record[i].seq + Span(i) <= cp.next /\ record[i].seq # 0
    BY <1>1 DEF NumberInv, NumbersOK, RowsOK
<1>3. f.item = i /\ f.seq \in Numbers(i, record[i].seq) /\ f.seq \in Nat
    BY <1>1, ArtifactFacts
<1> QED BY <1>1, <1>2, <1>3, SpanPositive DEF Numbers

(* The files of an item stay where they are. *)
Spared(i) == record[i].status = "ok" => \A f \in files : f \in Artifacts(i, record[i].seq) => f \in files'

LEMMA DeliveredKept ==
    ASSUME NEW i \in Items, record'[i] = record[i], rows'[i] = rows[i], Spared(i), Delivered(i)
    PROVE  Delivered(i)'
BY DEF Delivered, Spared, Artifacts, Images

(* Where a step leads and what happens to the cursors, for the steps that pass no item. *)
Ends == Refuse \/ Aborts \/ FailImages \/ Crash \/ PackagingFails

LEMMA EndsFacts ==
    ASSUME Ends
    PROVE  run' = Stopped /\ run'.pc = "stopped" /\ cur' = FreshCursor /\ cp' = cp /\ abort' = abort
BY DEF Ends, Refuse, Aborts, FailImages, Crash, PackagingFails, SetupAbort, SweepAbort, GateAbort,
       RecheckAbort, Fail, Stopped, cur

Strolls == SweepPass \/ SweepPurge \/ SweepEnd \/ Gate \/ Persist \/ WriteLoad

LEMMA StrollsFacts ==
    ASSUME ControlInv, Strolls
    PROVE  /\ cur' = cur /\ cp' = cp /\ abort' = abort /\ run'.seq = run.seq
           /\ SweepPass => run.pc = "sweep" /\ run'.pc = "sweep" /\ run'.at = run.at + 1
           /\ ~SweepPass => run'.at = run.at
           /\ SweepPurge => run.pc = "sweep" /\ run'.pc = "sweepPurged" /\ run.at \in Items
           /\ SweepEnd => run.pc = "sweep" /\ run'.pc = IF cur.phase = "work" THEN "loop" ELSE "load"
           /\ Gate => run.pc = "loop" /\ run'.pc = "gatePurged" /\ Item \in Items \ cur.done
           /\ Persist => run.pc = "written" /\ run'.pc = "persisted" /\ Item \in Items \ cur.done
           /\ WriteLoad => run.pc = "load" /\ run'.pc = "check"
<1>0. cur \in Cursors /\ run \in RunType
    BY DEF ControlInv, ProduceTypeOK, RunType, cur
<1>1. CASE SweepPass
    <2>1. ~SweepPurge /\ ~SweepEnd
        BY <1>0, <1>1, ProduceAssumptions DEF SweepPass, Sweeping, RunType, SweepPurge, SweepEnd
    <2>2. cur' = cur /\ run'.pc = "sweep" /\ run'.at = run.at + 1 /\ run'.seq = run.seq /\ run.pc = "sweep"
        BY <1>0, <1>1 DEF SweepPass, Sweeping, cur, RunType
    <2> QED BY <1>1, <2>1, <2>2 DEF SweepPass, Gate, Due, Working, Persist, WriteLoad
<1>2. CASE SweepPurge
    <2>1. run.at \in Items
        BY <1>2 DEF SweepPurge, Sweeping, ControlInv, PlaceOK, Items
    <2> QED
        BY <1>0, <1>2, <2>1, GoFacts DEF SweepPurge, Sweeping, Places, SweepPass, SweepEnd, Gate, Due, Working, Persist, WriteLoad
<1>3. CASE SweepEnd
    <2>1. ~SweepPass /\ ~SweepPurge
        BY <1>0, <1>3, ProduceAssumptions DEF SweepEnd, SweepPurge, SweepPass, Sweeping, RunType
    <2> QED
        BY <1>0, <1>3, <2>1, GoFacts DEF SweepEnd, Places, Gate, Due, Working, Persist, WriteLoad
<1>4. CASE Gate
    BY <1>0, <1>4, GoFacts, ItemFacts DEF Gate, Due, Working, Places, SweepPurge, SweepEnd, SweepPass, Sweeping, Persist, WriteLoad
<1>5. CASE Persist
    BY <1>0, <1>5, GoFacts, ItemFacts DEF Persist, Places, SweepPurge, SweepEnd, SweepPass, Sweeping, Gate, Due, Working, WriteLoad,
        ControlInv, PlaceOK
<1>6. CASE WriteLoad
    BY <1>0, <1>6, GoFacts DEF WriteLoad, Places, SweepPurge, SweepEnd, SweepPass, Sweeping, Gate, Due, Working, Persist
<1> QED BY <1>1, <1>2, <1>3, <1>4, <1>5, <1>6 DEF Strolls

Saves == Pause \/ Save \/ FinishWork \/ SkipDone \/ Complete

LEMMA SavesFacts ==
    ASSUME ControlInv, Saves
    PROVE  /\ cur'.done = (IF Pause THEN {} ELSE cur.done) /\ abort' = abort
           /\ cp'.done = (IF SkipDone \/ Complete THEN cp.done ELSE cur.done)
           /\ UNCHANGED <<record, pageRows, files, load, undone, withheld>>
           /\ Pause => run.pc = "loop" /\ run'.pc = "stopped" /\ rows' = rows
                       /\ cur' = FreshCursor /\ cp' = cur
           /\ Save => run.pc = "save" /\ run'.pc = (IF cur.phase = "done" THEN "ended" ELSE "loop")
                      /\ cur' = cur /\ cp' = cur
           /\ FinishWork => run.pc = "loop" /\ run'.pc = "sweep" /\ run'.at = 1 /\ rows' = rows
                      /\ cur'.phase = "finalize" /\ cur'.count = cur.count /\ held' = withheld
           /\ SkipDone => run.pc = "loop" /\ run'.pc = "loop" /\ rows' = rows
                      /\ cur'.phase = cur.phase /\ cur'.count = cur.count
           /\ Complete => run.pc = "check" /\ run'.pc = "save" /\ rows' = rows
                      /\ cur'.phase = "done" /\ cur'.count = cur.count
           /\ ~FinishWork => held' = held
           /\ lost' = lost
<1>0. cur \in Cursors /\ run \in RunType
    BY DEF ControlInv, ProduceTypeOK, RunType, cur
<1>1. CASE Pause
    <2>1. ~Save /\ ~Complete /\ run.pc = "loop" /\ run' = Stopped
        BY <1>1 DEF Pause, Working, Save, Complete
    <2>2. ~FinishWork
        BY <1>0, <1>1, ProduceAssumptions DEF Pause, Working, FinishWork, Cursors
    <2>3. ~SkipDone
        BY <1>0, <2>1 DEF SkipDone, Go, RunType, Stopped
    <2> QED
        BY <1>1, <2>1, <2>2, <2>3 DEF Pause, Stopped, FreshCursor, cur
<1>2. CASE Save
    BY <1>0, <1>2, GoFacts DEF Save, Places, Pause, Working, FinishWork, SkipDone, Complete
<1>3. CASE FinishWork /\ ~Pause /\ ~Save
    <2>1. cur' = [cur EXCEPT !.phase = "finalize"] /\ cp' = cur' /\ run'.pc = "sweep" /\ run'.at = 1
        BY <1>0, <1>3 DEF FinishWork, cur, RunType
    <2>2. ~SkipDone /\ ~Complete /\ run.pc = "loop"
        BY <1>3, <1>0, ProduceAssumptions DEF FinishWork, SkipDone, Complete, Working, Cursors
    <2> QED BY <1>0, <1>3, <2>1, <2>2 DEF FinishWork, Cursors
<1>4. CASE SkipDone /\ ~Pause /\ ~Save /\ ~FinishWork
    <2>1. cur' = [cur EXCEPT !.index = @ + 1] /\ run'.pc = "loop"
        BY <1>0, <1>4 DEF SkipDone, Go, cur, RunType
    <2>2. ~Complete /\ run.pc = "loop"
        BY <1>4 DEF SkipDone, Complete, Working
    <2> QED BY <1>0, <1>4, <2>1, <2>2 DEF SkipDone, Cursors
<1>5. CASE Complete /\ ~Pause /\ ~Save /\ ~FinishWork /\ ~SkipDone
    <2>1. cur' = [cur EXCEPT !.phase = "done"] /\ run'.pc = "save"
        BY <1>0, <1>5 DEF Complete, Go, cur, RunType
    <2> QED BY <1>0, <1>5, <2>1 DEF Complete, Cursors
<1> QED BY <1>1, <1>2, <1>3, <1>4, <1>5 DEF Saves

Begins == Begin \/ Select \/ Setup

LEMMA BeginsFacts ==
    ASSUME ControlInv, Begins
    PROVE  /\ cur' = cp' /\ abort' = abort /\ cp'.done = cp.done /\ cp'.count = cp.count
           /\ UNCHANGED <<record, pageRows, rows, files, load, undone, withheld, lost>>
           /\ Begin => /\ run.pc = "stopped" /\ run'.at = 1 /\ cp' = cp
                       /\ run'.pc = IF cp.phase \in {"select", "setup"} THEN cp.phase ELSE "sweep"
                       /\ held' = IF cp.phase = "finalize" THEN withheld ELSE held
           /\ ~Begin => /\ cp.done = {} /\ cur = cp /\ run'.pc = (IF Select THEN "setup" ELSE "sweep")
                        /\ cp'.phase = (IF Select THEN "setup" ELSE "work") /\ held' = held
<1>0. cur \in Cursors /\ run \in RunType /\ cp \in Cursors
    BY DEF ControlInv, ProduceTypeOK, RunType, cur
<1>1. CASE Begin
    <2>1. cp.phase \in {"select", "setup", "work", "finalize"}
        BY <1>0, <1>1 DEF Begin, Run, Rerun, Begun, ControlInv, PlaceOK, Cursors, Phases
    <2> QED BY <1>1, <2>1 DEF Begin, Run, Rerun, Begun, cur
<1>2. CASE Select
    <2>1. cp' \in Cursors /\ cp'.done = cur.done /\ cp'.count = cur.count /\ cp'.phase = "setup"
        BY <1>0, <1>2 DEF Select, Cursors, Phases
    <2>2. cur = cp /\ cp.done = {}
        BY <1>2 DEF Select, ControlInv, PlaceOK, IndexOK
    <2>3. cur' = cp' /\ run'.pc = "setup"
        BY <1>0, <1>2, <2>1, GoFacts DEF Select, Places
    <2> QED BY <1>2, <2>1, <2>2, <2>3 DEF Select, Begin, Run, Rerun
<1>3. CASE Setup
    <2>1. cp' \in Cursors /\ cp'.done = cur.done /\ cp'.count = cur.count /\ cp'.phase = "work"
        BY <1>0, <1>3 DEF Setup, Cursors, Phases
    <2>2. cur = cp /\ cp.done = {}
        BY <1>3 DEF Setup, ControlInv, PlaceOK, IndexOK
    <2>3. cur' = cp' /\ run'.pc = "sweep"
        BY <1>0, <1>3, <2>1, GoFacts DEF Setup, Places
    <2> QED BY <1>3, <2>1, <2>2, <2>3 DEF Setup, Begin, Run, Rerun, Select
<1> QED BY <1>1, <1>2, <1>3 DEF Begins

(* Every step is one of these. *)
LEMMA Steps ==
    ASSUME [ProduceNext]_produceVars
    PROVE  \/ Begins \/ Ends \/ Strolls \/ Saves \/ Passing \/ SweepRecord \/ Produce \/ Refusals
           \/ \E i \in Items : Hold(i) \/ Release(i)
           \/ UNCHANGED produceVars
BY DEF ProduceNext, Progress, Work, Sweep, Begins, Begin, Ends, Strolls, Saves, Passing

LEMMA ReadNext ==
    ASSUME NumberInv, ReadOK, ReadsAreStable, [ProduceNext]_produceVars
    PROVE  ReadOK'
<1>0. ControlInv
    BY DEF NumberInv, ControlInv
<1>1. CASE Begins \/ Saves
    <2>1. record' = record /\ pageRows' = pageRows
        BY <1>0, <1>1, BeginsFacts, SavesFacts
    <2>2. run'.pc \notin {"written", "persisted"}
        BY <1>0, <1>1, BeginsFacts, SavesFacts DEF Begins, Saves
    <2> QED BY <2>1, <2>2 DEF ReadOK
<1>2. CASE Ends
    <2>1. pageRows' = pageRows /\ \A i \in Items : record'[i].status = "ok" => record[i].status = "ok"
        BY <1>2 DEF Ends, Refuse, Aborts, FailImages, Crash, PackagingFails, SetupAbort, SweepAbort, GateAbort,
                    RecheckAbort, NumberInv, ProduceTypeOK
    <2>2. run'.pc = "stopped"
        BY <1>2, EndsFacts
    <2> QED BY <2>1, <2>2 DEF ReadOK
<1>3. CASE Strolls /\ ~Persist
    <2>1. record' = record /\ \A i \in Items : pageRows'[i] \in {0, pageRows[i]}
        BY <1>3 DEF Strolls, SweepPass, SweepPurge, Purge, SweepEnd, Gate, WriteLoad, NumberInv, ProduceTypeOK
    <2>2. run'.pc \notin {"written", "persisted"}
        BY <1>0, <1>3, StrollsFacts DEF Strolls
    <2> QED BY <2>1, <2>2 DEF ReadOK
<1>4. CASE Persist
    <2>1. cur' = cur /\ run.pc = "written" /\ Item \in Items
        BY <1>0, <1>4, StrollsFacts DEF Strolls
    <2>2. Item' = Item /\ "missing" \notin Outcomes[Item]
        BY <2>1 DEF Item, ReadOK
    <2>3. \A i \in Items : i # Item => record'[i] = record[i] /\ pageRows'[i] = pageRows[i]
        BY <1>4 DEF Persist, NumberInv, ProduceTypeOK
    <2> QED BY <2>2, <2>3 DEF ReadOK
<1>5. CASE Passing \/ SweepRecord
    <2>1. pageRows' = pageRows /\ \A i \in Items : record'[i].status = "ok" => record[i].status = "ok"
        BY <1>5 DEF Passing, GateRecord, RecheckWithheld, SkipWithheld, RecordWithheld, Recover, Decline,
                    Unreadable, AppendRow, SweepRecord, NumberInv, ProduceTypeOK
    <2>2. run'.pc \in {"save", "sweep"}
        <3>1. SweepRecord => run'.pc = "sweep"
            BY <1>0 DEF SweepRecord, ControlInv, ProduceTypeOK
        <3> QED BY <1>0, <1>5, <3>1, PassingFacts
    <2> QED BY <2>1, <2>2 DEF ReadOK
<1>6. CASE Produce
    <2>1. Item \in Items /\ Item' = Item /\ record' = record /\ pageRows' = pageRows
        <3>1. Working
            BY <1>6 DEF Produce, Packaging, Due
        <3>2. cur' = Numbered /\ Numbered.index = cur.index
            BY <1>0, <1>6, <3>1, AssignedType DEF Produce, cur, ControlInv, ProduceTypeOK
        <3> QED BY <1>0, <1>6, <3>1, <3>2, ItemFacts DEF Produce, Item
    <2>2. "missing" \notin Outcomes[Item]
        BY <1>6, <2>1 DEF Produce, ReadsAreStable
    <2> QED BY <2>1, <2>2 DEF ReadOK
<1>7. CASE \E i \in Items : Hold(i) \/ Release(i)
    BY <1>7 DEF Hold, Release, ReadOK, Item, cur
<1>8. CASE UNCHANGED produceVars
    BY <1>8 DEF produceVars, ReadOK, Item, cur
<1> QED BY <1>1, <1>2, <1>3, <1>4, <1>5, <1>6, <1>7, <1>8, Steps, NeverRefused

(* At the work on an item, what is done and has files is in the checkpoint. *)
LEMMA DoneOk ==
    ASSUME NumberInv, run.pc # "save", NEW i \in cur.done, record[i].status = "ok"
    PROVE  i \in cp.done
BY DEF NumberInv, CursorOK

(* Packaging an item, and taking back what was written for it. *)
LEMMA PackagingSpares ==
    ASSUME NumberInv, NEW i \in cp.done \cup cur.done,
           Produce \/ Decline \/ Unreadable \/ PackagingFails \/ RecheckWithheld
    PROVE  Spared(i)
<1> SUFFICES ASSUME record[i].status = "ok", NEW f \in files, f \in Artifacts(i, record[i].seq)
             PROVE  f \in files'
    BY DEF Spared
<1>0. ControlInv
    BY DEF NumberInv, ControlInv
<1>1. run.pc \in {"loop", "written"}
    BY DEF Produce, Decline, Unreadable, PackagingFails, RecheckWithheld, Packaging, Due, Working
<1>2. i \in cp.done /\ i \in cur.done
    BY <1>1, DoneOk DEF NumberInv, CursorOK
<1>3. f.item = i /\ f.seq \in Nat /\ f.seq # 0 /\ f.seq < cp.next /\ cp.next \in Nat
    BY <1>2, DoneBelow DEF NumberInv, ProduceTypeOK, Cursors
<1>4. Item \in Items \ cur.done /\ i # Item
    <2>1. Working \/ run.pc = "written"
        BY DEF Produce, Decline, Unreadable, PackagingFails, RecheckWithheld, Packaging, Due
    <2>2. Item \notin cur.done
        BY DEF Produce, Decline, Unreadable, PackagingFails, RecheckWithheld, Packaging, Due, NumberInv, PlaceOK
    <2> QED BY <1>0, <1>2, <2>1, <2>2, ItemFacts
<1>5. \A t \in Nat : \A g \in Artifacts(Item, t) : g.item = Item /\ g.seq >= t /\ g.seq \in Nat
    BY <1>4, ArtifactFacts
<1>6. f \in FreshFiles
    <2>1. rows[Item] \in Nat
        BY <1>4 DEF NumberInv, ProduceTypeOK
    <2> QED BY <1>3, <1>4, <1>5, <2>1 DEF FreshFiles
<1>7. CASE Produce
    <2>1. Assigned = cp.next
        BY <1>7, Lone DEF Produce, Packaging
    <2>2. \A g \in Artifacts(Item, Assigned) : g.seq # f.seq
        BY <1>3, <1>5, <2>1
    <2> QED BY <1>6, <1>7, <2>2 DEF Produce, Overwrite
<1>8. CASE Decline
    <2>1. Assigned = cp.next
        BY <1>8, Lone DEF Decline, Packaging
    <2> QED BY <1>3, <1>6, <1>8, <2>1 DEF Decline, ControlFiles
<1>9. CASE Unreadable
    BY <1>6, <1>9 DEF Unreadable
<1>10. CASE PackagingFails
    <2>1. Assigned = cp.next
        BY <1>10, Lone DEF PackagingFails, Packaging
    <2> QED BY <1>3, <1>6, <1>10, <2>1 DEF PackagingFails, ControlFiles
<1>11. CASE RecheckWithheld
    <2>1. run.seq = cp.next
        BY <1>11 DEF RecheckWithheld, NumberInv, CursorOK
    <2>2. f \notin Images(Item, run.seq)
        BY <1>3, <1>4, <1>5, <2>1 DEF Artifacts
    <2> QED BY <1>3, <1>11, <2>1, <2>2 DEF RecheckWithheld, ControlFiles
<1> QED BY <1>7, <1>8, <1>9, <1>10, <1>11

(* The purge of an item on hold. *)
LEMMA PurgingSpares ==
    ASSUME NumberInv, ReadOK, NEW i \in Items,
           \/ SweepPurge /\ i # run.at
           \/ Gate /\ i # Item
    PROVE  Spared(i)
<1> SUFFICES ASSUME record[i].status = "ok", NEW f \in files, f \in Artifacts(i, record[i].seq)
             PROVE  f \in files'
    BY DEF Spared
<1>0. ControlInv
    BY DEF NumberInv, ControlInv
<1>1. record[i].seq \in Known(i)
    BY DEF NumberInv, RowsOK, Known
<1>2. CASE SweepPurge
    <2>1. run.at \in Items
        BY <1>0, <1>2, StrollsFacts DEF Strolls
    <2> QED BY <1>1, <1>2, <2>1, PurgeSpares DEF SweepPurge, Purge, Sweeping, Gate, Due, Working
<1>3. CASE Gate
    <2>1. Item \in Items
        BY <1>0, <1>3, StrollsFacts DEF Strolls
    <2> QED BY <1>1, <1>3, <2>1, PurgeSpares DEF Gate, Purge, SweepPurge, Sweeping, Due, Working
<1> QED BY <1>2, <1>3

LEMMA SparedSame == ASSUME files' = files, NEW i PROVE Spared(i)
BY DEF Spared

LEMMA VolumeNext ==
    ASSUME NumberInv, NumberInv', ReadOK, VolumeOK, [ProduceNext]_produceVars
    PROVE  VolumeOK'
<1>0. ControlInv
    BY DEF NumberInv, ControlInv
<1>c. cp \in Cursors /\ cur \in Cursors /\ cp.done \subseteq Items /\ cur.done \subseteq Items
    BY DEF NumberInv, ProduceTypeOK, cur, Cursors
<1>d. \A i \in Items : rows[i] # 0 => record[i].status = "ok" /\ record[i].seq = rows[i]
    <2>1. \A i \in Items : rows[i] # 0 => record[i] = [status |-> "ok", seq |-> rows[i]]
        BY DEF NumberInv, RowsOK
    <2> SUFFICES ASSUME NEW i \in Items, rows[i] # 0
                 PROVE  record[i].status = "ok" /\ record[i].seq = rows[i]
        OBVIOUS
    <2>2. record[i] = [status |-> "ok", seq |-> rows[i]]
        BY <2>1
    <2> QED BY <2>2
<1>1. CASE Begins
    <2>1. /\ cur' = cp' /\ abort' = abort /\ cp'.done = cp.done
          /\ UNCHANGED <<record, rows, files, undone, withheld>>
        BY <1>0, <1>1, BeginsFacts
    <2>2. \A i \in Items : (Delivered(i) => Delivered(i)') /\ (Firm(i) => Firm(i)')
        BY <2>1 DEF Delivered, Firm, Artifacts, Images
    <2>3. DoneDelivered'
        <3>1. CASE (Begin /\ cp.phase \in {"select", "setup"}) \/ ~Begin
            <4>1. cp.done = {}
                BY <1>0, <1>1, <3>1, BeginsFacts DEF ControlInv, IndexOK
            <4> QED BY <2>1, <4>1 DEF DoneDelivered
        <3>2. CASE Begin /\ cp.phase \notin {"select", "setup"}
            <4>1. run.pc = "stopped" /\ run'.pc = "sweep" /\ run'.at = 1
                BY <1>0, <1>1, <3>2, BeginsFacts
            <4>2. \A i \in cp.done : Swept(i) => Swept(i)'
                BY <1>c, <2>2, <4>1, ProduceAssumptions DEF Swept, Items
            <4> QED BY <1>c, <2>1, <2>2, <4>1, <4>2 DEF VolumeOK, DoneDelivered
        <3> QED BY <3>1, <3>2
    <2>4. run'.pc \notin {"written", "persisted", "check"} /\ cur'.phase # "done"
        BY <1>0, <1>1, BeginsFacts DEF Begins, ControlInv, PlaceOK
    <2> QED BY <2>3, <2>4 DEF VolumeOK, WrittenThere, LoadMatches
<1>2. CASE Ends
    <2>1. run'.pc = "stopped" /\ cur' = FreshCursor /\ cp' = cp /\ abort' = abort /\ cur'.done = {} /\ cur'.phase = "select"
        BY <1>2, EndsFacts DEF FreshCursor
    <2>2. ASSUME ~abort, NEW i \in cp.done PROVE Delivered(i)' \/ Swept(i)'
        <3>0. (Delivered(i) \/ Swept(i) \/ run.pc = "ended") /\ i \in Items
            BY <1>c, <2>2 DEF VolumeOK, DoneDelivered
        <3>1. CASE Refuse
            BY <1>0, <2>2, <3>1 DEF Refuse, ControlInv, PlaceOK, IndexOK
        <3>2. CASE FailImages
            <4>1. Delivered(i)
                BY <3>0, <3>2 DEF FailImages, Swept
            <4> QED BY <3>0, <3>2, <4>1, DeliveredKept, SparedSame DEF FailImages
        <3>3. CASE Crash
            <4>1. UNCHANGED <<record, rows>> /\ undone' = undone \cup TakingBack /\ run.pc # "ended"
                BY <1>c, <3>3, ProduceAssumptions DEF Crash, Fail
            <4>2. Spared(i)
                <5> SUFFICES ASSUME NEW f \in files, record[i].status = "ok", f \in Artifacts(i, record[i].seq)
                             PROVE  f \in files'
                    BY DEF Spared
                <5>1. f.item = i
                    BY DoneBelow
                <5> QED BY <2>2, <3>3, <5>1 DEF Crash, Unsynced
            <4>3. Swept(i) => Swept(i)'
                BY <2>1, <4>1 DEF Swept, Firm, TakingBack
            <4> QED BY <3>0, <4>1, <4>2, <4>3, DeliveredKept
        <3>4. CASE PackagingFails
            <4>1. run.pc = "loop" /\ Item \notin cur.done
                BY <3>4 DEF PackagingFails, Packaging, Due, Working
            <4>2. Delivered(i) /\ i \in cur.done /\ i # Item
                BY <2>2, <3>0, <4>1 DEF Swept, NumberInv, CursorOK
            <4>3. record'[i] = record[i] /\ rows'[i] = rows[i]
                BY <3>0, <3>4, <4>2 DEF PackagingFails, Packaging, NumberInv, ProduceTypeOK
            <4> QED BY <3>0, <3>4, <4>2, <4>3, PackagingSpares, DeliveredKept
        <3>5. CASE Aborts
            BY <1>0, <2>2, <3>5 DEF Aborts, SetupAbort, SweepAbort, GateAbort, RecheckAbort
        <3> QED BY <1>2, <3>1, <3>2, <3>3, <3>4, <3>5 DEF Ends
    <2> QED BY <2>1, <2>2 DEF VolumeOK, DoneDelivered, WrittenThere, LoadMatches
<1>3. CASE SweepPass
    <2>1. /\ cur' = cur /\ cp' = cp /\ abort' = abort /\ run.pc = "sweep" /\ run'.pc = "sweep" /\ run'.at = run.at + 1
          /\ UNCHANGED <<record, rows, files, undone, withheld>> /\ run.at \notin withheld /\ run.at \in Nat
        BY <1>0, <1>3, StrollsFacts DEF Strolls, SweepPass, ControlInv, ProduceTypeOK
    <2>2. \A i \in Items : (Delivered(i) => Delivered(i)') /\ (Swept(i) => Swept(i)')
        BY <2>1 DEF Delivered, Swept, Firm, Artifacts, Images, Items, NumberInv, UndoneOK
    <2>3. cur.phase # "done"
        BY <1>0, <2>1 DEF ControlInv, PlaceOK
    <2> QED BY <1>c, <2>1, <2>2, <2>3 DEF VolumeOK, DoneDelivered, WrittenThere, LoadMatches
<1>4. CASE SweepPurge
    <2>1. /\ cur' = cur /\ cp' = cp /\ abort' = abort /\ run.pc = "sweep" /\ run'.pc = "sweepPurged" /\ run'.at = run.at
          /\ UNCHANGED <<record, rows, undone, withheld>>
        BY <1>0, <1>4, StrollsFacts DEF Strolls, SweepPurge, Sweeping, SweepPass
    <2>2. \A i \in Items : i # run.at => (Delivered(i) => Delivered(i)')
        BY <1>4, <2>1, PurgingSpares, DeliveredKept
    <2>3. \A i \in Items : (Swept(i) => Swept(i)') /\ (i = run.at => Swept(i)')
        BY <2>1 DEF Swept, Firm
    <2>4. cur.phase # "done"
        BY <1>0, <2>1 DEF ControlInv, PlaceOK
    <2> QED BY <1>c, <2>1, <2>2, <2>3, <2>4 DEF VolumeOK, DoneDelivered, WrittenThere, LoadMatches
<1>5. CASE SweepEnd
    <2>1. /\ cur' = cur /\ cp' = cp /\ abort' = abort /\ run.pc = "sweep" /\ run'.pc \in {"loop", "load"}
          /\ UNCHANGED <<record, rows, files>> /\ run.at > N /\ run.at \in Nat
        BY <1>0, <1>5, StrollsFacts DEF Strolls, SweepEnd, ControlInv, ProduceTypeOK
    <2>2. \A i \in Items : ~Swept(i) /\ (Delivered(i) => Delivered(i)')
        BY <2>1, ProduceAssumptions DEF Delivered, Swept, Items, Artifacts, Images
    <2>3. cur.phase # "done"
        BY <1>0, <2>1 DEF ControlInv, PlaceOK
    <2> QED BY <1>c, <2>1, <2>2, <2>3 DEF VolumeOK, DoneDelivered, WrittenThere, LoadMatches
<1>6. CASE Gate \/ Persist
    <2>1. /\ cur' = cur /\ cp' = cp /\ abort' = abort /\ run.pc \in {"loop", "written"} /\ run'.pc \in {"gatePurged", "persisted"}
          /\ rows' = rows /\ Item \in Items \ cur.done /\ run'.seq = run.seq
        BY <1>0, <1>6, StrollsFacts DEF Strolls, Gate, Persist
    <2>2. \A i \in cur.done : record'[i] = record[i]
        BY <1>6, <1>c, <2>1 DEF Gate, Persist, NumberInv, ProduceTypeOK
    <2>3. \A i \in cur.done : Spared(i)
        BY <1>6, <1>c, <2>1, PurgingSpares, SparedSame DEF Persist
    <2>4. \A i \in cur.done : Delivered(i) => Delivered(i)'
        BY <1>c, <2>1, <2>2, <2>3, DeliveredKept
    <2>5. cp.done \subseteq cur.done /\ cur.phase # "done" /\ \A i \in Items : ~Swept(i)
        BY <1>0, <2>1 DEF ControlInv, PlaceOK, NumberInv, CursorOK, Swept
    <2>6. DoneDelivered'
        BY <1>c, <2>1, <2>4, <2>5 DEF VolumeOK, DoneDelivered
    <2>7. WrittenThere'
        BY <1>0, <1>6, <2>1, StrollsFacts DEF VolumeOK, WrittenThere, Item, Artifacts, Images, Persist, Strolls
    <2> QED BY <2>1, <2>5, <2>6, <2>7 DEF VolumeOK, LoadMatches
<1>7. CASE WriteLoad
    <2>1. /\ cur' = cur /\ cp' = cp /\ abort' = abort /\ run.pc = "load" /\ run'.pc = "check"
          /\ UNCHANGED <<record, rows, files>> /\ load' = rows
        BY <1>0, <1>7, StrollsFacts DEF Strolls, WriteLoad
    <2>2. cur.done = Items
        <3>1. cur.index = N
            BY <1>0, <2>1 DEF ControlInv, PlaceOK, IndexOK
        <3>2. \A k \in Items : k \in cur.done
            BY <1>0, <3>1, ProduceAssumptions DEF ControlInv, IndexOK, Items
        <3> QED BY <1>c, <3>2
    <2>3. ~abort => \A i \in Items : Delivered(i)
        BY <2>1, <2>2 DEF VolumeOK, DoneDelivered, Swept
    <2>4. \A i \in Items : Delivered(i) => Delivered(i)'
        BY <2>1 DEF Delivered, Artifacts, Images
    <2>5. LoadMatches'
        BY <1>d, <2>1, <2>3 DEF LoadMatches, Delivered, Artifacts, Images
    <2> QED BY <1>c, <2>1, <2>3, <2>4, <2>5 DEF VolumeOK, DoneDelivered, WrittenThere
<1>8. CASE Saves
    <2>1. abort' = abort /\ UNCHANGED <<record, files, load>> /\ run.pc \in {"loop", "save", "check"}
        BY <1>0, <1>8, SavesFacts DEF Saves
    <2>2. \A i \in Items : ~Swept(i)
        BY <2>1 DEF Swept
    <2>3. cp.done \subseteq cur.done /\ cp'.done \cup cur'.done \subseteq cur.done
        BY <1>0, <1>8, <2>1, SavesFacts DEF NumberInv, CursorOK
    <2>4. rows' = rows \/ run'.pc = "ended"
        BY <1>0, <1>8, SavesFacts DEF Saves, Save
    <2>5. rows' = rows => \A i \in Items : Delivered(i) => Delivered(i)'
        BY <2>1 DEF Delivered, Artifacts, Images
    <2>6. DoneDelivered'
        BY <1>c, <2>1, <2>2, <2>3, <2>4, <2>5 DEF VolumeOK, DoneDelivered
    <2>7. WrittenThere'
        BY <1>0, <1>8, SavesFacts DEF WrittenThere, Saves
    <2>8. LoadMatches'
        <3>1. run'.pc = "check" \/ cur'.phase = "done" => run.pc = "check" \/ cur.phase = "done"
            BY <1>0, <1>8, SavesFacts DEF Saves, FreshCursor
        <3> QED BY <2>1, <3>1 DEF VolumeOK, LoadMatches, Artifacts, Images
    <2> QED BY <2>6, <2>7, <2>8 DEF VolumeOK
<1>9. CASE Passing
    <2>1. /\ Item \in Items /\ Item \notin cur.done /\ run.pc \in {"loop", "gatePurged", "written", "persisted"}
          /\ run'.pc = "save" /\ cp' = cp /\ cur'.done = cur.done \cup {Item} /\ cur'.phase = "work"
        BY <1>0, <1>9, PassingFacts
    <2>2. abort' = abort /\ \A i \in Items : i # Item => record'[i] = record[i] /\ rows'[i] = rows[i]
        BY <1>9, <2>1 DEF Passing, GateRecord, RecheckWithheld, SkipWithheld, RecordWithheld, Recover, Decline,
                    Unreadable, AppendRow, Packaging, NumberInv, ProduceTypeOK
    <2>3. \A i \in cur.done : Spared(i)
        BY <1>9, PackagingSpares, SparedSame DEF Passing, GateRecord, Recover, AppendRow
    <2>4. cp.done \subseteq cur.done /\ \A i \in Items : ~Swept(i)
        BY <2>1 DEF NumberInv, CursorOK, Swept
    <2>5. \A i \in cur.done : i # Item /\ (Delivered(i) => Delivered(i)')
        BY <1>c, <2>1, <2>2, <2>3, DeliveredKept
    <2>6. PICK j \in Items : j = Item
        BY <2>1
    <2>7. Delivered(j)'
        <3>1. CASE GateRecord \/ RecheckWithheld \/ Decline \/ Unreadable
            <4>1. record'[j].status # "ok"
                BY <2>6, <3>1 DEF GateRecord, RecheckWithheld, SkipWithheld, RecordWithheld, Decline,
                            Unreadable, NumberInv, ProduceTypeOK
            <4> QED BY <4>1 DEF Delivered
        <3>2. CASE Recover
            <4>1. rows[j] # 0 /\ Artifacts(j, rows[j]) \subseteq files /\ UNCHANGED <<record, rows, files>>
                BY <2>6, <3>2 DEF Recover, Intact
            <4> QED BY <1>d, <4>1 DEF Delivered, Artifacts, Images
        <3>3. CASE AppendRow
            <4>1. /\ record[j] = [status |-> "ok", seq |-> run.seq] /\ Artifacts(j, run.seq) \subseteq files
                BY <2>6, <3>3 DEF AppendRow, NumberInv, CursorOK, VolumeOK, WrittenThere
            <4>2. UNCHANGED <<record, files>> /\ rows'[j] = run.seq
                BY <2>6, <3>3 DEF AppendRow, NumberInv, ProduceTypeOK
            <4> QED BY <4>1, <4>2 DEF Delivered, Artifacts, Images
        <3> QED BY <1>9, <3>1, <3>2, <3>3 DEF Passing
    <2>8. DoneDelivered'
        BY <1>c, <2>1, <2>2, <2>4, <2>5, <2>6, <2>7 DEF VolumeOK, DoneDelivered
    <2> QED BY <2>1, <2>8 DEF VolumeOK, WrittenThere, LoadMatches
<1>10. CASE SweepRecord
    <2>1. /\ run.pc = "sweepPurged" /\ run'.pc = "sweep" /\ run'.at = run.at + 1 /\ run.at \in Items
          /\ cur'.done = cur.done \cup {run.at} /\ cur'.phase = cur.phase /\ cp' = cp
          /\ UNCHANGED <<abort, undone, withheld, files>>
        BY <1>0, <1>10, <1>c DEF SweepRecord, ControlInv, PlaceOK, ProduceTypeOK, cur, Cursors
    <2>2. /\ \A i \in Items : i # run.at => record'[i] = record[i] /\ rows'[i] = rows[i]
          /\ record'[run.at].status # "ok"
        BY <1>10, <2>1 DEF SweepRecord, RecordWithheld, NumberInv, ProduceTypeOK
    <2>3. \A i \in Items : i # run.at => (Delivered(i) => Delivered(i)') /\ (Swept(i) => Swept(i)')
        <3>1. \A i \in Items : i # run.at => (Delivered(i) => Delivered(i)')
            BY <2>1, <2>2, DeliveredKept, SparedSame
        <3>2. \A i \in Items : i # run.at => (Swept(i) => Swept(i)')
            BY <2>1, ProduceAssumptions DEF Swept, Firm, Items
        <3> QED BY <3>1, <3>2
    <2>4. \A i \in Items : i = run.at => Delivered(i)'
        BY <2>2 DEF Delivered
    <2>5. cur.phase # "done"
        BY <1>0, <2>1 DEF ControlInv, PlaceOK
    <2>6. DoneDelivered'
        BY <1>c, <2>1, <2>3, <2>4 DEF VolumeOK, DoneDelivered
    <2> QED BY <2>1, <2>5, <2>6 DEF VolumeOK, WrittenThere, LoadMatches
<1>11. CASE Produce
    <2>l. Working /\ Item \notin cur.done /\ run.pc = "loop" /\ Item \in Items
        BY <1>0, <1>11, ItemFacts DEF Produce, Packaging, Due, Working
    <2>1. /\ run'.pc = "written" /\ cur' = Numbered /\ run'.seq = Assigned /\ cp' = cp /\ UNCHANGED <<abort, record>>
          /\ \A i \in Items : i # Item => rows'[i] = rows[i]
        BY <1>0, <1>11, <2>l DEF Produce, Packaging, cur, ControlInv, ProduceTypeOK
    <2>2. /\ Numbered.index = cur.index /\ Numbered.done = cur.done /\ Numbered.phase = cur.phase
        BY <1>0, <2>l, AssignedType
    <2>3. cp.done \subseteq cur.done /\ cur.phase = "work" /\ \A i \in Items : ~Swept(i)
        BY <1>0, <2>l DEF NumberInv, CursorOK, Swept, PlaceOK, ControlInv
    <2>4. \A i \in cur.done : i # Item /\ Spared(i)
        BY <1>11, <2>l, PackagingSpares
    <2>5. \A i \in cur.done : Delivered(i) => Delivered(i)'
        BY <1>c, <2>1, <2>4, DeliveredKept
    <2>6. DoneDelivered'
        BY <1>c, <2>1, <2>2, <2>3, <2>5, <2>l DEF VolumeOK, DoneDelivered
    <2>7. WrittenThere'
        <3>1. Item' = Item /\ Artifacts(Item, Assigned) \subseteq files'
            BY <1>11, <2>1, <2>2 DEF Item, Produce, Overwrite
        <3> QED BY <2>1, <3>1 DEF WrittenThere, Artifacts, Images
    <2> QED BY <2>1, <2>2, <2>3, <2>6, <2>7 DEF VolumeOK, LoadMatches
<1>12. CASE \E i \in Items : Hold(i) \/ Release(i)
    <2>1. /\ UNCHANGED <<abort, record, rows, files, load, cp, run, undone>> /\ cur' = cur /\ Item' = Item
        BY <1>12 DEF Hold, Release, cur, Item
    <2>2. \A i \in Items : (Delivered(i) => Delivered(i)') /\ (Swept(i) => Swept(i)')
        BY <2>1 DEF Delivered, Artifacts, Images, Swept, Firm
    <2> QED BY <1>c, <2>1, <2>2 DEF VolumeOK, DoneDelivered, WrittenThere, LoadMatches, Artifacts, Images
<1>13. CASE UNCHANGED produceVars
    <2>1. /\ UNCHANGED <<abort, record, rows, files, load, cp, run, undone, withheld>> /\ cur' = cur /\ Item' = Item
        BY <1>13 DEF produceVars, cur, Item
    <2>2. \A i \in Items : (Delivered(i) => Delivered(i)') /\ (Swept(i) => Swept(i)')
        BY <2>1 DEF Delivered, Artifacts, Images, Swept, Firm
    <2> QED BY <1>c, <2>1, <2>2 DEF VolumeOK, DoneDelivered, WrittenThere, LoadMatches, Artifacts, Images
<1> QED BY <1>1, <1>2, <1>3, <1>4, <1>5, <1>6, <1>7, <1>8, <1>9, <1>10, <1>11, <1>12, <1>13, Steps, NeverRefused DEF Strolls

LEMMA VolumeInit == ASSUME ProduceInit PROVE ReadOK /\ VolumeOK
<1>1. run.pc = "select" /\ cur = FreshCursor /\ cp = FreshCursor /\ FreshCursor.done = {} /\ cur.phase = "select"
    BY DEF ProduceInit, Begun, FreshCursor, cur
<1>2. ReadOK
    BY <1>1 DEF ProduceInit, ReadOK, NoRecord
<1> QED BY <1>1, <1>2 DEF VolumeOK, DoneDelivered, WrittenThere, LoadMatches

LEMMA VolumeExact == ASSUME NumberInv, VolumeOK PROVE LoadFileIsExact
<1> SUFFICES ASSUME Ended, ~abort
             PROVE  /\ \A i \in Items : load[i] = IF record[i].status = "ok" THEN record[i].seq ELSE 0
                    /\ \A i \in Listed : Artifacts(i, load[i]) \subseteq files
    BY DEF LoadFileIsExact
<1>1. cur.phase = "done"
    BY DEF Ended, NumberInv, PlaceOK
<1>2. \A i \in Items : /\ load[i] = IF record[i].status = "ok" THEN record[i].seq ELSE 0
                       /\ record[i].status = "ok" => Artifacts(i, record[i].seq) \subseteq files
    BY <1>1 DEF VolumeOK, LoadMatches
<1>3. \A i \in Listed : Artifacts(i, load[i]) \subseteq files
    BY <1>2 DEF Listed
<1> QED BY <1>2, <1>3

(* Wherever a pause, a failed store call or the death of the program left the  *)
(* rows, the side file, the files and the checkpoint, and whatever holds came  *)
(* late, the load file of a production that ends lists exactly the items that  *)
(* production_items has as produced, and the volume has all their files; as    *)
(* long as no hold is lifted that a run had acted on and died.                 *)
THEOREM LoadFileIsExactTheorem ==
    ASSUME ReadsAreStable
    PROVE  ProduceSpec => []LoadFileIsExact
<1> DEFINE Inv == ~reopened => NumberInv /\ ReadOK /\ VolumeOK
<1>1. ProduceInit => Inv
    BY NumberInit, VolumeInit
<1>2. Inv /\ [ProduceNext]_produceVars => Inv'
    BY NumberNext, ReadNext, VolumeNext, UndoneNext
<1>3. Inv => LoadFileIsExact
    BY VolumeExact DEF LoadFileIsExact
<1> QED BY <1>1, <1>2, <1>3, PTL DEF ProduceSpec

-----------------------------------------------------------------------------
(* The counts of the summary. *)

LEMMA PositiveNext ==
    ASSUME ControlInv, PositiveOK, [ProduceNext]_produceVars
    PROVE  PositiveOK'
<1>0. cur \in Cursors /\ run \in RunType /\ cp \in Cursors /\ ProduceTypeOK
    BY DEF ControlInv, ProduceTypeOK, RunType, cur
<1>p. cp.next >= 1 /\ cur.next >= 1 /\ cp.next \in Nat /\ cur.next \in Nat /\ FreshCursor.next >= 1
    BY <1>0, ProduceAssumptions DEF PositiveOK, Cursors, FreshCursor
<1>a. ASSUME Working
      PROVE  /\ Assigned >= 1 /\ Assigned \in Nat /\ Numbered \in Cursors /\ Numbered.next >= 1
             /\ rows[Item] \in Nat /\ NextAfter(Item, rows[Item]) >= 1 /\ NextAfter(Item, rows[Item]) \in Nat
    <2>1. Item \in Items /\ Assigned \in Nat /\ Numbered \in Cursors /\ Numbered.next = NextAfter(Item, Assigned)
        BY <1>a, ItemFacts, AssignedType
    <2>2. Assigned >= 1 /\ rows[Item] \in Nat
        BY <1>0, <1>p, <2>1 DEF Assigned, PositiveOK, ProduceTypeOK
    <2>3. Span(Item) \in Nat
        BY <2>1, SpanPositive
    <2> QED BY <1>p, <2>1, <2>2, <2>3 DEF NextAfter
<1>1. CASE Begins
    <2>1. cur' = cp' /\ record' = record /\ run'.pc \notin {"written", "persisted"}
        BY <1>0, <1>1, BeginsFacts DEF Begins, ControlInv, PlaceOK
    <2>2. cp'.next = cp.next
        BY <1>0, <1>1 DEF Begins, Begin, Run, Rerun, Begun, Select, Setup, ControlInv, PlaceOK, Cursors
    <2> QED BY <1>p, <2>1, <2>2 DEF PositiveOK
<1>2. CASE Ends
    <2>1. run'.pc = "stopped" /\ cur' = FreshCursor /\ cp' = cp
        BY <1>2, EndsFacts
    <2>2. \A i \in Items : record'[i].status = "ok" => record'[i] = record[i]
        BY <1>0, <1>2 DEF Ends, Refuse, Aborts, FailImages, Crash, PackagingFails, SetupAbort, SweepAbort, GateAbort,
                    RecheckAbort, ProduceTypeOK
    <2> QED BY <1>p, <2>1, <2>2 DEF PositiveOK
<1>3. CASE Strolls
    <2>1. cur' = cur /\ cp' = cp /\ run'.seq = run.seq
        BY <1>3, StrollsFacts
    <2>2. run'.pc \in {"written", "persisted"} => run.pc = "written"
        BY <1>3, StrollsFacts DEF Strolls
    <2>3. \A i \in Items : record'[i].status = "ok" => record'[i].seq >= 1
        <3>1. CASE Persist
            <4>1. run.seq >= 1 /\ \A i \in Items : record'[i] \in {record[i], [status |-> "ok", seq |-> run.seq]}
                BY <1>0, <3>1 DEF Persist, ProduceTypeOK, PositiveOK
            <4> QED BY <4>1 DEF PositiveOK
        <3>2. CASE ~Persist
            BY <1>3, <3>2 DEF Strolls, SweepPass, SweepPurge, SweepEnd, Gate, WriteLoad, PositiveOK
        <3> QED BY <3>1, <3>2
    <2> QED BY <1>p, <2>1, <2>2, <2>3 DEF PositiveOK
<1>4. CASE Saves
    <2>1. record' = record /\ run'.pc \notin {"written", "persisted"}
        BY <1>4, SavesFacts DEF Saves
    <2>2. cur'.next \in {FreshCursor.next, cur.next} /\ cp'.next \in {cp.next, cur.next}
        <3>1. Pause \/ Save => cur' \in {FreshCursor, cur} /\ cp' = cur
            BY SavesFacts DEF Saves
        <3>2. FinishWork => cur'.next = cur.next /\ cp'.next = cur.next
            BY <1>0 DEF FinishWork, cur, Cursors, RunType
        <3>3. SkipDone \/ Complete => cur'.next = cur.next /\ cp' = cp
            <4>1. SkipDone => cur' = [cur EXCEPT !.index = @ + 1] /\ cp' = cp
                BY DEF SkipDone, Go, cur
            <4>2. Complete => cur' = [cur EXCEPT !.phase = "done"] /\ cp' = cp
                BY DEF Complete, Go, cur
            <4> QED BY <1>0, <4>1, <4>2 DEF Cursors
        <3> QED BY <1>4, <3>1, <3>2, <3>3 DEF Saves
    <2> QED BY <1>p, <2>1, <2>2 DEF PositiveOK
<1>5. CASE Passing
    <2>1. run'.pc = "save" /\ cp' = cp
        BY <1>5, PassingFacts
    <2>2. cur'.next >= 1
        <3>1. Recover \/ Decline => Working
            BY DEF Recover, Decline, Packaging, Due
        <3>2. Decline => NextAfter(Item, Assigned) >= 1
            BY <1>a, <3>1, AssignedType
        <3> QED BY <1>5, <1>a, <1>p, <3>1, <3>2, PassingFacts
    <2>3. \A i \in Items : record'[i].status = "ok" => record'[i] = record[i]
        BY <1>0, <1>5 DEF Passing, GateRecord, RecheckWithheld, SkipWithheld, RecordWithheld, Recover, Decline,
                    Unreadable, AppendRow, ProduceTypeOK
    <2> QED BY <1>p, <2>1, <2>2, <2>3 DEF PositiveOK
<1>6. CASE SweepRecord
    <2>1. run'.pc = "sweep" /\ cp' = cp /\ cur'.next = cur.next
        BY <1>0, <1>6 DEF SweepRecord, cur, RunType, Cursors
    <2>2. \A i \in Items : record'[i].status = "ok" => record'[i] = record[i]
        BY <1>0, <1>6 DEF SweepRecord, RecordWithheld, ProduceTypeOK
    <2> QED BY <1>p, <2>1, <2>2 DEF PositiveOK
<1>7. CASE Produce
    <2>1. cur' = Numbered /\ run'.seq = Assigned /\ cp' = cp /\ record' = record /\ Working
        BY <1>0, <1>7 DEF Produce, Packaging, Due, cur, RunType
    <2> QED BY <1>p, <1>a, <2>1 DEF PositiveOK
<1>8. CASE \E i \in Items : Hold(i) \/ Release(i)
    BY <1>8 DEF Hold, Release, PositiveOK, cur
<1>9. CASE UNCHANGED produceVars
    BY <1>9 DEF produceVars, PositiveOK, cur
<1>10. CASE Refusals
    BY <1>p, <1>10, RefusalsFacts DEF PositiveOK
<1> QED BY <1>1, <1>2, <1>3, <1>4, <1>5, <1>6, <1>7, <1>8, <1>9, <1>10, Steps

LEMMA CountSets ==
    ASSUME ControlInv
    PROVE  /\ IsFiniteSet(Produced) /\ IsFiniteSet(TakenBack)
           /\ \A S \in SUBSET Items : IsFiniteSet(Produced \cap S)
<1>1. IsFiniteSet(Items)
    BY FS_Interval, ProduceAssumptions DEF Items
<1> QED BY <1>1, FS_Subset DEF Produced, TakenBack

(* Steps that count nothing and change neither a row nor what is done. *)
LEMMA CountKept ==
    ASSUME CountOK, record' = record, rows' = rows \/ (run'.pc = "ended" /\ Kept.done = Items),
           run.pc # "persisted", run'.pc # "persisted", run.pc # "ended",
           Kept'.done = Kept.done, Kept'.count = Kept.count
    PROVE  CountOK'
<1>1. Produced' = Produced /\ TakenBack' = TakenBack
    BY DEF Produced, TakenBack
<1> QED BY <1>1 DEF CountOK

(* The step past an item that is not done: what its row says then is counted. *)
LEMMA CountPassed ==
    ASSUME ControlInv, CountOK, run.pc \notin {"stopped", "ended"}, run'.pc = "save",
           NEW j \in Items, j \notin cur.done, cur'.done = cur.done \cup {j},
           \A i \in Items : i # j => record'[i] = record[i] /\ rows'[i] = rows[i],
           rows'[j] # 0 <=> record'[j].status = "ok",
           run.pc = "persisted" => j = Item,
           record[j].status \notin {"withheld"},
           cur'.count.produced = cur.count.produced + (IF record'[j].status = "ok" THEN 1 ELSE 0),
           cur'.count.withheld = cur.count.withheld + (IF record'[j].status = "withheld" THEN 1 ELSE 0)
    PROVE  CountOK'
<1>1. Kept = cur /\ Kept' = cur' /\ cur.done \subseteq Items
    BY DEF Kept, ControlInv, ProduceTypeOK, Cursors, cur
<1>2. Produced' \cap cur'.done =
        IF record'[j].status = "ok" THEN (Produced \cap cur.done) \cup {j} ELSE Produced \cap cur.done
    BY <1>1 DEF Produced
<1>3. TakenBack' = IF record'[j].status = "withheld" THEN TakenBack \cup {j} ELSE TakenBack
    BY DEF TakenBack
<1>4. j \notin TakenBack /\ j \notin Produced \cap cur.done
    BY DEF TakenBack
<1>5. /\ Cardinality((Produced \cap cur.done) \cup {j}) = Cardinality(Produced \cap cur.done) + 1
      /\ Cardinality(TakenBack \cup {j}) = Cardinality(TakenBack) + 1
      /\ Cardinality(Produced \cap cur.done) \in Nat /\ Cardinality(TakenBack) \in Nat
    BY <1>1, <1>4, CountSets, FS_AddElement, FS_CardinalityType
<1>6. cur.count.produced = Cardinality(Produced \cap cur.done) /\ cur.count.withheld = Cardinality(TakenBack)
    BY <1>1 DEF CountOK
<1>7. Cardinality(Produced' \cap cur'.done) =
        Cardinality(Produced \cap cur.done) + (IF record'[j].status = "ok" THEN 1 ELSE 0)
    <2>1. Cardinality(Produced' \cap cur'.done) =
            IF record'[j].status = "ok" THEN Cardinality((Produced \cap cur.done) \cup {j})
            ELSE Cardinality(Produced \cap cur.done)
        BY <1>2, Zenon
    <2> QED BY <1>5, <2>1
<1>8. Cardinality(TakenBack') = Cardinality(TakenBack) + (IF record'[j].status = "withheld" THEN 1 ELSE 0)
    BY <1>3, <1>5
<1>9. /\ \A i \in Items \ cur'.done : rows'[i] = 0 /\ record'[i] = NoRecord
      /\ \A i \in cur'.done : rows'[i] # 0 <=> record'[i].status = "ok"
    <2>1. \A i \in Items \ cur.done : i # j => rows[i] = 0 /\ record[i] = NoRecord
        BY <1>1 DEF CountOK
    <2>2. \A i \in cur.done : rows[i] # 0 <=> record[i].status = "ok"
        BY <1>1 DEF CountOK
    <2> QED BY <1>1, <2>1, <2>2
<1>10. cur'.count.produced = Cardinality(Produced' \cap cur'.done) /\ cur'.count.withheld = Cardinality(TakenBack')
    BY <1>6, <1>7, <1>8
<1> QED BY <1>1, <1>9, <1>10 DEF CountOK

LEMMA CountNext ==
    ASSUME ControlInv, PositiveOK, ~lost => CountOK /\ ListOK, [ProduceNext]_produceVars
    PROVE  ~lost' => CountOK' /\ ListOK'
<1>0. cur \in Cursors /\ run \in RunType /\ cp \in Cursors /\ ProduceTypeOK
    BY DEF ControlInv, ProduceTypeOK, RunType, cur
<1>1. CASE Begins
    <2>1. /\ cur' = cp' /\ cp'.done = cp.done /\ cp'.count = cp.count
          /\ UNCHANGED <<record, rows, load, lost>> /\ run.pc # "persisted" /\ run.pc # "ended"
          /\ run'.pc \in {"select", "setup", "sweep"} /\ cp'.phase # "done"
        BY <1>0, <1>1, BeginsFacts DEF Begins, Begin, Run, Rerun, Begun, Select, Setup, ControlInv, PlaceOK
    <2>2. Kept = cp /\ Kept' = cp'
        BY <1>1, <2>1, BeginsFacts DEF Kept, Begins
    <2> QED BY <2>1, <2>2, CountKept DEF ListOK
<1>2. CASE Ends
    <2>1. CASE Refuse \/ SetupAbort
        <3>1. /\ cur = cp /\ cp' = cp /\ run'.pc = "stopped" /\ UNCHANGED <<record, rows, load, lost>>
              /\ run.pc \in {"select", "setup"}
            BY <1>2, <2>1, EndsFacts DEF Refuse, SetupAbort, ControlInv, PlaceOK
        <3>2. Kept = cp /\ Kept' = cp /\ cp.phase # "done"
            BY <3>1 DEF Kept, ControlInv, PlaceOK
        <3> QED BY <3>1, <3>2, CountKept DEF ListOK
    <2>2. CASE ~Refuse /\ ~SetupAbort
        BY <1>2, <2>2 DEF Ends, Aborts, FailImages, Crash, PackagingFails, SweepAbort, GateAbort, RecheckAbort, Fail
    <2> QED BY <2>1, <2>2
<1>3. CASE Strolls
    <2>1. /\ cur' = cur /\ rows' = rows /\ lost' = lost
          /\ run.pc \in {"sweep", "loop", "written", "load"} /\ cur.phase # "done"
        BY <1>3, StrollsFacts DEF Strolls, SweepPass, SweepPurge, SweepEnd, Gate, Persist, WriteLoad, ControlInv, PlaceOK
    <2>2. Kept = cur /\ Kept' = cur /\ run'.pc # "stopped"
        BY <1>3, <2>1, StrollsFacts DEF Kept, Strolls
    <2>3. CASE ~Persist
        <3>1. record' = record /\ run'.pc # "persisted" /\ (run'.pc = "check" => load' = rows)
            BY <1>3, <2>3, StrollsFacts DEF Strolls, SweepPass, SweepPurge, SweepEnd, Gate, WriteLoad
        <3> QED BY <2>1, <2>2, <3>1, CountKept DEF ListOK
    <2>4. CASE Persist
        <3>1. run'.pc = "persisted" /\ Item' = Item /\ Item \in Items /\ Item \notin cur.done
            BY <1>3, <2>1, <2>4, StrollsFacts DEF Item
        <3>2. \A i \in Items : i # Item => record'[i] = record[i]
            BY <1>0, <2>4 DEF Persist, ProduceTypeOK
        <3>3. record'[Item].status = "ok"
            BY <1>0, <2>4, <3>1 DEF Persist, ProduceTypeOK
        <3>4. ASSUME ~lost PROVE CountOK'
            <4>1. record[Item].status = "none" /\ run.pc = "written"
                BY <2>2, <2>4, <3>1, <3>4 DEF CountOK, NoRecord, Persist
            <4>2. Produced' \cap cur.done = Produced \cap cur.done /\ TakenBack' = TakenBack
                BY <3>1, <3>2, <3>3, <4>1 DEF Produced, TakenBack
            <4>3. \A i \in cur.done : record'[i] = record[i]
                BY <1>0, <3>1, <3>2 DEF Cursors
            <4>4. \A i \in Items \ cur.done : rows[i] = 0 /\ (record'[i] = NoRecord \/ i = Item)
                BY <2>2, <3>2, <3>4, <4>1 DEF CountOK
            <4> QED BY <2>1, <2>2, <3>1, <3>3, <3>4, <4>1, <4>2, <4>3, <4>4 DEF CountOK
        <3> QED BY <2>1, <2>2, <3>1, <3>4 DEF ListOK
    <2> QED BY <2>3, <2>4
<1>4. CASE Saves
    <2>1. record' = record /\ load' = load /\ lost' = lost /\ run.pc \in {"loop", "save", "check"}
          /\ run'.pc \notin {"persisted", "check"}
        BY <1>4, SavesFacts DEF Saves
    <2>2. Kept = cur /\ Kept'.done = cur.done /\ Kept'.count = cur.count
        BY <1>4, <2>1, SavesFacts DEF Saves, Kept
    <2>3. rows' = rows \/ (run'.pc = "ended" /\ cur.done = Items)
        <3>1. CASE Save /\ cur.phase = "done"
            <4>1. cur.index = N /\ \A k \in Items : k \in cur.done
                BY <3>1, ProduceAssumptions DEF ControlInv, IndexOK, Items
            <4> QED BY <1>0, <3>1, <4>1, SavesFacts DEF Saves, Cursors
        <3>2. CASE ~(Save /\ cur.phase = "done")
            BY <1>4, <3>2, SavesFacts DEF Saves, Save
        <3> QED BY <3>1, <3>2
    <2>4. ASSUME ~lost, Kept'.phase = "done" PROVE \A i \in Items : load[i] # 0 <=> record[i].status = "ok"
        <3>1. CASE Complete
            <4>1. run.pc = "check" /\ load = rows /\ cur.phase = "finalize"
                BY <2>4, <3>1, SavesFacts DEF Saves, ListOK, ControlInv, PlaceOK
            <4>2. \A k \in Items : k \in cur.done
                BY <4>1, ProduceAssumptions DEF ControlInv, IndexOK, Items
            <4> QED BY <2>2, <2>4, <4>1, <4>2 DEF CountOK
        <3>2. CASE ~Complete
            <4>1. cur.phase = "done"
                BY <1>4, <2>1, <2>4, <3>2, SavesFacts DEF Saves, Kept, ControlInv, PlaceOK
            <4> QED BY <2>2, <2>4, <4>1 DEF ListOK
        <3> QED BY <3>1, <3>2
    <2> QED BY <2>1, <2>2, <2>3, <2>4, CountKept DEF ListOK
<1>5. CASE Passing
    <2>1. PICK j \in Items : j = Item
        BY <1>5, PassingFacts
    <2>2. /\ j \notin cur.done /\ run.pc \in {"loop", "gatePurged", "written", "persisted"} /\ run'.pc = "save"
          /\ cur'.done = cur.done \cup {j} /\ cur'.phase = "work"
          /\ run.pc = "persisted" => AppendRow
        BY <1>5, <2>1, PassingFacts
    <2>3. lost' = lost /\ \A i \in Items : i # j => record'[i] = record[i] /\ rows'[i] = rows[i]
        BY <1>0, <1>5, <2>1 DEF Passing, GateRecord, RecheckWithheld, SkipWithheld, RecordWithheld, Recover, Decline,
                    Unreadable, AppendRow, Packaging, ProduceTypeOK
    <2>4. ASSUME ~lost PROVE CountOK'
        <3>1. /\ rows[j] = 0 /\ (record[j] = NoRecord \/ run.pc = "persisted")
              /\ run.pc = "persisted" => record[j].status = "ok"
            BY <2>1, <2>2, <2>4 DEF CountOK, Kept
        <3>2. ~Recover
            BY <2>1, <3>1 DEF Recover, Intact
        <3>3. cur.count.produced \in Nat /\ cur.count.withheld \in Nat
            BY <1>0 DEF Cursors, Counts
        <3>4. CASE AppendRow
            <4>1. run.pc = "persisted" /\ ~GateRecord /\ ~RecheckWithheld /\ record' = record /\ rows'[j] = run.seq /\ run.seq >= 1
                BY <1>0, <2>1, <3>4 DEF AppendRow, GateRecord, RecheckWithheld, ProduceTypeOK, PositiveOK
            <4>2. cur'.count.produced = cur.count.produced + 1 /\ cur'.count.withheld = cur.count.withheld
                BY <1>5, <3>3, <3>4, <4>1, PassingFacts
            <4>3. run.seq # 0
                BY <1>0, <4>1 DEF RunType
            <4> QED BY <2>1, <2>2, <2>3, <2>4, <3>1, <3>3, <4>1, <4>2, <4>3, CountPassed
        <3>5. CASE ~AppendRow
            <4>1. record[j].status = "none" /\ run.pc # "persisted"
                BY <2>2, <3>1, <3>5 DEF NoRecord
            <4>2. rows'[j] = 0 /\ record'[j].status # "ok"
                  /\ (record'[j].status = "withheld" <=> GateRecord \/ RecheckWithheld)
                <5>1. CASE GateRecord \/ RecheckWithheld
                    BY <1>0, <2>1, <3>1, <5>1 DEF GateRecord, RecheckWithheld, SkipWithheld, RecordWithheld, ProduceTypeOK
                <5>2. CASE ~GateRecord /\ ~RecheckWithheld
                    BY <1>0, <1>5, <2>1, <3>2, <3>5, <5>2 DEF Passing, Decline, Unreadable, Packaging, ProduceTypeOK
                <5> QED BY <5>1, <5>2
            <4>3. cur'.count.produced = cur.count.produced
                BY <1>5, <3>2, <3>3, <3>5, PassingFacts
            <4>4. cur'.count.withheld = cur.count.withheld + (IF record'[j].status = "withheld" THEN 1 ELSE 0)
                BY <1>5, <2>1, <4>1, <4>2, PassingFacts DEF CountWithheld
            <4> QED BY <2>1, <2>2, <2>3, <2>4, <3>3, <4>1, <4>2, <4>3, <4>4, CountPassed
        <3> QED BY <3>4, <3>5
    <2> QED BY <2>2, <2>3, <2>4 DEF ListOK, Kept
<1>6. CASE SweepRecord
    <2>1. PICK j \in Items : j = run.at
        BY <1>6 DEF SweepRecord, ControlInv, PlaceOK
    <2>2. /\ run.pc = "sweepPurged" /\ run'.pc = "sweep" /\ lost' = lost
          /\ cur'.done = cur.done \cup {j} /\ cur'.phase = cur.phase /\ cur.phase # "done"
          /\ cur'.count.produced = cur.count.produced - Uncounted(j)
          /\ cur'.count.withheld = cur.count.withheld + CountWithheld(j)
        BY <1>0, <1>6, <2>1 DEF SweepRecord, cur, RunType, Cursors, Counts, ControlInv, PlaceOK
    <2>3. /\ \A i \in Items : i # j => record'[i] = record[i] /\ rows'[i] = rows[i]
          /\ record'[j].status = "withheld" /\ rows'[j] = 0
        BY <1>0, <1>6, <2>1 DEF SweepRecord, RecordWithheld, ProduceTypeOK
    <2>4. ASSUME ~lost PROVE CountOK'
        <3>1. Kept = cur /\ Kept' = cur' /\ cur.done \subseteq Items
            BY <1>0, <2>2 DEF Kept, Cursors
        <3>2. (j \in cur.done /\ (rows[j] # 0 <=> record[j].status = "ok")) \/ (j \notin cur.done /\ rows[j] = 0 /\ record[j] = NoRecord)
            BY <2>2, <2>4, <3>1 DEF CountOK
        <3>3. Produced' \cap cur'.done = (Produced \cap cur.done) \ {j}
            BY <2>2, <2>3, <3>1 DEF Produced
        <3>4. TakenBack' = TakenBack \cup {j}
            BY <2>3 DEF TakenBack
        <3>5. j \in TakenBack <=> record[j].status = "withheld"
            BY DEF TakenBack
        <3>6. j \in Produced \cap cur.done <=> rows[j] # 0 \/ record[j].status = "ok"
            BY <3>2 DEF Produced, NoRecord
        <3>7. IsFiniteSet(Produced \cap cur.done) /\ IsFiniteSet(TakenBack)
            BY <3>1, CountSets
        <3>8. cur'.count.withheld = Cardinality(TakenBack')
            <4>1. cur.count.withheld = Cardinality(TakenBack) /\ cur.count.withheld \in Nat
                BY <2>4, <3>1, <3>7, FS_CardinalityType DEF CountOK
            <4>2. Cardinality(TakenBack \cup {j}) =
                    IF j \in TakenBack THEN Cardinality(TakenBack) ELSE Cardinality(TakenBack) + 1
                BY <3>7, FS_AddElement
            <4>3. Cardinality(TakenBack') = cur.count.withheld + CountWithheld(j)
                BY <3>4, <3>5, <4>1, <4>2 DEF CountWithheld
            <4> QED BY <2>2, <4>3
        <3>9. cur'.count.produced = Cardinality(Produced' \cap cur'.done)
            <4>1. cur.count.produced = Cardinality(Produced \cap cur.done) /\ cur.count.produced \in Nat
                BY <2>4, <3>1, <3>7, FS_CardinalityType DEF CountOK
            <4>2. Cardinality((Produced \cap cur.done) \ {j}) =
                    IF j \in Produced \cap cur.done THEN cur.count.produced - 1 ELSE cur.count.produced
                BY <3>7, <4>1, FS_RemoveElement
            <4>3. j \in Produced \cap cur.done => cur.count.produced > 0
                BY <3>7, <4>1, FS_EmptySet
            <4>4. Uncounted(j) = IF j \in Produced \cap cur.done THEN 1 ELSE 0
                BY <3>6, <4>3 DEF Uncounted
            <4>5. Cardinality(Produced' \cap cur'.done) = cur.count.produced - Uncounted(j)
                <5>1. Cardinality(Produced' \cap cur'.done) = Cardinality((Produced \cap cur.done) \ {j})
                    BY <3>3, Zenon
                <5> QED BY <4>1, <4>2, <4>4, <5>1
            <4> QED BY <2>2, <4>5
        <3>10. /\ \A i \in Items \ cur'.done : rows'[i] = 0 /\ record'[i] = NoRecord
               /\ \A i \in cur'.done : rows'[i] # 0 <=> record'[i].status = "ok"
            <4>1. \A i \in Items \ cur.done : rows[i] = 0 /\ record[i] = NoRecord
                BY <2>2, <2>4, <3>1 DEF CountOK
            <4>2. \A i \in cur.done : rows[i] # 0 <=> record[i].status = "ok"
                BY <2>2, <2>4, <3>1 DEF CountOK
            <4> QED BY <2>2, <2>3, <3>1, <4>1, <4>2
        <3> QED BY <2>2, <3>1, <3>8, <3>9, <3>10 DEF CountOK
    <2> QED BY <2>2, <2>4 DEF ListOK, Kept
<1>7. CASE Produce
    <2>1. /\ Working /\ Item \in Items /\ Item \notin cur.done /\ run.pc = "loop" /\ cur.phase # "done"
          /\ record' = record /\ lost' = lost /\ run'.pc = "written" /\ cur' = Numbered
          /\ rows' = [rows EXCEPT ![Item] = 0]
        BY <1>0, <1>7, ItemFacts DEF Produce, Packaging, Due, Working, cur, RunType, ControlInv, PlaceOK
    <2>2. Numbered.done = cur.done /\ Numbered.count = cur.count /\ Numbered.phase = cur.phase
        BY <2>1, AssignedType
    <2>3. Kept = cur /\ Kept' = cur'
        BY <2>1 DEF Kept
    <2>4. ASSUME ~lost PROVE rows' = rows
        <3>1. rows[Item] = 0
            BY <2>1, <2>3, <2>4 DEF CountOK
        <3> QED BY <1>0, <2>1, <3>1 DEF ProduceTypeOK
    <2> QED BY <2>1, <2>2, <2>3, <2>4, CountKept DEF ListOK
<1>8. CASE (\E i \in Items : Hold(i) \/ Release(i)) \/ UNCHANGED produceVars
    <2>1. UNCHANGED <<record, rows, load, cp, run, lost>> /\ cur' = cur /\ Item' = Item
        BY <1>8 DEF Hold, Release, produceVars, cur, Item
    <2>2. Kept' = Kept /\ Produced' = Produced /\ TakenBack' = TakenBack
        BY <2>1 DEF Kept, Produced, TakenBack
    <2> QED BY <2>1, <2>2 DEF CountOK, ListOK
<1>9. CASE Refusals
    BY <1>9, RefusalsFacts
<1> QED BY <1>1, <1>2, <1>3, <1>4, <1>5, <1>6, <1>7, <1>8, <1>9, Steps

LEMMA CountInit == ASSUME ProduceInit PROVE CountInv
<1>1. run.pc = "select" /\ cur = FreshCursor /\ cp = FreshCursor /\ Kept = FreshCursor
    BY DEF ProduceInit, Begun, cur, Kept
<1>2. PositiveOK
    BY <1>1, ProduceAssumptions DEF ProduceInit, PositiveOK, FreshCursor, NoRecord
<1>3. Produced \cap Kept.done = {} /\ TakenBack = {}
    BY <1>1 DEF ProduceInit, Produced, TakenBack, NoRecord, FreshCursor
<1>4. Cardinality(Produced \cap Kept.done) = 0 /\ Cardinality(TakenBack) = 0
    BY <1>3, FS_EmptySet, Zenon
<1>5. Kept.count.produced = 0 /\ Kept.count.withheld = 0 /\ Kept.done = {} /\ Kept.phase = "select"
    BY <1>1 DEF FreshCursor
<1>6. CountOK
    BY <1>1, <1>4, <1>5 DEF ProduceInit, CountOK
<1> QED BY <1>1, <1>2, <1>5, <1>6 DEF CountInv, ListOK

LEMMA CountsMatch == ASSUME ControlInv, CountInv PROVE CountsMatchVolume
<1> SUFFICES ASSUME Ended, ~lost
             PROVE  /\ cur.count.produced = Cardinality(Listed)
                    /\ cur.count.withheld = Cardinality({i \in Items : record[i].status = "withheld"})
    BY DEF CountsMatchVolume
<1>1. Kept = cur /\ cur.phase = "done" /\ cur.done \subseteq Items
    BY DEF Ended, Kept, ControlInv, PlaceOK, ProduceTypeOK, Cursors, cur
<1>2. \A k \in Items : k \in cur.done
    BY <1>1, ProduceAssumptions DEF ControlInv, IndexOK, Items
<1>3. Listed = Produced \cap cur.done
    BY <1>1, <1>2 DEF Listed, Produced, CountInv, ListOK
<1>4. cur.count.produced = Cardinality(Produced \cap cur.done) /\ cur.count.withheld = Cardinality(TakenBack)
    BY <1>1 DEF CountInv, CountOK
<1> QED BY <1>3, <1>4, Zenon DEF TakenBack

(* Over any number of pauses, resumes and late holds, a production of any size *)
(* in which no run was cut short ends with a summary that counts every item of *)
(* the load file once as produced and every item taken back once as withheld.  *)
THEOREM CountsMatchVolumeTheorem == ProduceSpec => []CountsMatchVolume
<1> DEFINE Inv == ControlInv /\ CountInv
<1>1. ProduceInit => Inv
    BY InitControl, CountInit
<1>2. Inv /\ [ProduceNext]_produceVars => Inv'
    BY ControlNext, PositiveNext, CountNext DEF CountInv
<1>3. Inv => CountsMatchVolume
    BY CountsMatch
<1> QED BY <1>1, <1>2, <1>3, PTL DEF ProduceSpec

-----------------------------------------------------------------------------
(* The files of items on hold. *)

(* The program does not die, and no store call fails, between the files of an item and the *)
(* row that records them; and an item that may be skipped is none whose pages may fail.    *)
FilesAreRecorded ==
    /\ "written" \notin CrashPoints
    /\ \A i \in Items : ~({"skipped", "fatal"} \subseteq Outcomes[i])

(* Steps that write no file, and leave the rows of the items that have files alone. *)
LEMMA FilesKept ==
    ASSUME FilesOK, files' \subseteq files, run.pc # "written", run'.pc \notin {"sweepPurged", "gatePurged"},
           \A i \in Items : record'[i].status = "skipped" => record[i].status = "skipped",
           \A f \in files' : /\ f.ext # "tif" => record'[f.item] = record[f.item]
                             /\ f.ext = "tif" => pageRows'[f.item] = pageRows[f.item]
    PROVE  FilesOK'
<1>1. \A f \in files' : f.item \in Items /\ f.seq \in Nat \ {0} /\ Reachable(f)'
    BY DEF FilesOK, Reachable, Numbers, Span
<1>2. \A i \in Items : /\ "missing" \in Outcomes[i] => NoFiles(i)'
                       /\ record'[i].status = "skipped" => "skipped" \in Outcomes[i]
    BY DEF FilesOK, NoFiles
<1> QED BY <1>1, <1>2 DEF FilesOK

(* A purge finds every file of the item. *)
LEMMA PurgeFinds ==
    ASSUME NumberInv, FilesOK, run.pc # "written", NEW j \in Items, Purge(j)
    PROVE  NoFiles(j)' /\ files' \subseteq files /\ \A i \in Items : i # j => pageRows'[i] = pageRows[i]
<1>1. ASSUME NEW f \in files, f.item = j PROVE f \in PurgedFiles(j)
    <2>1. Reachable(f)
        BY DEF FilesOK
    <2> QED BY <1>1, <2>1 DEF Reachable, PurgedFiles, ControlFiles, ImageFiles, PageNumbers
<1>2. files' = files \ PurgedFiles(j) /\ pageRows' = [pageRows EXCEPT ![j] = 0]
    BY DEF Purge
<1> QED BY <1>1, <1>2 DEF NoFiles, NumberInv, ProduceTypeOK

(* The files of the item at work have the next number of the checkpoint. *)
LEMMA FilesAtWork ==
    ASSUME NumberInv, FilesOK, Known(Item) \subseteq {cp.next}, NEW f \in files, f.item = Item, f.ext # "tif",
           run.pc # "written"
    PROVE  f.seq = cp.next /\ f.seq = record[Item].seq /\ record[Item].status \in {"ok", "skipped"}
<1>1. f.seq = record[Item].seq /\ record[Item].status \in {"ok", "skipped"} /\ f.seq # 0
    BY DEF FilesOK, Reachable
<1> QED BY <1>1 DEF Known

LEMMA FilesNext ==
    ASSUME NumberInv, ReadOK, FilesOK, ReadsAreStable, FilesAreRecorded, [ProduceNext]_produceVars
    PROVE  FilesOK'
<1>0. ControlInv
    BY DEF NumberInv, ControlInv
<1>t. ProduceTypeOK /\ run \in RunType /\ cur \in Cursors /\ cp \in Cursors
    BY DEF NumberInv, ProduceTypeOK, RunType, cur
<1>1. CASE Begins
    <2>1. /\ UNCHANGED <<record, pageRows, files>> /\ run.pc # "written"
          /\ run'.pc \notin {"sweepPurged", "gatePurged"}
        BY <1>0, <1>1, BeginsFacts DEF Begins, Begin, Run, Rerun, Begun, Select, Setup, ControlInv, PlaceOK
    <2> QED BY <2>1, FilesKept
<1>2. CASE Saves
    <2>1. /\ UNCHANGED <<record, pageRows, files>> /\ run.pc # "written"
          /\ run'.pc \notin {"sweepPurged", "gatePurged"}
        BY <1>0, <1>2, SavesFacts DEF Saves
    <2> QED BY <2>1, FilesKept
<1>3. CASE Ends
    <2>0. run'.pc = "stopped"
        BY <1>3, EndsFacts
    <2>1. CASE Refuse \/ SetupAbort \/ SweepAbort \/ GateAbort \/ FailImages \/ Crash
        <3>1. UNCHANGED <<record, pageRows>> /\ files' \subseteq files /\ run.pc # "written"
            BY <2>1 DEF Refuse, SetupAbort, SweepAbort, GateAbort, FailImages, Crash, FilesAreRecorded, Fail
        <3> QED BY <2>0, <3>1, FilesKept
    <2>2. CASE PackagingFails
        <3>l. Due /\ Item \notin withheld /\ run.pc = "loop" /\ pageRows' = pageRows /\ "fatal" \in Outcomes[Item]
            BY <2>2 DEF PackagingFails, Packaging, Due, Working
        <3>1. Known(Item) \subseteq {cp.next} /\ Assigned = cp.next /\ Item \in Items
            BY <3>l, Lone
        <3>2. PICK s \in {Assigned} \cup (IF record[Item].status = "ok" THEN {} ELSE {0}) :
                /\ record' = [record EXCEPT ![Item] = [status |-> "error", seq |-> s]]
                /\ files' = FreshFiles \ ControlFiles(s)
            BY <2>2 DEF PackagingFails
        <3>3. files' \subseteq files
            BY <3>2 DEF FreshFiles
        <3>4. ASSUME NEW f \in files', f.ext # "tif" PROVE f.item # Item
            <4>1. SUFFICES ASSUME f.item = Item PROVE FALSE
                OBVIOUS
            <4>2. f \in files /\ f.seq = cp.next /\ record[Item].status \in {"ok", "skipped"}
                BY <3>l, <3>1, <3>3, <3>4, <4>1, FilesAtWork
            <4>3. record[Item].status # "skipped"
                BY <3>1, <3>l DEF FilesOK, FilesAreRecorded
            <4>4. s = cp.next
                BY <3>1, <4>2, <4>3
            <4> QED BY <3>2, <3>4, <4>2, <4>4 DEF ControlFiles
        <3>5. \A f \in files' : f.item \in Items
            BY <3>3 DEF FilesOK
        <3>6. \A i \in Items : /\ record'[i].status = "skipped" => record[i].status = "skipped"
                               /\ i # Item => record'[i] = record[i]
            BY <1>t, <3>2 DEF ProduceTypeOK
        <3> QED BY <2>0, <3>l, <3>3, <3>4, <3>5, <3>6, FilesKept
    <2>3. CASE RecheckAbort
        <3>1. /\ run.pc = "written" /\ UNCHANGED <<record, pageRows>> /\ Item \in Items /\ run.seq \in Nat
              /\ files' = files \ (ControlFiles(run.seq) \cup Images(Item, run.seq))
            BY <1>0, <1>t, <2>3, ItemFacts DEF RecheckAbort, RunType
        <3>2. ASSUME NEW f \in files' PROVE f.item \in Items /\ f.seq \in Nat \ {0} /\ Reachable(f)'
            <4>1. f \in files /\ f \notin ControlFiles(run.seq) /\ f \notin Images(Item, run.seq)
                BY <3>1
            <4>2. f.item \in Items /\ f.seq \in Nat \ {0} /\ Reachable(f)
                BY <4>1 DEF FilesOK
            <4>3. f \notin Artifacts(Item, run.seq)
                BY <4>1, <3>1, ProduceAssumptions DEF Artifacts, ControlFiles
            <4> QED BY <3>1, <4>2, <4>3 DEF Reachable, Numbers, Span
        <3> QED BY <2>0, <3>1, <3>2 DEF FilesOK, NoFiles
    <2> QED BY <1>3, <2>1, <2>2, <2>3 DEF Ends, Aborts
<1>4. CASE Strolls
    <2>0. cur' = cur /\ run'.seq = run.seq /\ Item' = Item
        BY <1>0, <1>4, StrollsFacts DEF Item
    <2>1. CASE SweepPass \/ SweepEnd \/ WriteLoad
        <3>1. /\ UNCHANGED <<record, pageRows, files>> /\ run.pc # "written"
              /\ run'.pc \notin {"sweepPurged", "gatePurged"}
            BY <1>0, <1>4, <2>1, StrollsFacts DEF SweepPass, SweepEnd, WriteLoad, Sweeping
        <3> QED BY <3>1, FilesKept
    <2>2. CASE SweepPurge \/ Gate
        <3>1. PICK j \in Items : /\ Purge(j) /\ run.pc # "written" /\ record' = record
                                 /\ SweepPurge => run'.pc = "sweepPurged" /\ run'.at = j
                                 /\ ~SweepPurge => run'.pc = "gatePurged" /\ Item' = j
            BY <1>0, <1>4, <2>0, <2>2, StrollsFacts DEF SweepPurge, Gate, SweepPass, Sweeping
        <3>2. NoFiles(j)' /\ files' \subseteq files /\ \A i \in Items : i # j => pageRows'[i] = pageRows[i]
            BY <3>1, PurgeFinds
        <3>3. \A f \in files' : f.item \in Items /\ f.seq \in Nat \ {0} /\ Reachable(f)'
            BY <3>1, <3>2 DEF FilesOK, Reachable, NoFiles, Numbers, Span
        <3>4. \A i \in Items : "missing" \in Outcomes[i] => NoFiles(i)'
            BY <3>2 DEF FilesOK, NoFiles
        <3>5. /\ run'.pc = "sweepPurged" => NoFiles(run.at)'
              /\ run'.pc = "gatePurged" => NoFiles(Item)'
            BY <2>2, <3>1, <3>2 DEF NoFiles
        <3> QED BY <3>1, <3>3, <3>4, <3>5 DEF FilesOK
    <2>3. CASE Persist
        <3>1. PICK j \in Items : j = Item /\ j \notin cur.done
            BY <1>0, <1>4, <2>3, StrollsFacts
        <3>2. /\ run.pc = "written" /\ run'.pc = "persisted" /\ files' = files
              /\ record' = [record EXCEPT ![j] = [status |-> "ok", seq |-> run.seq]]
              /\ pageRows' = IF Pages[j] >= 1 THEN [pageRows EXCEPT ![j] = run.seq] ELSE pageRows
            BY <1>0, <1>4, <2>3, <3>1, StrollsFacts DEF Persist
        <3>3. run.seq = cp.next /\ cp.done \subseteq cur.done /\ run.seq # 0 /\ run.seq \in Nat
            BY <1>t, <3>1, <3>2 DEF NumberInv, CursorOK, NumbersOK, RunType
        <3>4. Known(j) \subseteq {cp.next}
            BY <3>1, <3>3 DEF NumberInv, NumbersOK
        <3>5. /\ record'[j] = [status |-> "ok", seq |-> run.seq]
              /\ pageRows'[j] \in {pageRows[j], run.seq} /\ (Pages[j] >= 1 => pageRows'[j] = run.seq)
              /\ \A i \in Items : i # j => record'[i] = record[i] /\ pageRows'[i] = pageRows[i]
            BY <1>t, <3>1, <3>2 DEF ProduceTypeOK
        <3>6. ASSUME NEW f \in files PROVE Reachable(f)'
            <4>0. f.item \in Items /\ f.seq # 0 /\ Reachable(f)
                BY DEF FilesOK
            <4>1. CASE f.item # j
                BY <3>1, <3>5, <4>0, <4>1 DEF Reachable, Numbers, Span
            <4>2. CASE f.item = j /\ f.ext # "tif"
                <5>1. f.seq = run.seq
                    <6>1. CASE f.seq = record[j].seq
                        BY <3>3, <3>4, <4>0, <6>1 DEF Known
                    <6>2. CASE f \in Artifacts(j, run.seq)
                        BY <4>2, <6>2 DEF Artifacts, Images
                    <6> QED BY <4>0, <4>2, <6>1, <6>2 DEF Reachable
                <5> QED BY <3>5, <4>2, <5>1 DEF Reachable
            <4>3. CASE f.item = j /\ f.ext = "tif"
                <5>1. CASE pageRows[j] # 0 /\ f.seq \in Numbers(j, pageRows[j])
                    <6>1. pageRows[j] = run.seq
                        BY <3>1, <3>2, <3>3, <3>4, <5>1, KnownAll
                    <6>2. pageRows'[j] = run.seq
                        BY <3>5, <6>1
                    <6> QED BY <3>3, <4>3, <5>1, <6>1, <6>2 DEF Reachable, Numbers, Span
                <5>2. CASE f \in Artifacts(j, run.seq)
                    <6>1. f \in Images(j, run.seq)
                        BY <4>3, <5>2, ProduceAssumptions DEF Artifacts
                    <6>2. Pages[j] >= 1 /\ f.seq \in Numbers(j, run.seq)
                        <7>1. PICK q \in 0..(Pages[j] - 1) : f = [seq |-> run.seq + q, ext |-> "tif", item |-> j]
                            BY <6>1 DEF Images
                        <7> QED BY <3>3, <7>1, ProduceAssumptions DEF Numbers, Span
                    <6> QED BY <3>3, <3>5, <4>3, <6>2 DEF Reachable, Numbers, Span
                <5> QED BY <3>1, <4>0, <4>3, <5>1, <5>2 DEF Reachable
            <4> QED BY <4>1, <4>2, <4>3
        <3>7. \A i \in Items : record'[i].status = "skipped" => record[i].status = "skipped"
            BY <3>5
        <3> QED BY <3>2, <3>6, <3>7 DEF FilesOK, NoFiles
    <2> QED BY <1>4, <2>1, <2>2, <2>3 DEF Strolls
<1>5. CASE SweepRecord
    <2>1. /\ run.pc = "sweepPurged" /\ run'.pc = "sweep" /\ run.at \in Items /\ UNCHANGED <<pageRows, files>>
          /\ record' = [record EXCEPT ![run.at] = [status |-> "withheld", seq |-> 0]]
        BY <1>0, <1>t, <1>5 DEF SweepRecord, RecordWithheld, RunType, ControlInv, PlaceOK
    <2>2. \A f \in files : f.item \in Items /\ f.item # run.at
        BY <2>1 DEF FilesOK, NoFiles
    <2>3. \A i \in Items : /\ record'[i].status = "skipped" => record[i].status = "skipped"
                           /\ i # run.at => record'[i] = record[i]
        BY <1>t, <2>1 DEF ProduceTypeOK
    <2> QED BY <2>1, <2>2, <2>3, FilesKept
<1>6. CASE Passing
    <2>0. Item \in Items /\ run'.pc = "save" /\ pageRows' = pageRows
        BY <1>0, <1>6, PassingFacts DEF Passing, GateRecord, RecheckWithheld, Recover, Decline, Unreadable, AppendRow
    <2>1. CASE Recover \/ AppendRow
        <3>1. record' = record /\ files' = files /\ run.pc # "written"
            BY <2>1 DEF Recover, AppendRow, Due, Working
        <3> QED BY <2>0, <3>1, FilesKept
    <2>2. CASE GateRecord \/ Unreadable
        <3>1. /\ run.pc # "written" /\ NoFiles(Item) /\ files' \subseteq files
              /\ \E st \in {"withheld", "error"} : record' = [record EXCEPT ![Item] = [status |-> st, seq |-> 0]]
            BY <2>0, <2>2 DEF GateRecord, SkipWithheld, RecordWithheld, Unreadable, Packaging, Due, Working, FreshFiles, FilesOK
        <3>2. \A f \in files : f.item \in Items /\ f.item # Item
            BY <3>1 DEF FilesOK, NoFiles
        <3>3. \A i \in Items : /\ record'[i].status = "skipped" => record[i].status = "skipped"
                               /\ i # Item => record'[i] = record[i]
            BY <1>t, <3>1 DEF ProduceTypeOK
        <3> QED BY <2>0, <3>1, <3>2, <3>3, FilesKept
    <2>3. CASE Decline
        <3>l. Due /\ Item \notin withheld /\ run.pc = "loop"
            BY <2>3 DEF Decline, Packaging, Due, Working
        <3>1. Known(Item) \subseteq {cp.next} /\ Assigned = cp.next
            BY <3>l, Lone
        <3>2. PICK o \in Outcomes[Item] \cap {"skipped", "error"} :
                /\ record' = [record EXCEPT ![Item] = [status |-> o, seq |-> Assigned]]
                /\ files' = IF o = "error" THEN FreshFiles \ ControlFiles(Assigned) ELSE FreshFiles
            BY <2>3 DEF Decline
        <3>3. files' \subseteq files
            BY <3>2 DEF FreshFiles
        <3>4. /\ record'[Item] = [status |-> o, seq |-> cp.next]
              /\ \A i \in Items : i # Item => record'[i] = record[i]
            BY <1>t, <2>0, <3>1, <3>2 DEF ProduceTypeOK
        <3>5. ASSUME NEW f \in files' PROVE Reachable(f)'
            <4>0. f \in files /\ f.item \in Items /\ Reachable(f)
                BY <3>3 DEF FilesOK
            <4>1. CASE f.ext = "tif" \/ f.item # Item
                BY <2>0, <3>l, <3>4, <4>0, <4>1 DEF Reachable, Numbers, Span
            <4>2. CASE f.ext # "tif" /\ f.item = Item
                <5>1. f.seq = cp.next
                    BY <3>l, <3>1, <4>0, <4>2, FilesAtWork
                <5>2. o = "skipped"
                    BY <3>1, <3>2, <4>0, <4>2, <5>1 DEF ControlFiles
                <5> QED BY <3>4, <4>2, <5>1, <5>2 DEF Reachable
            <4> QED BY <4>1, <4>2
        <3>6. \A i \in Items : /\ "missing" \in Outcomes[i] => NoFiles(i)'
                               /\ record'[i].status = "skipped" => "skipped" \in Outcomes[i]
            BY <3>2, <3>3, <3>4 DEF FilesOK, NoFiles
        <3> QED BY <2>0, <3>3, <3>5, <3>6 DEF FilesOK
    <2>4. CASE RecheckWithheld
        <3>1. /\ run.pc = "written" /\ run.seq \in Nat /\ run.seq = cp.next /\ Item \notin cp.done
              /\ files' = files \ (ControlFiles(run.seq) \cup Images(Item, run.seq))
              /\ record' = [record EXCEPT ![Item] = [status |-> "withheld", seq |-> 0]]
            BY <1>t, <2>4 DEF RecheckWithheld, SkipWithheld, RecordWithheld, RunType, NumberInv, CursorOK, PlaceOK
        <3>2. Known(Item) \subseteq {cp.next}
            BY <2>0, <3>1 DEF NumberInv, NumbersOK
        <3>3. \A i \in Items : /\ i # Item => record'[i] = record[i]
                               /\ record'[i].status = "skipped" => record[i].status = "skipped"
            BY <1>t, <3>1 DEF ProduceTypeOK
        <3>4. ASSUME NEW f \in files' PROVE Reachable(f)'
            <4>0. f \in files /\ f.item \in Items /\ Reachable(f) /\ f.seq # 0
                BY <3>1 DEF FilesOK
            <4>1. f \notin ControlFiles(run.seq) /\ f \notin Images(Item, run.seq)
                BY <3>1
            <4>2. f \notin Artifacts(Item, run.seq)
                BY <2>0, <3>1, <4>0, <4>1, ProduceAssumptions DEF Artifacts, ControlFiles
            <4>3. CASE f.ext = "tif" \/ f.item # Item
                BY <2>0, <3>3, <4>0, <4>2, <4>3 DEF Reachable, Numbers, Span
            <4>4. CASE f.ext # "tif" /\ f.item = Item
                <5>1. f.seq = record[Item].seq
                    BY <4>0, <4>2, <4>4 DEF Reachable
                <5>2. f.seq = run.seq
                    BY <3>1, <3>2, <4>0, <5>1 DEF Known
                <5> QED BY <4>0, <4>1, <4>4, <5>2 DEF ControlFiles
            <4> QED BY <4>3, <4>4
        <3> QED BY <2>0, <3>1, <3>3, <3>4 DEF FilesOK, NoFiles
    <2> QED BY <1>6, <2>1, <2>2, <2>3, <2>4 DEF Passing
<1>7. CASE Produce
    <2>l. Due /\ Working /\ Item \notin withheld /\ run.pc = "loop" /\ Item \in Items
        BY <1>0, <1>7, ItemFacts DEF Produce, Packaging, Due, Working
    <2>1. Assigned = cp.next /\ cp.next \in Nat /\ cp.next # 0
        BY <1>t, <2>l, Lone DEF Cursors, NumberInv, NumbersOK
    <2>2. /\ run'.pc = "written" /\ run'.seq = cp.next /\ cur' = Numbered /\ UNCHANGED <<record, pageRows>>
          /\ files' = Overwrite(FreshFiles, Artifacts(Item, cp.next)) /\ "ok" \in Outcomes[Item]
        BY <1>t, <1>7, <2>1 DEF Produce, cur, RunType
    <2>3. Item' = Item
        BY <1>0, <2>l, <2>2, AssignedType DEF Item
    <2>4. \A f \in files' : f \in files \/ f \in Artifacts(Item, cp.next)
        BY <2>2 DEF Overwrite, FreshFiles
    <2>5. ASSUME NEW f \in files' PROVE f.item \in Items /\ f.seq \in Nat \ {0} /\ Reachable(f)'
        <3>1. CASE f \in files
            <4>1. f.item \in Items /\ f.seq \in Nat \ {0} /\ Reachable(f)
                BY <3>1 DEF FilesOK
            <4> QED BY <2>l, <2>2, <4>1 DEF Reachable, Numbers, Span
        <3>2. CASE f \in Artifacts(Item, cp.next)
            <4>1. f.item = Item /\ f.seq \in Nat /\ f.seq # 0
                BY <2>l, <2>1, <3>2, ArtifactFacts
            <4>2. Reachable(f)'
                BY <2>2, <2>3, <3>2, <4>1 DEF Reachable, Artifacts, Images
            <4> QED BY <2>l, <4>1, <4>2
        <3> QED BY <2>4, <3>1, <3>2
    <2>6. "missing" \notin Outcomes[Item]
        BY <2>l, <2>2 DEF ReadsAreStable
    <2>7. \A f \in Artifacts(Item, cp.next) : f.item = Item
        BY <2>l, <2>1, ArtifactFacts
    <2>8. \A i \in Items : /\ "missing" \in Outcomes[i] => NoFiles(i)'
                           /\ record'[i].status = "skipped" => "skipped" \in Outcomes[i]
        BY <2>2, <2>4, <2>6, <2>7 DEF FilesOK, NoFiles
    <2> QED BY <2>2, <2>5, <2>8 DEF FilesOK
<1>8. CASE (\E i \in Items : Hold(i) \/ Release(i)) \/ UNCHANGED produceVars
    <2>1. UNCHANGED <<record, pageRows, files, run>> /\ cur' = cur /\ Item' = Item
        BY <1>8 DEF Hold, Release, produceVars, cur, Item
    <2>2. \A f \in files : Reachable(f) => Reachable(f)'
        BY <2>1 DEF Reachable, Numbers, Span, Artifacts, Images
    <2> QED BY <2>1, <2>2 DEF FilesOK, NoFiles
<1> QED BY <1>1, <1>2, <1>3, <1>4, <1>5, <1>6, <1>7, <1>8, Steps, NeverRefused

(* The final sweep is not under way. *)
LEMMA HeldElsewhere ==
    ASSUME cur'.phase \notin {"finalize", "done"}, run'.pc \notin {"load", "check"}
    PROVE  HeldOK'
BY DEF HeldOK

LEMMA HeldNext ==
    ASSUME NumberInv, FilesOK, HeldOK, [ProduceNext]_produceVars
    PROVE  HeldOK'
<1>0. ControlInv
    BY DEF NumberInv, ControlInv
<1>t. /\ ProduceTypeOK /\ run \in RunType /\ cur \in Cursors /\ cp \in Cursors /\ held \subseteq Items
    BY DEF NumberInv, ProduceTypeOK, RunType, cur
<1>1. CASE Begins
    <2>1. /\ cur' = cp' /\ withheld' = withheld /\ run'.pc \in {"select", "setup", "sweep"} /\ cp'.phase # "done"
          /\ cp'.phase = "finalize" => held' = withheld /\ run'.at = 1
        BY <1>0, <1>1, BeginsFacts DEF Begins, Begin, Run, Rerun, Begun, Select, Setup, ControlInv, PlaceOK
    <2>2. \A i \in withheld : ~(i < 1)
        BY <1>t DEF ProduceTypeOK, Items
    <2> QED BY <2>1, <2>2 DEF HeldOK
<1>2. CASE Ends
    <2>1. run'.pc = "stopped" /\ cur'.phase = "select"
        BY <1>2, EndsFacts DEF FreshCursor
    <2> QED BY <2>1, HeldElsewhere
<1>3. CASE Strolls
    <2>0. cur' = cur /\ UNCHANGED <<held, withheld, rows>> /\ cur.phase # "done"
        BY <1>0, <1>3, StrollsFacts DEF Strolls, SweepPass, SweepPurge, SweepEnd, Gate, Persist, WriteLoad, ControlInv, PlaceOK
    <2>1. CASE SweepPass
        <3>1. run.pc = "sweep" /\ run'.pc = "sweep" /\ run'.at = run.at + 1 /\ run.at \notin withheld /\ files' = files
              /\ run.at \in Nat
            BY <1>0, <1>t, <1>3, <2>1, StrollsFacts DEF SweepPass, RunType
        <3>2. \A i \in Items : i < run.at + 1 <=> i < run.at \/ i = run.at
            BY <3>1 DEF Items
        <3> QED BY <1>t, <2>0, <3>1, <3>2 DEF HeldOK, NoFiles
    <2>2. CASE SweepPurge
        <3>1. run.pc = "sweep" /\ run'.pc = "sweepPurged" /\ run'.at = run.at /\ files' \subseteq files
            BY <1>0, <1>3, <2>2, StrollsFacts DEF SweepPurge, Purge, Sweeping, SweepPass
        <3> QED BY <2>0, <3>1 DEF HeldOK, NoFiles
    <2>3. CASE SweepEnd
        <3>1. /\ run.pc = "sweep" /\ run'.pc = (IF cur.phase = "work" THEN "loop" ELSE "load") /\ files' = files
              /\ run.at > N /\ run.at \in Nat /\ cur.phase \in {"work", "finalize"}
            BY <1>0, <1>t, <1>3, <2>3, StrollsFacts DEF SweepEnd, RunType, ControlInv, PlaceOK
        <3>2. \A i \in Items : i < run.at
            BY <3>1, ProduceAssumptions DEF Items
        <3> QED BY <1>t, <2>0, <3>1, <3>2 DEF HeldOK, NoFiles
    <2>4. CASE Gate \/ Persist
        <3>1. cur.phase = "work" /\ run'.pc \in {"gatePurged", "persisted"}
            BY <1>0, <1>3, <2>4, StrollsFacts DEF ControlInv, PlaceOK
        <3> QED BY <2>0, <3>1, HeldElsewhere
    <2>5. CASE WriteLoad
        <3>1. run.pc = "load" /\ run'.pc = "check" /\ files' = files /\ load' = rows
            BY <1>0, <1>3, <2>5, StrollsFacts DEF WriteLoad
        <3> QED BY <2>0, <3>1 DEF HeldOK, NoFiles
    <2> QED BY <1>3, <2>1, <2>2, <2>3, <2>4, <2>5 DEF Strolls
<1>4. CASE Saves
    <2>0. UNCHANGED <<files, load, withheld>>
        BY <1>0, <1>4, SavesFacts
    <2>1. CASE Pause
        BY <1>0, <1>4, <2>1, SavesFacts, HeldElsewhere DEF FreshCursor
    <2>2. CASE SkipDone
        <3>1. cur'.phase = "work" /\ run'.pc = "loop"
            BY <1>0, <1>4, <2>2, SavesFacts DEF ControlInv, PlaceOK
        <3> QED BY <3>1, HeldElsewhere
    <2>3. CASE FinishWork
        <3>1. run'.pc = "sweep" /\ run'.at = 1 /\ cur'.phase = "finalize" /\ held' = withheld
            BY <1>0, <1>4, <2>3, SavesFacts
        <3>2. \A i \in withheld : ~(i < 1)
            BY <1>t DEF ProduceTypeOK, Items
        <3> QED BY <2>0, <3>1, <3>2 DEF HeldOK
    <2>4. CASE Complete
        <3>1. run.pc = "check" /\ run'.pc = "save" /\ rows' = rows /\ cur'.phase = "done" /\ held' = held
            BY <1>0, <1>4, <2>4, SavesFacts DEF Complete
        <3> QED BY <2>0, <3>1 DEF HeldOK, NoFiles
    <2>5. CASE Save
        <3>1. /\ run.pc = "save" /\ cur' = cur /\ held' = held /\ run'.pc \in {"ended", "loop"}
              /\ \A i \in Items : rows'[i] \in {0, rows[i]}
            BY <1>0, <1>4, <2>5, SavesFacts DEF Save
        <3>2. cur.phase # "finalize"
            BY <1>0, <3>1 DEF ControlInv, PlaceOK
        <3> QED BY <1>t, <2>0, <3>1, <3>2 DEF HeldOK, NoFiles
    <2> QED BY <1>4, <2>1, <2>2, <2>3, <2>4, <2>5 DEF Saves
<1>5. CASE Passing
    BY <1>0, <1>5, PassingFacts, HeldElsewhere
<1>6. CASE SweepRecord
    <2>1. /\ run.pc = "sweepPurged" /\ run'.pc = "sweep" /\ run'.at = run.at + 1 /\ run.at \in Items
          /\ UNCHANGED <<files, held, withheld>> /\ cur'.phase = cur.phase /\ cur.phase # "done"
          /\ rows' = [rows EXCEPT ![run.at] = 0]
        BY <1>0, <1>t, <1>6 DEF SweepRecord, cur, RunType, Cursors, ControlInv, PlaceOK
    <2>2. NoFiles(run.at)
        BY <2>1 DEF FilesOK
    <2>3. \A i \in Items : /\ i < run.at + 1 <=> i < run.at \/ i = run.at
                           /\ rows'[i] \in {0, rows[i]} /\ rows'[run.at] = 0
        BY <1>t, <2>1 DEF Items, ProduceTypeOK
    <2>4. \A i \in held : i < run.at + 1 /\ cur.phase = "finalize" => rows'[i] = 0 /\ NoFiles(i)
        BY <1>t, <2>1, <2>2, <2>3 DEF HeldOK
    <2> QED BY <2>1, <2>4 DEF HeldOK, NoFiles
<1>7. CASE Produce
    <2>1. Working /\ run'.pc = "written" /\ cur' = Numbered
        BY <1>t, <1>7 DEF Produce, Packaging, Due, cur, RunType
    <2>2. cur'.phase = "work"
        BY <1>0, <2>1, AssignedType DEF ControlInv, PlaceOK, Working
    <2> QED BY <2>1, <2>2, HeldElsewhere
<1>8. CASE (\E i \in Items : Hold(i) \/ Release(i)) \/ UNCHANGED produceVars
    <2>1. /\ UNCHANGED <<rows, files, run, load>> /\ cur' = cur /\ held' \subseteq held
          /\ held \subseteq withheld => held' \subseteq withheld'
        BY <1>8 DEF Hold, Release, produceVars, cur
    <2> QED BY <2>1 DEF HeldOK, NoFiles
<1> QED BY <1>1, <1>2, <1>3, <1>4, <1>5, <1>6, <1>7, <1>8, Steps, NeverRefused

LEMMA WithheldInit == ASSUME ProduceInit PROVE FilesOK /\ HeldOK
<1>1. run.pc = "select" /\ cur.phase = "select"
    BY DEF ProduceInit, Begun, FreshCursor, cur
<1>2. files = {} /\ \A i \in Items : record[i].status = "none"
    BY DEF ProduceInit, NoRecord
<1> QED BY <1>1, <1>2 DEF FilesOK, HeldOK, NoFiles

LEMMA WithheldGone == ASSUME NumberInv, HeldOK PROVE NoWithheldBytes
<1>1. Ended => cur.phase = "done"
    BY DEF Ended, NumberInv, PlaceOK
<1> QED BY <1>1 DEF NoWithheldBytes, HeldOK, NoFiles

(* Whatever was packaged, recorded or half recorded for an item before, and    *)
(* through every pause, failure and resume: an item that is on hold from the   *)
(* last sweep to the end of the production leaves no line in the load file and *)
(* no file in the volume, as long as no hold is lifted that a run had acted on *)
(* and died.  The sweep finds what it has to purge only through the database;  *)
(* so every file must be recorded, which the proof carries as an invariant and *)
(* which fails if the program dies between the two.                            *)
THEOREM NoWithheldBytesTheorem ==
    ASSUME ReadsAreStable, FilesAreRecorded
    PROVE  ProduceSpec => []NoWithheldBytes
<1> DEFINE Inv == ~reopened => NumberInv /\ ReadOK /\ FilesOK /\ HeldOK
<1>1. ProduceInit => Inv
    BY NumberInit, VolumeInit, WithheldInit
<1>2. Inv /\ [ProduceNext]_produceVars => Inv'
    BY NumberNext, ReadNext, FilesNext, HeldNext, UndoneNext
<1>3. Inv => NoWithheldBytes
    BY WithheldGone DEF NoWithheldBytes
<1> QED BY <1>1, <1>2, <1>3, PTL DEF ProduceSpec
============================================================================

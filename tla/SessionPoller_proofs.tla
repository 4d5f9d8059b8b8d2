------------------------- MODULE SessionPoller_proofs -------------------------
(* What holds of the poller and of what the orchestrator is told, for every  *)
(* setting, every choice of hands and every bound.                           *)
EXTENDS SessionPoller, TLAPS

Pcs == {"idle", "sync", "list", "pids", "sweep", "decide", "retire", "remove", "usage",
        "find", "fetch", "tell", "stamp"}

(* A snapshot is written back whole, so what is true of the row has to be    *)
(* true of the snapshot in the poller's hands as well.                       *)
SnapOK == poll.snap.term # "no" => Ended(poll.snap)

(* Only a relaunch moves a session or its worker to another incarnation.     *)
OneIncarnation ==
    "relaunch" \notin used => row.inc = 0 /\ poll.snap.inc = 0 /\ worker.inc = 0

(* The row goes by the poller's own removal: what is in its snapshot is there. *)
SnapHere ==
    /\ poll.snap.here => row.here
    /\ poll.pc \in {"retire", "remove"} => poll.snap.here

(* A Done, in the row or in the snapshot, comes after the notice.            *)
DoneAfterNotice ==
    /\ row.status = "done" => told.merged > 0
    /\ poll.snap.status = "done" => told.merged > 0
    /\ poll.pc = "stamp" => told.merged > 0

(* A retirement notice is due for a row whose merge was never handled.       *)
RetireDue == poll.pc = "retire" => ~MergeHandled(poll.snap)

(* While nobody interferes, the merge notice is followed by its stamp or by   *)
(* the stamp's failure: a notice too many to be put down to failures was      *)
(* stamped, and no snapshot taken before the stamp outlives it.              *)
StampFollows ==
    Undisturbed =>
        /\ row.here => worker.state # "released"
        /\ poll.pc \in {"find", "fetch", "tell"} => told.merged <= told.nostamp
        /\ told.merged > told.nostamp /\ poll.pc # "stamp" =>
               /\ row.here => MergeHandled(row)
               /\ poll.snap.here => MergeHandled(poll.snap)

(* The retirement notice is followed by the removal that ends the row, or by  *)
(* that removal's failure.                                                   *)
RemovalFollows ==
    used \intersect {"relaunch", "crash"} = {} /\ worker.state # "claimed" =>
        (told.retired > told.noremove => poll.pc = "remove" \/ ~row.here)

IInv ==
    /\ TypeOK /\ SnapOK /\ OneIncarnation /\ SnapHere /\ DoneAfterNotice
    /\ RetireDue /\ StampFollows /\ RemovalFollows
    /\ MergeToldOnceUndisturbed /\ RetiredToldOnceUndisturbed

LEMMA NoRowType == NoRow \in Rows /\ NoRow.term = "no"
  BY DEF NoRow, Rows, Ages

(* A tick of the poller takes its snapshot: not between a notice and what    *)
(* follows it, and the GitHub pass of an unhandled row only.                 *)
LEMMA LookKeeps ==
    ASSUME IInv, UNCHANGED <<row, worker, alive, pr, hand, told, used>>,
           NEW pc \in {"sync", "pids", "decide", "usage", "find", "fetch"}, Look(pc),
           poll.pc \notin {"stamp", "remove"},
           pc \in {"find", "fetch"} => row.here /\ ~MergeHandled(row)
    PROVE  IInv'
  <1>1. TypeOK' /\ SnapOK'
    BY DEF IInv, TypeOK, SnapOK, Ended, Look
  <1>2. OneIncarnation' /\ SnapHere'
    BY DEF IInv, TypeOK, Rows, OneIncarnation, SnapHere, Look
  <1>3. DoneAfterNotice' /\ RetireDue'
    BY DEF IInv, TypeOK, Rows, SnapHere, DoneAfterNotice, RetireDue, MergeHandled, Ended, Look
  <1>4. StampFollows' /\ MergeToldOnceUndisturbed'
    BY DEF IInv, TypeOK, Rows, Ages, OneIncarnation, SnapHere, StampFollows, MergeToldOnceUndisturbed,
           Undisturbed, MergeHandled, Ended, Look
  <1>5. RemovalFollows' /\ RetiredToldOnceUndisturbed'
    BY DEF IInv, TypeOK, Rows, OneIncarnation, SnapHere, RemovalFollows,
           RetiredToldOnceUndisturbed, Look
  <1>. QED  BY <1>1, <1>2, <1>3, <1>4, <1>5 DEF IInv

LEMMA TicksKeep ==
    ASSUME IInv, PidTick \/ ListPids \/ ListRetired \/ UsageTick \/ GithubTick PROVE IInv'
  <1>1. CASE PidTick
    BY <1>1, LookKeeps DEF PidTick
  <1>2. CASE ListPids
    BY <1>2, LookKeeps DEF ListPids
  <1>3. CASE ListRetired
    BY <1>3, LookKeeps DEF ListRetired
  <1>4. CASE UsageTick
    BY <1>4, LookKeeps DEF UsageTick
  <1>5. CASE GithubTick
    <2>. DEFINE pc == IF row.pr THEN "fetch" ELSE "find"
    <2>1. pc \in {"find", "fetch"} /\ Look(pc)
      BY <1>5 DEF GithubTick
    <2>. HIDE DEF pc
    <2>. QED  BY <2>1, <1>5, LookKeeps DEF GithubTick
  <1>. QED  BY <1>1, <1>2, <1>3, <1>4, <1>5

(* The reported PR is adopted without a status that an ended row would lose. *)
LEMMA AdoptReportedKeeps == ASSUME IInv, AdoptReported PROVE IInv'
  <1>1. (row \in Rows /\ (row.term # "no" => Ended(row)))'
    BY DEF IInv, TypeOK, SnapOK, Rows, Ages, Ended, AdoptReported, UpdateLive, NoRow
  <1>2. (poll.snap \in Rows)' /\ SnapOK'
    BY DEF IInv, TypeOK, SnapOK, Rows, Ages, Ended, AdoptReported, UpdateLive, NoRow
  <1>3. TypeOK'
    BY <1>1, <1>2, ConstantsAssumption DEF IInv, TypeOK, AdoptReported, UpdateLive, NoRow
  <1>4. OneIncarnation' /\ SnapHere'
    BY DEF IInv, TypeOK, Rows, OneIncarnation, SnapHere, AdoptReported, UpdateLive, NoRow
  <1>5. DoneAfterNotice' /\ RetireDue'
    BY DEF IInv, TypeOK, Rows, SnapHere, DoneAfterNotice, RetireDue, MergeHandled, Ended,
           AdoptReported, UpdateLive, NoRow
  <1>6. StampFollows' /\ MergeToldOnceUndisturbed'
    BY DEF IInv, TypeOK, Rows, Ages, OneIncarnation, SnapHere, StampFollows, MergeToldOnceUndisturbed,
           Undisturbed, MergeHandled, Ended, AdoptReported, UpdateLive, NoRow
  <1>7. RemovalFollows' /\ RetiredToldOnceUndisturbed'
    BY DEF IInv, TypeOK, Rows, OneIncarnation, SnapHere, RemovalFollows,
           RetiredToldOnceUndisturbed, AdoptReported, UpdateLive, NoRow
  <1>. QED  BY <1>1, <1>2, <1>3, <1>4, <1>5, <1>6, <1>7 DEF IInv

(* The dead worker's snapshot goes back whole: it was live, so a merge it has *)
(* heard of stays on it as its stamp.                                        *)
LEMMA ReapDeadKeeps == ASSUME IInv, ReapDead PROVE IInv'
  <1>1. (row \in Rows /\ (row.term # "no" => Ended(row)))'
    BY DEF IInv, TypeOK, SnapOK, Rows, Ages, Ended, ReapDead, NoRow
  <1>2. (poll.snap \in Rows)' /\ SnapOK'
    BY DEF IInv, TypeOK, SnapOK, Rows, Ages, Ended, ReapDead, NoRow
  <1>3. TypeOK'
    BY <1>1, <1>2, ConstantsAssumption DEF IInv, TypeOK, ReapDead, NoRow
  <1>4. OneIncarnation' /\ SnapHere'
    BY DEF IInv, TypeOK, Rows, OneIncarnation, SnapHere, ReapDead, NoRow
  <1>5. DoneAfterNotice' /\ RetireDue'
    BY DEF IInv, TypeOK, Rows, SnapHere, DoneAfterNotice, RetireDue, MergeHandled, Ended, ReapDead,
           NoRow
  <1>6. StampFollows' /\ MergeToldOnceUndisturbed'
    BY DEF IInv, TypeOK, Rows, Ages, OneIncarnation, SnapHere, StampFollows, MergeToldOnceUndisturbed,
           Undisturbed, MergeHandled, Ended, ReapDead, NoRow
  <1>7. RemovalFollows' /\ RetiredToldOnceUndisturbed'
    BY DEF IInv, TypeOK, Rows, OneIncarnation, SnapHere, RemovalFollows,
           RetiredToldOnceUndisturbed, ReapDead, NoRow
  <1>. QED  BY <1>1, <1>2, <1>3, <1>4, <1>5, <1>6, <1>7 DEF IInv

(* The sweep's decision: a notice only for a row no merge was seen of.       *)
LEMMA SweepKeeps == ASSUME IInv, Sweep PROVE IInv'
  <1>1. TypeOK' /\ SnapOK'
    BY NoRowType, ConstantsAssumption DEF IInv, TypeOK, SnapOK, Ended, Sweep, Swept, Told, Goto, Rest
  <1>2. OneIncarnation' /\ SnapHere'
    BY DEF IInv, TypeOK, Rows, OneIncarnation, SnapHere, Sweep, Swept, Told, Goto, Rest, NoRow
  <1>3. DoneAfterNotice' /\ RetireDue'
    BY DEF IInv, TypeOK, Rows, SnapHere, DoneAfterNotice, RetireDue, MergeHandled, Ended, Sweep,
           Swept, Told, Goto, Rest, NoRow
  <1>4. StampFollows' /\ MergeToldOnceUndisturbed'
    BY DEF IInv, TypeOK, Rows, Ages, OneIncarnation, SnapHere, StampFollows, MergeToldOnceUndisturbed,
           Undisturbed, MergeHandled, Ended, Sweep, Swept, Told, Goto, Rest, NoRow
  <1>5. RemovalFollows' /\ RetiredToldOnceUndisturbed'
    BY DEF IInv, TypeOK, Rows, OneIncarnation, SnapHere, RemovalFollows,
           RetiredToldOnceUndisturbed, Sweep, Swept, Told, Goto, Rest, NoRow
  <1>. QED  BY <1>1, <1>2, <1>3, <1>4, <1>5 DEF IInv

(* The retirement notice: nothing was told of the merge before.              *)
LEMMA SendRetiredKeeps == ASSUME IInv, SendRetired PROVE IInv'
  <1>1. TypeOK' /\ SnapOK'
    BY ConstantsAssumption DEF IInv, TypeOK, SnapOK, Ended, SendRetired, Count, Goto
  <1>2. OneIncarnation' /\ SnapHere'
    BY DEF IInv, TypeOK, Rows, OneIncarnation, SnapHere, SendRetired, Count, Goto
  <1>3. DoneAfterNotice' /\ RetireDue'
    BY DEF IInv, TypeOK, Rows, SnapHere, DoneAfterNotice, RetireDue, MergeHandled, Ended,
           SendRetired, Count, Goto
  <1>4. StampFollows' /\ MergeToldOnceUndisturbed'
    BY DEF IInv, TypeOK, Rows, Ages, OneIncarnation, SnapHere, StampFollows, MergeToldOnceUndisturbed,
           Undisturbed, MergeHandled, Ended, SendRetired, Count, Goto
  <1>5. RemovalFollows' /\ RetiredToldOnceUndisturbed'
    BY DEF IInv, TypeOK, Rows, OneIncarnation, SnapHere, RemovalFollows,
           RetiredToldOnceUndisturbed, SendRetired, Count, Goto
  <1>. QED  BY <1>1, <1>2, <1>3, <1>4, <1>5 DEF IInv

(* The removal: in an undisturbed run the row is there and goes.             *)
LEMMA RemoveSessionKeeps == ASSUME IInv, RemoveSession PROVE IInv'
  <1>1. (row \in Rows /\ (row.term # "no" => Ended(row)))'
    <2>1. CASE row.here /\ worker.inc = row.inc /\ worker.state # "claimed"
      <3>1. row' = [row EXCEPT !.here = FALSE]
        BY <2>1 DEF RemoveSession
      <3>. QED  BY <3>1, Zenon DEF IInv, TypeOK, Rows, Ages, Ended
    <2>2. CASE ~(row.here /\ worker.inc = row.inc /\ worker.state # "claimed")
      BY <2>2 DEF IInv, TypeOK, Ended, RemoveSession
    <2>. QED  BY <2>1, <2>2
  <1>2. (poll.snap \in Rows)' /\ SnapOK'
    BY DEF IInv, TypeOK, SnapOK, Rows, Ages, Ended, RemoveSession, Rest, NoRow
  <1>3. TypeOK'
    BY <1>1, <1>2, ConstantsAssumption, ZenonT(30) DEF IInv, TypeOK, RemoveSession, Rest, NoRow
  <1>4. OneIncarnation' /\ SnapHere'
    BY DEF IInv, TypeOK, Rows, OneIncarnation, SnapHere, RemoveSession, Rest, NoRow
  <1>5. DoneAfterNotice' /\ RetireDue'
    BY DEF IInv, TypeOK, Rows, SnapHere, DoneAfterNotice, RetireDue, MergeHandled, Ended,
           RemoveSession, Rest, NoRow
  <1>6. StampFollows' /\ MergeToldOnceUndisturbed'
    BY ZenonT(30) DEF IInv, TypeOK, Rows, Ages, OneIncarnation, SnapHere, StampFollows, MergeToldOnceUndisturbed,
           Undisturbed, MergeHandled, Ended, RemoveSession, Rest, NoRow
  <1>7. RemovalFollows' /\ RetiredToldOnceUndisturbed'
    BY DEF IInv, TypeOK, Rows, OneIncarnation, SnapHere, RemovalFollows,
           RetiredToldOnceUndisturbed, RemoveSession, Rest, NoRow
  <1>. QED  BY <1>1, <1>2, <1>3, <1>4, <1>5, <1>6, <1>7 DEF IInv

(* The removal that fails: the notice it followed is counted against it.     *)
LEMMA RemoveFailsKeeps == ASSUME IInv, RemoveFails PROVE IInv'
  <1>1. /\ UNCHANGED <<row, pr, hand>> /\ used' = used \union {"noremove"} /\ "noremove" \in Hands
        /\ poll' = [pc |-> "idle", snap |-> NoRow]
        /\ told' = [told EXCEPT !.noremove = Count(@)]
    BY DEF RemoveFails, Fails, Rest
  <1>2. /\ worker' \in {worker, [worker EXCEPT !.state = "claimed"]}
        /\ alive' \in {alive, FALSE}
    BY Zenon DEF RemoveFails
  <1>3. TypeOK' /\ SnapOK'
    <2>1. (worker \in [state : {"active", "retained", "claimed", "released"}, inc : 0..1])'
      BY <1>2, ZenonT(30) DEF IInv, TypeOK
    <2>2. alive' \in BOOLEAN
      BY <1>2 DEF IInv, TypeOK
    <2>3. (told \in [merged : 0..MaxTold, retired : 0..MaxTold, nostamp : 0..MaxTold, noremove : 0..MaxTold])'
      BY <1>1, ConstantsAssumption DEF IInv, TypeOK, Count
    <2>4. (poll.snap \in Rows)' /\ SnapOK'
      BY <1>1, NoRowType DEF SnapOK
    <2>. QED  BY <1>1, <2>1, <2>2, <2>3, <2>4 DEF IInv, TypeOK, Ended
  <1>4. worker'.inc = worker.inc /\ worker'.state \in {worker.state, "claimed"}
    BY <1>2 DEF IInv, TypeOK
  <1>5. OneIncarnation' /\ SnapHere'
    BY <1>1, <1>4 DEF IInv, OneIncarnation, SnapHere, NoRow
  <1>6. told'.merged = told.merged /\ told'.retired = told.retired /\ told'.nostamp = told.nostamp
    BY <1>1 DEF IInv, TypeOK
  <1>7. DoneAfterNotice' /\ RetireDue'
    BY <1>1, <1>6 DEF IInv, DoneAfterNotice, RetireDue, NoRow
  <1>8. StampFollows' /\ MergeToldOnceUndisturbed'
    BY <1>1, <1>4, <1>6 DEF IInv, StampFollows, MergeToldOnceUndisturbed, Undisturbed, MergeHandled,
       NoRow, RemoveFails
  <1>9. RemovalFollows' /\ RetiredToldOnceUndisturbed'
    <2>. SUFFICES ASSUME used \intersect {"relaunch", "crash"} = {}, worker.state # "claimed"
                  PROVE  told'.retired <= told'.noremove
      BY <1>1, <1>4, ConstantsAssumption DEF RemovalFollows, RetiredToldOnceUndisturbed, IInv, TypeOK, Count
    <2>1. told.retired <= 1 + told.noremove
      BY DEF IInv, RetiredToldOnceUndisturbed
    <2>. QED  BY <1>1, <1>6, <2>1, ConstantsAssumption DEF IInv, TypeOK, Count
  <1>. QED  BY <1>3, <1>5, <1>7, <1>8, <1>9 DEF IInv

(* The usage tick writes its snapshot back, handled merge and all.           *)
LEMMA WriteUsageKeeps == ASSUME IInv, WriteUsage PROVE IInv'
  <1>1. (row \in Rows /\ (row.term # "no" => Ended(row)))'
    BY DEF IInv, TypeOK, SnapOK, Rows, Ages, Ended, WriteUsage, Rest, NoRow
  <1>2. (poll.snap \in Rows)' /\ SnapOK'
    BY DEF IInv, TypeOK, SnapOK, Rows, Ages, Ended, WriteUsage, Rest, NoRow
  <1>3. TypeOK'
    BY <1>1, <1>2, ConstantsAssumption DEF IInv, TypeOK, WriteUsage, Rest, NoRow
  <1>4. OneIncarnation' /\ SnapHere'
    BY DEF IInv, TypeOK, Rows, OneIncarnation, SnapHere, WriteUsage, Rest, NoRow
  <1>5. DoneAfterNotice' /\ RetireDue'
    BY DEF IInv, TypeOK, Rows, SnapHere, DoneAfterNotice, RetireDue, MergeHandled, Ended,
           WriteUsage, Rest, NoRow
  <1>6. StampFollows' /\ MergeToldOnceUndisturbed'
    BY DEF IInv, TypeOK, Rows, Ages, OneIncarnation, SnapHere, StampFollows, MergeToldOnceUndisturbed,
           Undisturbed, MergeHandled, Ended, WriteUsage, Rest, NoRow
  <1>7. RemovalFollows' /\ RetiredToldOnceUndisturbed'
    BY DEF IInv, TypeOK, Rows, OneIncarnation, SnapHere, RemovalFollows,
           RetiredToldOnceUndisturbed, WriteUsage, Rest, NoRow
  <1>. QED  BY <1>1, <1>2, <1>3, <1>4, <1>5, <1>6, <1>7 DEF IInv

(* The PR found by its branch: no merge was told of yet.                     *)
LEMMA FindPrKeeps == ASSUME IInv, FindPr PROVE IInv'
  <1>1. (row \in Rows /\ (row.term # "no" => Ended(row)))'
    BY DEF IInv, TypeOK, SnapOK, Rows, Ages, Ended, FindPr, UpdateLive, Rest, NoRow
  <1>2. (poll.snap \in Rows)' /\ SnapOK'
    BY DEF IInv, TypeOK, SnapOK, Rows, Ages, Ended, FindPr, UpdateLive, Rest, NoRow
  <1>3. TypeOK'
    BY <1>1, <1>2, ConstantsAssumption DEF IInv, TypeOK, FindPr, UpdateLive, Rest, NoRow
  <1>4. OneIncarnation' /\ SnapHere'
    BY DEF IInv, TypeOK, Rows, OneIncarnation, SnapHere, FindPr, UpdateLive, Rest, NoRow
  <1>5. DoneAfterNotice' /\ RetireDue'
    BY DEF IInv, TypeOK, Rows, SnapHere, DoneAfterNotice, RetireDue, MergeHandled, Ended, FindPr,
           UpdateLive, Rest, NoRow
  <1>6. StampFollows' /\ MergeToldOnceUndisturbed'
    BY DEF IInv, TypeOK, Rows, Ages, OneIncarnation, SnapHere, StampFollows, MergeToldOnceUndisturbed,
           Undisturbed, MergeHandled, Ended, FindPr, UpdateLive, Rest, NoRow
  <1>7. RemovalFollows' /\ RetiredToldOnceUndisturbed'
    BY DEF IInv, TypeOK, Rows, OneIncarnation, SnapHere, RemovalFollows,
           RetiredToldOnceUndisturbed, FindPr, UpdateLive, Rest, NoRow
  <1>. QED  BY <1>1, <1>2, <1>3, <1>4, <1>5, <1>6, <1>7 DEF IInv

(* The PR's state arrives: the notice is due, or the tick is over.           *)
LEMMA FetchPrKeeps == ASSUME IInv, FetchPr PROVE IInv'
  <1>1. TypeOK' /\ SnapOK'
    BY NoRowType, ConstantsAssumption DEF IInv, TypeOK, SnapOK, Ended, FetchPr, Goto, Rest
  <1>2. OneIncarnation' /\ SnapHere'
    BY DEF IInv, TypeOK, Rows, OneIncarnation, SnapHere, FetchPr, Goto, Rest, NoRow
  <1>3. DoneAfterNotice' /\ RetireDue'
    BY DEF IInv, TypeOK, Rows, SnapHere, DoneAfterNotice, RetireDue, MergeHandled, Ended, FetchPr,
           Goto, Rest, NoRow
  <1>4. StampFollows' /\ MergeToldOnceUndisturbed'
    BY DEF IInv, TypeOK, Rows, Ages, OneIncarnation, SnapHere, StampFollows, MergeToldOnceUndisturbed,
           Undisturbed, MergeHandled, Ended, FetchPr, Goto, Rest, NoRow
  <1>5. RemovalFollows' /\ RetiredToldOnceUndisturbed'
    BY DEF IInv, TypeOK, Rows, OneIncarnation, SnapHere, RemovalFollows,
           RetiredToldOnceUndisturbed, FetchPr, Goto, Rest, NoRow
  <1>. QED  BY <1>1, <1>2, <1>3, <1>4, <1>5 DEF IInv

(* The merge notice: the first one, in an undisturbed run.                   *)
LEMMA TellMergedKeeps == ASSUME IInv, TellMerged PROVE IInv'
  <1>1. TypeOK' /\ SnapOK'
    BY ConstantsAssumption DEF IInv, TypeOK, SnapOK, Ended, TellMerged, Count, Goto
  <1>2. OneIncarnation' /\ SnapHere'
    BY DEF IInv, TypeOK, Rows, OneIncarnation, SnapHere, TellMerged, Count, Goto
  <1>3. DoneAfterNotice' /\ RetireDue'
    BY ConstantsAssumption DEF IInv, TypeOK, Rows, SnapHere, DoneAfterNotice, RetireDue,
           MergeHandled, Ended, TellMerged, Count, Goto
  <1>4. StampFollows' /\ MergeToldOnceUndisturbed'
    BY DEF IInv, TypeOK, Rows, Ages, OneIncarnation, SnapHere, StampFollows, MergeToldOnceUndisturbed,
           Undisturbed, MergeHandled, Ended, TellMerged, Count, Goto
  <1>5. RemovalFollows' /\ RetiredToldOnceUndisturbed'
    BY DEF IInv, TypeOK, Rows, OneIncarnation, SnapHere, RemovalFollows,
           RetiredToldOnceUndisturbed, TellMerged, Count, Goto
  <1>. QED  BY <1>1, <1>2, <1>3, <1>4, <1>5 DEF IInv

(* The stamp that fails: the notice it was to follow is counted against it.  *)
LEMMA StampFailsKeeps == ASSUME IInv, StampFails PROVE IInv'
  <1>1. /\ UNCHANGED <<pr, hand>> /\ used' = used \union {"nostamp"} /\ "nostamp" \in Hands
        /\ poll' = [pc |-> "idle", snap |-> NoRow]
        /\ told' = [told EXCEPT !.nostamp = Count(@)]
    BY DEF StampFails, Fails, Rest
  <1>2. /\ row' \in {row, AsDone(row)}
        /\ worker' \in {worker, [worker EXCEPT !.state = "claimed"], [worker EXCEPT !.state = "released"]}
        /\ alive' \in {alive, FALSE}
    BY Zenon DEF StampFails
  <1>3. (row \in Rows /\ (row.term # "no" => Ended(row)))' /\ row'.here = row.here /\ row'.inc = row.inc
    BY <1>2, ZenonT(30) DEF IInv, TypeOK, Rows, Ages, Ended, AsDone
  <1>4. TypeOK' /\ SnapOK'
    <2>1. (worker \in [state : {"active", "retained", "claimed", "released"}, inc : 0..1])'
      BY <1>2, ZenonT(30) DEF IInv, TypeOK
    <2>2. alive' \in BOOLEAN
      BY <1>2 DEF IInv, TypeOK
    <2>3. (told \in [merged : 0..MaxTold, retired : 0..MaxTold, nostamp : 0..MaxTold, noremove : 0..MaxTold])'
      BY <1>1, ConstantsAssumption DEF IInv, TypeOK, Count
    <2>4. (poll.snap \in Rows)' /\ SnapOK'
      BY <1>1, NoRowType DEF SnapOK
    <2>. QED  BY <1>1, <1>3, <2>1, <2>2, <2>3, <2>4 DEF IInv, TypeOK
  <1>5. worker'.inc = worker.inc
    BY <1>2 DEF IInv, TypeOK
  <1>6. OneIncarnation' /\ SnapHere'
    BY <1>1, <1>3, <1>5 DEF IInv, OneIncarnation, SnapHere, NoRow
  <1>7. told'.merged = told.merged /\ told'.retired = told.retired /\ told'.noremove = told.noremove
    BY <1>1 DEF IInv, TypeOK
  <1>8. DoneAfterNotice' /\ RetireDue'
    BY <1>1, <1>7 DEF IInv, DoneAfterNotice, RetireDue, NoRow, StampFails
  <1>9. Undisturbed' => told'.merged <= told'.nostamp /\ Undisturbed /\ worker' = worker
    <2>. SUFFICES ASSUME Undisturbed'
                  PROVE  told'.merged <= told'.nostamp /\ Undisturbed /\ worker' = worker
      OBVIOUS
    <2>1. worker.inc = 0 /\ poll.snap.inc = 0
      BY <1>1 DEF IInv, OneIncarnation, Undisturbed
    <2>2. worker' = worker
      BY <2>1 DEF StampFails
    <2>3. told.merged <= 1 + told.nostamp /\ Undisturbed
      BY <1>1, <2>2 DEF IInv, MergeToldOnceUndisturbed, Undisturbed
    <2>. QED  BY <1>1, <1>7, <2>2, <2>3, ConstantsAssumption DEF IInv, TypeOK, Count
  <1>10. StampFollows' /\ MergeToldOnceUndisturbed'
    <2>1. told'.merged \in Nat /\ told'.nostamp \in Nat
      BY <1>4 DEF TypeOK
    <2>. QED  BY <1>1, <1>3, <1>9, <2>1 DEF IInv, StampFollows, MergeToldOnceUndisturbed
  <1>11. RemovalFollows' /\ RetiredToldOnceUndisturbed'
    <2>1. worker'.state # "claimed" => worker.state # "claimed"
      BY <1>2 DEF IInv, TypeOK, StampFails, Owned, Claimable
    <2>. QED
      BY <1>1, <1>3, <1>7, <2>1 DEF IInv, RemovalFollows, RetiredToldOnceUndisturbed, StampFails
  <1>. QED  BY <1>4, <1>6, <1>8, <1>10, <1>11 DEF IInv

(* The stamp after the notice: the row is handled, or is not there.          *)
LEMMA StampMergedKeeps == ASSUME IInv, StampMerged PROVE IInv'
  <1>1. (row \in Rows /\ (row.term # "no" => Ended(row)))'
    <2>1. row' \in {row, [row EXCEPT !.merged = "fresh"], [row EXCEPT !.status = "done", !.term = "fresh"]}
      BY Zenon DEF StampMerged, Stamped, AsDone
    <2>. QED  BY <2>1, ZenonT(30) DEF IInv, TypeOK, Rows, Ages, Ended
  <1>2. (poll.snap \in Rows)' /\ SnapOK'
    BY DEF IInv, TypeOK, SnapOK, Rows, Ages, Ended, StampMerged, Stamped, AsDone, Owned, Claimable, KeepAlive, Rest, NoRow
  <1>3. TypeOK'
    <2>1. worker' \in {worker, [worker EXCEPT !.state = "retained"], [worker EXCEPT !.state = "released"]}
      BY Zenon DEF StampMerged
    <2>2. alive' \in BOOLEAN
      BY Zenon DEF IInv, TypeOK, StampMerged
    <2>3. (worker \in [state : {"active", "retained", "claimed", "released"}, inc : 0..1])'
      BY <2>1, ZenonT(30) DEF IInv, TypeOK
    <2>. QED  BY <1>1, <1>2, <2>2, <2>3 DEF IInv, TypeOK, StampMerged, Rest
  <1>4. OneIncarnation' /\ SnapHere'
    BY ZenonT(30) DEF IInv, TypeOK, Rows, OneIncarnation, SnapHere, StampMerged, Stamped, AsDone, Owned, Claimable, KeepAlive, Rest, NoRow
  <1>5. DoneAfterNotice' /\ RetireDue'
    BY DEF IInv, TypeOK, Rows, SnapHere, DoneAfterNotice, RetireDue, MergeHandled, Ended,
           StampMerged, Stamped, AsDone, Owned, Claimable, KeepAlive, Rest, NoRow
  <1>6. StampFollows' /\ MergeToldOnceUndisturbed'
    <2>. SUFFICES ASSUME Undisturbed
                  PROVE  /\ row'.here => worker'.state # "released" /\ MergeHandled(row')
                         /\ told'.merged <= 1 + told'.nostamp /\ ~poll'.snap.here
                         /\ poll'.pc = "idle"
      BY DEF StampFollows, MergeToldOnceUndisturbed, Undisturbed, MergeHandled, IInv, TypeOK, StampMerged, Owned, Claimable
    <2>1. told'.merged <= 1 + told'.nostamp /\ poll'.pc = "idle" /\ ~poll'.snap.here
      BY DEF IInv, MergeToldOnceUndisturbed, StampMerged, Rest, NoRow
    <2>2. /\ row.here => worker.state \in Claimable
          /\ row.inc = 0 /\ poll.snap.inc = 0 /\ worker.inc = 0
      BY DEF IInv, TypeOK, Undisturbed, StampFollows, OneIncarnation, Claimable
    <2>3. CASE KeepAlive(poll.snap)
      BY <2>1, <2>2, <2>3 DEF IInv, TypeOK, Rows, StampMerged, Stamped, MergeHandled, Claimable
    <2>4. CASE ~KeepAlive(poll.snap)
      BY <2>1, <2>2, <2>4, ZenonT(30) DEF IInv, TypeOK, Rows, StampMerged, AsDone, Owned, Claimable, MergeHandled
    <2>. QED  BY <2>3, <2>4
  <1>7. RemovalFollows' /\ RetiredToldOnceUndisturbed'
    BY DEF IInv, TypeOK, Rows, OneIncarnation, SnapHere, RemovalFollows,
           RetiredToldOnceUndisturbed, StampMerged, Stamped, AsDone, Owned, Claimable, KeepAlive, Rest, NoRow
  <1>. QED  BY <1>1, <1>2, <1>3, <1>4, <1>5, <1>6, <1>7 DEF IInv

(* `ninox reap' writes the row: a Done stays, a merge stamp stays.           *)
LEMMA MarkReapedKeeps == ASSUME IInv, MarkReaped PROVE IInv'
  <1>1. (row \in Rows /\ (row.term # "no" => Ended(row)))'
    BY DEF IInv, TypeOK, SnapOK, Rows, Ages, Ended, MarkReaped, Finished
  <1>2. (poll.snap \in Rows)' /\ SnapOK'
    BY DEF IInv, TypeOK, SnapOK, Rows, Ages, Ended, MarkReaped, Finished
  <1>3. TypeOK'
    BY <1>1, <1>2, ConstantsAssumption DEF IInv, TypeOK, MarkReaped, Finished
  <1>4. OneIncarnation' /\ SnapHere'
    BY DEF IInv, TypeOK, Rows, OneIncarnation, SnapHere, MarkReaped, Finished
  <1>5. DoneAfterNotice' /\ RetireDue'
    BY DEF IInv, TypeOK, Rows, SnapHere, DoneAfterNotice, RetireDue, MergeHandled, Ended,
           MarkReaped, Finished
  <1>6. StampFollows' /\ MergeToldOnceUndisturbed'
    BY DEF IInv, TypeOK, Rows, Ages, OneIncarnation, SnapHere, StampFollows, MergeToldOnceUndisturbed,
           Undisturbed, MergeHandled, Ended, MarkReaped, Finished
  <1>7. RemovalFollows' /\ RetiredToldOnceUndisturbed'
    BY DEF IInv, TypeOK, Rows, OneIncarnation, SnapHere, RemovalFollows,
           RetiredToldOnceUndisturbed, MarkReaped, Finished
  <1>. QED  BY <1>1, <1>2, <1>3, <1>4, <1>5, <1>6, <1>7 DEF IInv

(* terminate_session writes the row: what has ended stays as it is.          *)
LEMMA MarkTerminatedKeeps == ASSUME IInv, MarkTerminated PROVE IInv'
  <1>1. (row \in Rows /\ (row.term # "no" => Ended(row)))'
    BY DEF IInv, TypeOK, SnapOK, Rows, Ages, Ended, MarkTerminated
  <1>2. (poll.snap \in Rows)' /\ SnapOK'
    BY DEF IInv, TypeOK, SnapOK, Rows, Ages, Ended, MarkTerminated
  <1>3. TypeOK'
    BY <1>1, <1>2, ConstantsAssumption DEF IInv, TypeOK, MarkTerminated
  <1>4. OneIncarnation' /\ SnapHere'
    BY DEF IInv, TypeOK, Rows, OneIncarnation, SnapHere, MarkTerminated
  <1>5. DoneAfterNotice' /\ RetireDue'
    BY DEF IInv, TypeOK, Rows, SnapHere, DoneAfterNotice, RetireDue, MergeHandled, Ended, MarkTerminated
  <1>6. StampFollows' /\ MergeToldOnceUndisturbed'
    BY DEF IInv, TypeOK, Rows, Ages, OneIncarnation, SnapHere, StampFollows, MergeToldOnceUndisturbed,
           Undisturbed, MergeHandled, Ended, MarkTerminated
  <1>7. RemovalFollows' /\ RetiredToldOnceUndisturbed'
    BY DEF IInv, TypeOK, Rows, OneIncarnation, SnapHere, RemovalFollows,
           RetiredToldOnceUndisturbed, MarkTerminated
  <1>. QED  BY <1>1, <1>2, <1>3, <1>4, <1>5, <1>6, <1>7 DEF IInv

(* The worker's finalization: a Done stays Done.                             *)
LEMMA FinishKeeps == ASSUME IInv, Finish PROVE IInv'
  <1>1. (row \in Rows /\ (row.term # "no" => Ended(row)))'
    BY DEF IInv, TypeOK, SnapOK, Rows, Ages, Ended, Finish, May
  <1>2. (poll.snap \in Rows)' /\ SnapOK'
    BY DEF IInv, TypeOK, SnapOK, Rows, Ages, Ended, Finish, May
  <1>3. TypeOK'
    BY <1>1, <1>2, ConstantsAssumption DEF IInv, TypeOK, Finish, May
  <1>4. OneIncarnation' /\ SnapHere'
    BY DEF IInv, TypeOK, Rows, OneIncarnation, SnapHere, Finish, May
  <1>5. DoneAfterNotice' /\ RetireDue'
    BY DEF IInv, TypeOK, Rows, SnapHere, DoneAfterNotice, RetireDue, MergeHandled, Ended, Finish, May
  <1>6. StampFollows' /\ MergeToldOnceUndisturbed'
    BY DEF IInv, TypeOK, Rows, Ages, OneIncarnation, SnapHere, StampFollows, MergeToldOnceUndisturbed,
           Undisturbed, MergeHandled, Ended, Finish, May
  <1>7. RemovalFollows' /\ RetiredToldOnceUndisturbed'
    BY DEF IInv, TypeOK, Rows, OneIncarnation, SnapHere, RemovalFollows,
           RetiredToldOnceUndisturbed, Finish, May
  <1>. QED  BY <1>1, <1>2, <1>3, <1>4, <1>5, <1>6, <1>7 DEF IInv

(* `ninox release' is the disturbance that gives the checkout back.          *)
LEMMA ReleaseKeeps == ASSUME IInv, Release PROVE IInv'
  <1>1. TypeOK' /\ SnapOK'
    BY ConstantsAssumption, ZenonT(30) DEF IInv, TypeOK, SnapOK, Ended, Release, May
  <1>2. OneIncarnation' /\ SnapHere'
    BY DEF IInv, TypeOK, Rows, OneIncarnation, SnapHere, Release, May
  <1>3. DoneAfterNotice' /\ RetireDue'
    BY DEF IInv, TypeOK, Rows, SnapHere, DoneAfterNotice, RetireDue, MergeHandled, Ended, Release, May
  <1>4. StampFollows' /\ MergeToldOnceUndisturbed'
    BY DEF IInv, TypeOK, Rows, Ages, OneIncarnation, SnapHere, StampFollows, MergeToldOnceUndisturbed,
           Undisturbed, MergeHandled, Ended, Release, May
  <1>5. RemovalFollows' /\ RetiredToldOnceUndisturbed'
    BY DEF IInv, TypeOK, Rows, OneIncarnation, SnapHere, RemovalFollows,
           RetiredToldOnceUndisturbed, Release, May
  <1>. QED  BY <1>1, <1>2, <1>3, <1>4, <1>5 DEF IInv

(* A relaunch, under a new incarnation of the session.                       *)
LEMMA RelaunchKeeps == ASSUME IInv, Relaunch PROVE IInv'
  <1>1. (row \in Rows /\ (row.term # "no" => Ended(row)))'
    <2>1. 1 \in 0..1
      OBVIOUS
    <2>. QED  BY <2>1, Zenon DEF IInv, TypeOK, Rows, Ages, Relaunch
  <1>2. (poll.snap \in Rows)' /\ SnapOK'
    BY DEF IInv, TypeOK, SnapOK, Rows, Ages, Ended, Relaunch, Claimable, May
  <1>3. TypeOK'
    BY <1>1, <1>2, ConstantsAssumption DEF IInv, TypeOK, Relaunch, Claimable, May
  <1>4. OneIncarnation' /\ SnapHere'
    BY DEF IInv, TypeOK, Rows, OneIncarnation, SnapHere, Relaunch, Claimable, May
  <1>5. DoneAfterNotice' /\ RetireDue'
    BY DEF IInv, TypeOK, Rows, SnapHere, DoneAfterNotice, RetireDue, MergeHandled, Ended, Relaunch, Claimable, May
  <1>6. StampFollows' /\ MergeToldOnceUndisturbed'
    BY DEF IInv, TypeOK, Rows, Ages, OneIncarnation, SnapHere, StampFollows, MergeToldOnceUndisturbed,
           Undisturbed, MergeHandled, Ended, Relaunch, Claimable, May
  <1>7. RemovalFollows' /\ RetiredToldOnceUndisturbed'
    BY DEF IInv, TypeOK, Rows, OneIncarnation, SnapHere, RemovalFollows,
           RetiredToldOnceUndisturbed, Relaunch, Claimable, May
  <1>. QED  BY <1>1, <1>2, <1>3, <1>4, <1>5, <1>6, <1>7 DEF IInv

(* The app restarts: the tick in progress is forgotten.                      *)
LEMMA RestartKeeps == ASSUME IInv, Restart PROVE IInv'
  <1>1. (row \in Rows /\ (row.term # "no" => Ended(row)))'
    BY DEF IInv, TypeOK, SnapOK, Rows, Ages, Ended, Restart, May, Rest, NoRow
  <1>2. (poll.snap \in Rows)' /\ SnapOK'
    BY DEF IInv, TypeOK, SnapOK, Rows, Ages, Ended, Restart, May, Rest, NoRow
  <1>3. TypeOK'
    BY <1>1, <1>2, ConstantsAssumption DEF IInv, TypeOK, Restart, May, Rest, NoRow
  <1>4. OneIncarnation' /\ SnapHere'
    BY DEF IInv, TypeOK, Rows, OneIncarnation, SnapHere, Restart, May, Rest, NoRow
  <1>5. DoneAfterNotice' /\ RetireDue'
    BY DEF IInv, TypeOK, Rows, SnapHere, DoneAfterNotice, RetireDue, MergeHandled, Ended, Restart,
           May, Rest, NoRow
  <1>6. StampFollows' /\ MergeToldOnceUndisturbed'
    BY DEF IInv, TypeOK, Rows, Ages, OneIncarnation, SnapHere, StampFollows, MergeToldOnceUndisturbed,
           Undisturbed, MergeHandled, Ended, Restart, May, Rest, NoRow
  <1>7. RemovalFollows' /\ RetiredToldOnceUndisturbed'
    BY DEF IInv, TypeOK, Rows, OneIncarnation, SnapHere, RemovalFollows,
           RetiredToldOnceUndisturbed, Restart, May, Rest, NoRow
  <1>. QED  BY <1>1, <1>2, <1>3, <1>4, <1>5, <1>6, <1>7 DEF IInv

(* The agent dies, or something happens to the pull request on GitHub.       *)
LEMMA OutsideKeeps == ASSUME IInv, AgentDies \/ OpenPr \/ MergePr PROVE IInv'
  <1>1. UNCHANGED <<row, worker, poll, hand, told, used>>
    BY DEF AgentDies, OpenPr, MergePr
  <1>2. (alive \in BOOLEAN /\ pr \in [state : {"none", "open", "merged"}, reported : BOOLEAN])'
    <2>1. CASE AgentDies
      BY <2>1 DEF IInv, TypeOK, AgentDies
    <2>2. CASE OpenPr
      <3>1. PICK b \in BOOLEAN : pr' = [state |-> "open", reported |-> b]
        BY <2>2 DEF OpenPr
      <3>. QED  BY <3>1, <2>2, Zenon DEF IInv, TypeOK, OpenPr
    <2>3. CASE MergePr
      BY <2>3, Zenon DEF IInv, TypeOK, MergePr
    <2>. QED  BY <2>1, <2>2, <2>3
  <1>3. TypeOK' /\ SnapOK'
    BY <1>1, <1>2 DEF IInv, TypeOK, SnapOK, Ended
  <1>. QED
    BY <1>1, <1>3 DEF IInv, OneIncarnation, SnapHere, DoneAfterNotice, RetireDue, StampFollows,
       RemovalFollows, MergeToldOnceUndisturbed, RetiredToldOnceUndisturbed, Undisturbed,
       MergeHandled, Ended

(* The retention window goes by: a stamp stays a stamp.                      *)
LEMMA AgeKeeps == ASSUME IInv, Age PROVE IInv'
  <1>1. (row \in Rows /\ (row.term # "no" => Ended(row)))'
    BY DEF IInv, TypeOK, SnapOK, Rows, Ages, Ended, Age, Older
  <1>2. (poll.snap \in Rows)' /\ SnapOK'
    BY ZenonT(30) DEF IInv, TypeOK, SnapOK, Rows, Ages, Ended, Age, Older
  <1>3. TypeOK'
    BY <1>1, <1>2, ConstantsAssumption DEF IInv, TypeOK, Age, Older
  <1>4. OneIncarnation' /\ SnapHere'
    BY DEF IInv, TypeOK, Rows, OneIncarnation, SnapHere, Age, Older
  <1>5. DoneAfterNotice' /\ RetireDue'
    BY DEF IInv, TypeOK, Rows, SnapHere, DoneAfterNotice, RetireDue, MergeHandled, Ended, Age, Older
  <1>6. StampFollows' /\ MergeToldOnceUndisturbed'
    <2>1. /\ row'.here = row.here /\ (MergeHandled(row) => MergeHandled(row'))
          /\ poll'.pc = poll.pc /\ poll'.snap.here = poll.snap.here
          /\ MergeHandled(poll.snap) => MergeHandled(poll'.snap)
      BY DEF IInv, TypeOK, Rows, MergeHandled, Age, Older
    <2>. QED  BY <2>1 DEF IInv, StampFollows, MergeToldOnceUndisturbed, Undisturbed, Age
  <1>7. RemovalFollows' /\ RetiredToldOnceUndisturbed'
    BY DEF IInv, TypeOK, Rows, OneIncarnation, SnapHere, RemovalFollows,
           RetiredToldOnceUndisturbed, Age, Older
  <1>. QED  BY <1>1, <1>2, <1>3, <1>4, <1>5, <1>6, <1>7 DEF IInv

(* `ninox reap --force' and terminate_session: the kill comes first.         *)
LEMMA KillKeeps == ASSUME IInv, NEW kind \in {"reap", "terminate"}, Kill(kind) PROVE IInv'
  <1>1. TypeOK' /\ SnapOK'
    BY ZenonT(30) DEF IInv, TypeOK, SnapOK, Ended, Kill, May
  <1>2. /\ UNCHANGED <<row, worker, pr, poll, told>>
        /\ used \subseteq used'
    BY DEF Kill, May
  <1>. QED
    BY <1>1, <1>2 DEF IInv, OneIncarnation, SnapHere, DoneAfterNotice, RetireDue, StampFollows,
       RemovalFollows, MergeToldOnceUndisturbed, RetiredToldOnceUndisturbed, Undisturbed,
       MergeHandled, Ended

LEMMA StutterKeeps == ASSUME IInv, UNCHANGED vars PROVE IInv'
  BY DEF vars, IInv, TypeOK, SnapOK, OneIncarnation, SnapHere, DoneAfterNotice, RetireDue, StampFollows,
     RemovalFollows, MergeToldOnceUndisturbed, RetiredToldOnceUndisturbed, Undisturbed,
     MergeHandled, Ended

LEMMA InitHolds == Init => IInv
  <1>. SUFFICES ASSUME Init PROVE IInv
    OBVIOUS
  <1>1. TypeOK
    BY NoRowType, ConstantsAssumption DEF Init, TypeOK
  <1>. QED
    BY <1>1 DEF Init, NoRow, Rows, IInv, SnapOK, OneIncarnation, SnapHere, DoneAfterNotice, RetireDue,
       StampFollows, RemovalFollows, MergeToldOnceUndisturbed, RetiredToldOnceUndisturbed, Ended

LEMMA NextKeeps == IInv /\ [Next]_vars => IInv'
  <1>. SUFFICES ASSUME IInv, [Next]_vars PROVE IInv'
    OBVIOUS
  <1>1. CASE PollNext
    BY <1>1, TicksKeep, AdoptReportedKeeps, ReapDeadKeeps, SweepKeeps, SendRetiredKeeps,
       RemoveSessionKeeps, RemoveFailsKeeps, WriteUsageKeeps, FindPrKeeps, FetchPrKeeps, TellMergedKeeps,
       StampMergedKeeps, StampFailsKeeps DEF PollNext
  <1>2. CASE HandNext
    BY <1>2, KillKeeps, MarkReapedKeeps, MarkTerminatedKeeps, FinishKeeps, ReleaseKeeps,
       RelaunchKeeps, RestartKeeps DEF HandNext
  <1>3. CASE AgentDies \/ OpenPr \/ MergePr \/ Age
    BY <1>3, OutsideKeeps, AgeKeeps
  <1>. QED  BY <1>1, <1>2, <1>3, StutterKeeps DEF Next

LEMMA Invariance == Spec => []IInv
  BY InitHolds, NextKeeps, PTL DEF Spec

-----------------------------------------------------------------------------
(* The row, the poller's snapshot and the worker's record have their types,  *)
(* and the retention clock runs for an ended row only, also after a snapshot *)
(* taken before the row ended is written back.                               *)
THEOREM TypeCorrect == Spec => []TypeOK
  <1>1. IInv => TypeOK
    BY DEF IInv
  <1>. QED  BY <1>1, Invariance, PTL

(* While nobody releases or relaunches the worker or restarts the app, a     *)
(* merge is announced at most once more than its stamp has failed; while     *)
(* nobody relaunches or restarts, a retirement at most once more than the    *)
(* removal has failed; and a row says Done only after the notice.  This in   *)
(* whatever order the ticks, `ninox reap', a terminate and the finalization  *)
(* come, and until a failed cleanup leaves the worker claimed.               *)
THEOREM NoticesAreRight == Spec => []NoticesRight
  <1>1. IInv => NoticesRight
    BY DEF IInv, NoticesRight, DoneAfterNotice, DoneMeansTold
  <1>. QED  BY <1>1, Invariance, PTL

(* A retirement notice never follows a merge notice in an undisturbed run in *)
(* which no stamp failed: the sweep decides on a snapshot that was taken     *)
(* after the stamp.                                                          *)
THEOREM MergeIsNotContradicted == Spec => NotContradicted
  <1>1. ASSUME IInv, [Next]_vars, Undisturbed, told.merged > 0, told.nostamp = 0
        PROVE  told'.retired = told.retired
    <2>1. ~SendRetired
      BY <1>1 DEF SendRetired, IInv, StampFollows, SnapHere, RetireDue
    <2>2. CASE PollNext
      BY <2>1, <2>2, <1>1 DEF PollNext, PidTick, AdoptReported, ListPids, ReapDead, ListRetired, Sweep,
         RemoveSession, RemoveFails, UsageTick, WriteUsage, GithubTick, FindPr, FetchPr, TellMerged,
         StampMerged, StampFails, IInv, TypeOK
    <2>3. CASE HandNext
      BY <2>3 DEF HandNext, Kill, MarkReaped, MarkTerminated, Finish, Release, Relaunch, Restart
    <2>4. CASE AgentDies \/ OpenPr \/ MergePr \/ Age \/ UNCHANGED vars
      BY <2>4 DEF AgentDies, OpenPr, MergePr, Age, vars
    <2>. QED  BY <2>2, <2>3, <2>4, <1>1 DEF Next
  <1>2. IInv /\ [Next]_vars => [Undisturbed /\ told.merged > 0 /\ told.nostamp = 0 => told'.retired = told.retired]_vars
    BY <1>1
  <1>. QED  BY <1>2, Invariance, PTL DEF Spec, NotContradicted

(* A row that ended stays ended until a relaunch, which gives it another     *)
(* incarnation: no tick of the poller but the usage one writes a live status *)
(* over it, though each works on an old snapshot.                            *)
THEOREM EndedStaysEnded == Spec => TerminalStays
  <1>1. ASSUME IInv, [Next]_vars, row.here, Ended(row), row'.here, poll.pc # "usage"
        PROVE  Ended(row') \/ row'.inc > row.inc
    <2>1. CASE PollNext
      <3>1. CASE StampMerged
        BY <3>1, <1>1, Zenon DEF StampMerged, Stamped, AsDone, Ended, IInv, TypeOK, Rows
      <3>2. CASE AdoptReported \/ FindPr
        BY <3>2, <1>1, ZenonT(30) DEF AdoptReported, FindPr, UpdateLive, Ended, IInv, TypeOK, Rows
      <3>3. CASE ReapDead
        BY <3>3, <1>1, Zenon DEF ReapDead, Ended, IInv, TypeOK, Rows
      <3>4. CASE RemoveSession
        BY <3>4, <1>1 DEF RemoveSession, Ended, IInv, TypeOK, Rows
      <3>5. CASE RemoveFails
        BY <3>5, <1>1 DEF RemoveFails, Ended
      <3>6. CASE StampFails
        <4>1. row' \in {row, AsDone(row)}
          BY <3>6, Zenon DEF StampFails
        <4>2. CASE row' = AsDone(row)
          BY <4>2, <1>1 DEF AsDone, Ended, IInv, TypeOK, Rows
        <4>. QED  BY <4>1, <4>2, <1>1 DEF Ended
      <3>. QED
        BY <2>1, <3>1, <3>2, <3>3, <3>4, <3>5, <3>6, <1>1 DEF PollNext, PidTick, ListPids, ListRetired, Sweep,
               SendRetired,
           UsageTick, WriteUsage, GithubTick, FetchPr, TellMerged, Ended
    <2>2. CASE Relaunch
      BY <2>2, <1>1 DEF Relaunch, May, IInv, OneIncarnation, TypeOK, Rows
    <2>3. CASE HandNext /\ ~Relaunch
      <3>1. CASE Finish
        BY <3>1, <1>1, Zenon DEF Finish, Ended, IInv, TypeOK, Rows
      <3>2. CASE MarkReaped
        BY <3>2, <1>1, Zenon DEF MarkReaped, Ended, IInv, TypeOK, Rows
      <3>. QED
        BY <2>3, <3>1, <3>2, <1>1 DEF HandNext, Kill, MarkTerminated, Release, Restart
    <2>4. CASE AgentDies \/ OpenPr \/ MergePr \/ Age \/ UNCHANGED vars
      BY <2>4, <1>1 DEF AgentDies, OpenPr, MergePr, Age, Older, Ended, vars, IInv, TypeOK, Rows
    <2>. QED  BY <2>1, <2>2, <2>3, <2>4, <1>1 DEF Next
  <1>2. IInv /\ [Next]_vars =>
          [row.here /\ Ended(row) /\ row'.here /\ poll.pc # "usage" => Ended(row') \/ row'.inc > row.inc]_vars
    BY <1>1
  <1>. QED  BY <1>2, Invariance, PTL DEF Spec, TerminalStays

=============================================================================

------------------------ MODULE PtydHandoff_proofs ------------------------
(* Theorems about PtydHandoff, for every set of hosts and panes, every      *)
(* bound, every choice of faults and every overlap of takeovers.            *)
EXTENDS PtydHandoff, TLAPS

LEMMA InitTypeOK == Init => TypeOK
  BY HandoffAssumption DEF Init, TypeOK, PC, Hand, Reader

USE DEF hostVars, handVars, lossVars, paneVars, fileVars

LEMMA NextTypeOK == TypeOK /\ [Next]_vars => TypeOK'
<1> SUFFICES ASSUME TypeOK, [Next]_vars PROVE TypeOK'
  OBVIOUS
<1> USE HandoffAssumption DEF TypeOK, PC, Hand, Reader
<1>1. ASSUME NEW h \in Hosts, NEW p \in Panes, Spawn(h, p) PROVE TypeOK'
  BY <1>1 DEF Spawn
<1>2. ASSUME NEW h \in Hosts, NEW p \in Panes, KillPane(h, p) PROVE TypeOK'
  BY <1>2 DEF KillPane
<1>3. ASSUME NEW h \in Hosts, NEW p \in Panes, ReaderNext(h, p) PROVE TypeOK'
  <2>1. CASE PollFrozen(h, p) BY <2>1 DEF PollFrozen, SetReader
  <2>2. CASE PollData(h, p) BY <2>2 DEF PollData, SetReader
  <2>3. CASE PollEof(h, p) BY <2>3 DEF PollEof, SetReader
  <2>4. CASE Ingest(h, p) BY <2>4 DEF Ingest, SetReader
  <2> QED BY <1>3, <2>1, <2>2, <2>3, <2>4 DEF ReaderNext
<1>4. ASSUME NEW p \in Panes, Emit(p) PROVE TypeOK'
  BY <1>4 DEF Emit
<1>5. ASSUME NEW p \in Panes, Dies(p) PROVE TypeOK'
  BY <1>5 DEF Dies
<1>6. ASSUME NEW h \in Hosts, OldNext(h) PROVE TypeOK'
  <2>1. CASE OldBegin(h) BY <2>1 DEF OldBegin
  <2>2. CASE OldFreeze(h) BY <2>2 DEF OldFreeze
  <2>3. CASE OldSend(h) BY <2>3 DEF OldSend
  <2>4. CASE OldBail(h) BY <2>4 DEF OldBail, HandTo
  <2>5. CASE OldReadAck(h) BY <2>5 DEF OldReadAck, HandTo
  <2>6. CASE OldRelease(h) BY <2>6 DEF OldRelease
  <2>7. CASE OldReleaseFails(h) BY <2>7 DEF OldReleaseFails, HandTo
  <2>8. CASE OldUnfreeze(h) BY <2>8 DEF OldUnfreeze, HandTo
  <2>9. CASE OldRestart(h) BY <2>9 DEF OldRestart
  <2>10. CASE OldAbort(h) BY <2>10 DEF OldAbort, HandTo
  <2>11. CASE OldStop(h) BY <2>11 DEF OldStop, Stopped
  <2> QED BY <1>6, <2>1, <2>2, <2>3, <2>4, <2>5, <2>6, <2>7, <2>8, <2>9, <2>10, <2>11
          DEF OldNext
<1>7. ASSUME NEW h \in Hosts, NewNext(h) PROVE TypeOK'
  <2>1. CASE Bind(h) BY <2>1 DEF Bind, PcTo
  <2>2. CASE NewAck(h) BY <2>2 DEF NewAck, PcTo
  <2>3. CASE NewGiveUp(h) BY <2>3 DEF NewGiveUp, PcTo
  <2>4. CASE Quit(h) BY <2>4 DEF Quit, Gone, PcTo
  <2>5. CASE NewStart(h) BY <2>5 DEF NewStart, PcTo
  <2>6. CASE NewRename(h) BY <2>6 DEF NewRename, PcTo
  <2>7. CASE NewRenameFails(h) BY <2>7 DEF NewRenameFails, PcTo
  <2> QED BY <1>7, <2>1, <2>2, <2>3, <2>4, <2>5, <2>6, <2>7 DEF NewNext
<1>8. ASSUME NEW h \in Hosts, ServeNext(h) PROVE TypeOK'
  <2>1. CASE ServeBreak(h) BY <2>1 DEF ServeBreak, PcTo
  <2>2. CASE KillAll(h) BY <2>2 DEF KillAll, PcTo
  <2>3. CASE CheckInode(h) BY <2>3 DEF CheckInode, PcTo
  <2>4. CASE Unlink(h) BY <2>4 DEF Unlink, PcTo
  <2>5. CASE Exit(h) BY <2>5 DEF Exit, Gone, PcTo
  <2> QED BY <1>8, <2>1, <2>2, <2>3, <2>4, <2>5 DEF ServeNext
<1>9. ASSUME NEW h \in Hosts, Connect(h) \/ Fresh(h) \/ NewFail(h) \/ Term(h) \/ Crash(h)
      PROVE TypeOK'
  <2>1. CASE Connect(h) BY <2>1 DEF Connect, PcTo
  <2>2. CASE Fresh(h) BY <2>2 DEF Fresh, PcTo
  <2>3. CASE NewFail(h) BY <2>3 DEF NewFail, PcTo
  <2>4. CASE Term(h) BY <2>4 DEF Term, Stopped
  <2>5. CASE Crash(h) BY <2>5 DEF Crash, Gone, PcTo
  <2> QED BY <1>9, <2>1, <2>2, <2>3, <2>4, <2>5
<1>10. CASE UNCHANGED vars BY <1>10 DEF vars
<1> QED BY <1>1, <1>2, <1>3, <1>4, <1>5, <1>6, <1>7, <1>8, <1>9, <1>10 DEF Next

(* Type correctness of the handoff protocol (the state of Host in host.rs   *)
(* and of the two sides of handoff.rs), under every interleaving.           *)
THEOREM TypeCorrect == Spec => []TypeOK
  BY InitTypeOK, NextTypeOK, PTL DEF Spec
-----------------------------------------------------------------------------
(* At most one host reads a PTY.  Each action preserves OneReaderInv; the   *)
(* steps that move panes or readers between hosts come first.               *)

LEMMA InitOneReader == Init => OneReaderInv
  BY InitTypeOK, HandoffAssumption
     DEF Init, OneReaderInv, Exclusive, IBusy, IPeer, INext, IRel, IUnspawned, ISock, IOld, ISent,
         IStarted, IHome, OneReader, Up, Async, Reading, Succ, Busy, PreCommit, NotYet

LEMMA OldFreezeOneReader ==
  ASSUME Overlap = "none", NEW n \in Hosts, OneReaderInv, OldFreeze(n)
  PROVE  Exclusive'
<1> USE HandoffAssumption DEF OneReaderInv, Exclusive, Up, Async, Closed, Reading, Succ, Busy, PreCommit, NotYet
<1>1. IBusy' BY DEF OldFreeze, TypeOK, IBusy, IPeer, IRel
<1>2. IPeer' BY DEF OldFreeze, TypeOK, IPeer, IRel
<1>3. INext' BY DEF OldFreeze, TypeOK, INext, IBusy
<1>4. IRel' BY DEF OldFreeze, TypeOK, IRel
<1>5. IUnspawned' BY DEF OldFreeze, TypeOK, IUnspawned, IRel
<1>6. ISock' BY DEF OldFreeze, TypeOK, ISock, IPeer, IBusy, IRel
<1>7. IOld' BY SMTT(60) DEF OldFreeze, TypeOK, IOld, IPeer, IBusy, IRel, IUnspawned, IHome
<1>8. ISent'
  <2> SUFFICES ASSUME NEW m \in Hosts, NEW g \in Hosts, NEW p \in Panes, Succ(m)',
                      (hand[m] \in {"sent", "releasing"} \/ m \in rel)',
                      (p \in pend[m])', Reading(g, p)'
               PROVE  FALSE
    BY DEF ISent
  <2>1. m # n BY DEF OldFreeze, TypeOK, IRel
  <2>2. Reading(g, p) /\ Succ(m) /\ p \in pend[m] BY <2>1 DEF OldFreeze, TypeOK
  <2> QED BY <2>1, <2>2 DEF OldFreeze, TypeOK, ISent
<1>9. IStarted' BY SMTT(60) DEF OldFreeze, TypeOK, IStarted, ISent, IBusy, IRel, IUnspawned
<1>10. IHome' BY SMTT(60) DEF OldFreeze, TypeOK, IHome, ISock, IStarted, INext, IBusy, IRel, IUnspawned, IPeer
<1>11. OneReader' BY SMTT(60) DEF OldFreeze, TypeOK, OneReader, IOld, ISent, IBusy, IRel, IUnspawned
<1> QED BY <1>1, <1>2, <1>3, <1>4, <1>5, <1>6, <1>7, <1>8, <1>9, <1>10, <1>11 DEF Exclusive

LEMMA OldSendOneReader ==
  ASSUME Overlap = "none", NEW n \in Hosts, OneReaderInv, OldSend(n)
  PROVE  Exclusive'
<1> USE HandoffAssumption DEF OneReaderInv, Exclusive, Up, Async, Closed, Reading, Succ, Busy, PreCommit, NotYet
<1>1. IBusy' BY DEF OldSend, ReadersStopped, TypeOK, IBusy, IPeer, IRel
<1>2. IPeer' BY DEF OldSend, ReadersStopped, TypeOK, IPeer, IRel
<1>3. INext' BY DEF OldSend, ReadersStopped, TypeOK, INext, IBusy
<1>4. IRel' BY DEF OldSend, ReadersStopped, TypeOK, IRel
<1>5. IUnspawned' BY DEF OldSend, ReadersStopped, TypeOK, IUnspawned, IRel
<1>6. ISock' BY DEF OldSend, ReadersStopped, TypeOK, ISock, IPeer, IBusy, IRel
<1>7. IOld' BY SMTT(60) DEF OldSend, ReadersStopped, TypeOK, IOld, IPeer, IBusy, IRel, IUnspawned, IHome
<1>8. ISent'
  <2> SUFFICES ASSUME NEW m \in Hosts, NEW g \in Hosts, NEW p \in Panes, Succ(m)',
                      (hand[m] \in {"sent", "releasing"} \/ m \in rel)',
                      (p \in pend[m])', Reading(g, p)'
               PROVE  FALSE
    BY DEF ISent
  <2>1. Reading(g, p) /\ Succ(m) /\ p \in pend[m] BY DEF OldSend
  <2>2. CASE m = n
    <3>1. g = peer[n] BY <2>1, <2>2 DEF OldSend, IOld
    <3> QED BY <2>1, <2>2, <3>1 DEF OldSend, ReadersStopped
  <2>3. CASE m # n BY <2>1, <2>3 DEF OldSend, TypeOK, ISent
  <2> QED BY <2>2, <2>3
<1>9. IStarted' BY SMTT(60) DEF OldSend, ReadersStopped, TypeOK, IStarted, ISent, IBusy, IRel, IUnspawned
<1>10. IHome' BY SMTT(60) DEF OldSend, ReadersStopped, TypeOK, IHome, ISock, IStarted, INext, IBusy, IRel, IUnspawned, IPeer
<1>11. OneReader' BY SMTT(60) DEF OldSend, ReadersStopped, TypeOK, OneReader, IOld, ISent, IBusy, IRel, IUnspawned
<1> QED BY <1>1, <1>2, <1>3, <1>4, <1>5, <1>6, <1>7, <1>8, <1>9, <1>10, <1>11 DEF Exclusive

LEMMA OldRestartOneReader ==
  ASSUME Overlap = "none", NEW n \in Hosts, OneReaderInv, OldRestart(n)
  PROVE  Exclusive'
<1> USE HandoffAssumption DEF OneReaderInv, Exclusive, Up, Async, Closed, Reading, Succ, Busy, PreCommit, NotYet
<1>1. IBusy' BY DEF OldRestart, TypeOK, IBusy, IPeer, IRel
<1>2. IPeer' BY DEF OldRestart, TypeOK, IPeer, IRel
<1>3. INext' BY DEF OldRestart, TypeOK, INext, IBusy
<1>4. IRel' BY DEF OldRestart, TypeOK, IRel
<1>5. IUnspawned' BY DEF OldRestart, TypeOK, IUnspawned, IRel
<1>6. ISock' BY DEF OldRestart, TypeOK, ISock, IPeer, IBusy, IRel
<1>7. IOld'
  <2> SUFFICES ASSUME NEW m \in Hosts, NEW g \in Hosts, NEW p \in Panes, Busy(m)', PreCommit(m)',
                      Up(peer[m])', g # peer'[m], (p \in panes[peer[m]] \cup pend[m])',
                      Reading(g, p)'
               PROVE  FALSE
    BY DEF IOld
  <2>1. m = n BY DEF OldRestart, TypeOK, IBusy
  <2>2. Reading(g, p) BY <2>1 DEF OldRestart, TypeOK
  <2> QED BY <2>1, <2>2 DEF OldRestart, TypeOK, IOld
<1>8. ISent'
  <2> SUFFICES ASSUME NEW m \in Hosts, NEW g \in Hosts, NEW p \in Panes, Succ(m)',
                      (hand[m] \in {"sent", "releasing"} \/ m \in rel)',
                      (p \in pend[m])', Reading(g, p)'
               PROVE  FALSE
    BY DEF ISent
  <2>1. hand[n] = "restart" /\ hand' = [hand EXCEPT ![n] = "abort"] /\ rel' = rel
    BY DEF OldRestart
  <2>2. m # n BY <2>1 DEF TypeOK, IRel
  <2> QED BY <2>2 DEF OldRestart, TypeOK, IBusy
<1>9. IStarted'
  <2> SUFFICES ASSUME NEW m \in Hosts, pc'[m] = "starting" PROVE FALSE
    BY DEF IStarted
  <2>1. m = n BY DEF OldRestart, IBusy
  <2> QED BY <2>1 DEF OldRestart, IRel
<1>10. IHome'
  <2> SUFFICES ASSUME NEW g \in Hosts, NEW h \in Hosts, NEW p \in Panes, sock' = h,
                      p \in panes'[h], g # h, Reading(g, p)'
               PROVE  Succ(g)'
    BY DEF IHome
  <2>1. CASE Reading(g, p) BY <2>1 DEF OldRestart, TypeOK, IHome
  <2>2. CASE ~Reading(g, p)
    <3>1. g = peer[n] BY <2>2 DEF OldRestart, TypeOK
    <3>2. sock \in {peer[n], NoHost} BY DEF OldRestart, TypeOK, ISock
    <3> QED BY <3>1, <3>2 DEF OldRestart, TypeOK
  <2> QED BY <2>1, <2>2
<1>11. OneReader'
  <2> SUFFICES ASSUME NEW p \in Panes, NEW g \in Hosts, NEW h \in Hosts, g # h,
                      Reading(g, p)', Reading(h, p)', h # peer[n]
               PROVE  FALSE
    BY DEF OneReader
  <2>1. Reading(h, p) BY DEF OldRestart, TypeOK
  <2>2. CASE Reading(g, p) BY <2>1, <2>2 DEF OneReader
  <2>3. CASE ~Reading(g, p)
    <3>1. g = peer[n] /\ p \in panes[g] BY <2>3 DEF OldRestart, TypeOK
    <3> QED BY <2>1, <3>1 DEF OldRestart, TypeOK, IOld
  <2> QED BY <2>2, <2>3
<1> QED BY <1>1, <1>2, <1>3, <1>4, <1>5, <1>6, <1>7, <1>8, <1>9, <1>10, <1>11 DEF Exclusive

LEMMA QuitOneReader ==
  ASSUME Overlap = "none", NEW n \in Hosts, OneReaderInv, Quit(n)
  PROVE  Exclusive'
<1> USE HandoffAssumption DEF OneReaderInv, Exclusive, Up, Async, Closed, Reading, Succ, Busy, PreCommit, NotYet
<1>1. IBusy' BY DEF Quit, Gone, PcTo, TypeOK, IBusy, IPeer, IRel
<1>2. IPeer' BY DEF Quit, Gone, PcTo, TypeOK, IPeer, IRel
<1>3. INext' BY DEF Quit, Gone, PcTo, TypeOK, INext, IBusy
<1>4. IRel' BY DEF Quit, Gone, PcTo, TypeOK, IRel
<1>5. IUnspawned' BY DEF Quit, Gone, PcTo, TypeOK, IUnspawned, IRel
<1>6. ISock' BY DEF Quit, Gone, PcTo, TypeOK, ISock, IPeer, IBusy, IRel
<1>7. IOld' BY SMTT(60) DEF Quit, Gone, PcTo, TypeOK, IOld, IPeer, IBusy, IRel, IUnspawned, IHome
<1>8. ISent' BY SMTT(60) DEF Quit, Gone, PcTo, TypeOK, ISent, IOld, IRel, IBusy, IUnspawned, IPeer
<1>9. IStarted' BY SMTT(60) DEF Quit, Gone, PcTo, TypeOK, IStarted, ISent, IBusy, IRel, IUnspawned
<1>10. IHome' BY SMTT(60) DEF Quit, Gone, PcTo, TypeOK, IHome, ISock, IStarted, INext, IBusy, IRel, IUnspawned, IPeer
<1>11. OneReader' BY SMTT(60) DEF Quit, Gone, PcTo, TypeOK, OneReader, IOld, ISent, IBusy, IRel, IUnspawned
<1> QED BY <1>1, <1>2, <1>3, <1>4, <1>5, <1>6, <1>7, <1>8, <1>9, <1>10, <1>11 DEF Exclusive

LEMMA GoneOneReader ==
  ASSUME Overlap = "none", NEW n \in Hosts, OneReaderInv, Up(n),
         NEW how \in {"exited", "crashed"}, Gone(n, how), UNCHANGED next
  PROVE  Exclusive'
<1> USE HandoffAssumption DEF OneReaderInv, Exclusive, Up, Async, Closed, Reading, Succ, Busy, PreCommit, NotYet
<1>1. IBusy' BY DEF Gone, PcTo, TypeOK, IBusy, IPeer, IRel
<1>2. IPeer' BY DEF Gone, PcTo, TypeOK, IPeer, IRel
<1>3. INext' BY DEF Gone, PcTo, TypeOK, INext, IBusy
<1>4. IRel' BY DEF Gone, PcTo, TypeOK, IRel
<1>5. IUnspawned' BY DEF Gone, PcTo, TypeOK, IUnspawned, IRel
<1>6. ISock' BY DEF Gone, PcTo, TypeOK, ISock, IPeer, IBusy, IRel
<1>7. IOld' BY SMTT(60) DEF Gone, PcTo, TypeOK, IOld, IPeer, IBusy, IRel, IUnspawned, IHome
<1>8. ISent' BY SMTT(60) DEF Gone, PcTo, TypeOK, ISent, IOld, IRel, IBusy, IUnspawned, IPeer
<1>9. IStarted' BY SMTT(60) DEF Gone, PcTo, TypeOK, IStarted, ISent, IBusy, IRel, IUnspawned
<1>10. IHome' BY SMTT(60) DEF Gone, PcTo, TypeOK, IHome, ISock, IStarted, INext, IBusy, IRel, IUnspawned, IPeer
<1>11. OneReader' BY SMTT(60) DEF Gone, PcTo, TypeOK, OneReader, IOld, ISent, IBusy, IRel, IUnspawned
<1> QED BY <1>1, <1>2, <1>3, <1>4, <1>5, <1>6, <1>7, <1>8, <1>9, <1>10, <1>11 DEF Exclusive

LEMMA ConnectOneReader ==
  ASSUME Overlap = "none", NEW n \in Hosts, OneReaderInv, Connect(n)
  PROVE  Exclusive'
<1> USE HandoffAssumption DEF OneReaderInv, Exclusive, Up, Async, Closed, Reading, Succ, Busy, PreCommit, NotYet
<1>1. IBusy' BY DEF Connect, PcTo, MayStart, Quiet, NewQuiet, TypeOK, IBusy, IPeer, IRel
<1>2. IPeer' BY DEF Connect, PcTo, MayStart, Quiet, NewQuiet, TypeOK, IPeer, IRel
<1>3. INext' BY DEF Connect, PcTo, MayStart, Quiet, NewQuiet, TypeOK, INext, IBusy
<1>4. IRel' BY DEF Connect, PcTo, MayStart, Quiet, NewQuiet, TypeOK, IRel
<1>5. IUnspawned' BY DEF Connect, PcTo, MayStart, Quiet, NewQuiet, TypeOK, IUnspawned, IRel
<1>6. ISock' BY DEF Connect, PcTo, MayStart, Quiet, NewQuiet, TypeOK, ISock, IPeer, IBusy, IRel
<1>7. IOld' BY SMTT(60) DEF Connect, PcTo, MayStart, Quiet, NewQuiet, TypeOK, IOld, IPeer, IBusy, IRel, IUnspawned, IHome
<1>8. ISent' BY SMTT(60) DEF Connect, PcTo, MayStart, Quiet, NewQuiet, TypeOK, ISent, IOld, IRel, IBusy, IUnspawned, IPeer
<1>9. IStarted' BY SMTT(60) DEF Connect, PcTo, MayStart, Quiet, NewQuiet, TypeOK, IStarted, ISent, IBusy, IRel, IUnspawned
<1>10. IHome' BY SMTT(60) DEF Connect, PcTo, MayStart, Quiet, NewQuiet, TypeOK, IHome, ISock, IStarted, INext, IBusy, IRel, IUnspawned, IPeer
<1>11. OneReader' BY SMTT(60) DEF Connect, PcTo, MayStart, Quiet, NewQuiet, TypeOK, OneReader, IOld, ISent, IBusy, IRel, IUnspawned
<1> QED BY <1>1, <1>2, <1>3, <1>4, <1>5, <1>6, <1>7, <1>8, <1>9, <1>10, <1>11 DEF Exclusive

LEMMA PaneStepsOneReader ==
  ASSUME Overlap = "none", OneReaderInv, NEW h \in Hosts, NEW p \in Panes,
         Spawn(h, p) \/ KillPane(h, p) \/ ReaderNext(h, p)
  PROVE  Exclusive'
<1> USE HandoffAssumption DEF OneReaderInv, Exclusive, TypeOK, IBusy, IPeer, INext, IRel, IUnspawned,
        ISock, IOld, ISent, IStarted, IHome, OneReader,
        Up, Async, Closed, Reading, Succ, Busy, PreCommit, NotYet
<1>1. CASE Spawn(h, p) BY <1>1, SMTT(60) DEF Spawn
<1>2. CASE KillPane(h, p) BY <1>2, SMTT(60) DEF KillPane
<1>3. CASE PollFrozen(h, p) BY <1>3, SMTT(60) DEF PollFrozen, SetReader
<1>4. CASE PollData(h, p) BY <1>4, SMTT(60) DEF PollData, SetReader
<1>5. CASE PollEof(h, p) BY <1>5, SMTT(60) DEF PollEof, SetReader
<1>6. CASE Ingest(h, p) BY <1>6, SMTT(60) DEF Ingest, SetReader
<1> QED BY <1>1, <1>2, <1>3, <1>4, <1>5, <1>6 DEF ReaderNext

LEMMA ProcStepsOneReader ==
  ASSUME Overlap = "none", OneReaderInv, NEW p \in Panes, Emit(p) \/ Dies(p)
  PROVE  Exclusive'
<1> USE HandoffAssumption DEF OneReaderInv, Exclusive, TypeOK, IBusy, IPeer, INext, IRel, IUnspawned,
        ISock, IOld, ISent, IStarted, IHome, OneReader,
        Up, Async, Closed, Reading, Succ, Busy, PreCommit, NotYet
<1>1. CASE Emit(p) BY <1>1, SMTT(60) DEF Emit
<1>2. CASE Dies(p) BY <1>2, SMTT(60) DEF Dies
<1> QED BY <1>1, <1>2

LEMMA OldStepsOneReader ==
  ASSUME Overlap = "none", OneReaderInv, NEW n \in Hosts, OldNext(n)
  PROVE  Exclusive'
<1> USE HandoffAssumption DEF OneReaderInv, Exclusive, TypeOK, IBusy, IPeer, INext, IRel, IUnspawned,
        ISock, IOld, ISent, IStarted, IHome, OneReader,
        Up, Async, Closed, Reading, Succ, Busy, PreCommit, NotYet
<1>1. CASE OldBegin(n) BY <1>1, SMTT(60) DEF OldBegin
<1>2. CASE OldFreeze(n) BY <1>2, OldFreezeOneReader
<1>3. CASE OldSend(n) BY <1>3, OldSendOneReader
<1>4. CASE OldBail(n) BY <1>4, SMTT(60) DEF OldBail, HandTo
<1>5. CASE OldReadAck(n) BY <1>5, SMTT(60) DEF OldReadAck, HandTo
<1>6. CASE OldRelease(n) BY <1>6, SMTT(60) DEF OldRelease
<1>7. CASE OldReleaseFails(n) BY <1>7, SMTT(60) DEF OldReleaseFails, HandTo
<1>8. CASE OldUnfreeze(n) BY <1>8, SMTT(60) DEF OldUnfreeze, HandTo
<1>9. CASE OldRestart(n) BY <1>9, OldRestartOneReader
<1>10. CASE OldAbort(n) BY <1>10, SMTT(60) DEF OldAbort, HandTo
<1>11. CASE OldStop(n) BY <1>11, SMTT(60) DEF OldStop, Stopped
<1> HIDE DEF Exclusive
<1> QED BY <1>1, <1>2, <1>3, <1>4, <1>5, <1>6, <1>7, <1>8, <1>9, <1>10, <1>11 DEF OldNext

LEMMA NewStepsOneReader ==
  ASSUME Overlap = "none", OneReaderInv, NEW n \in Hosts, NewNext(n) \/ NewFail(n) \/ Connect(n)
  PROVE  Exclusive'
<1> USE HandoffAssumption DEF OneReaderInv, Exclusive, TypeOK, IBusy, IPeer, INext, IRel, IUnspawned,
        ISock, IOld, ISent, IStarted, IHome, OneReader,
        Up, Async, Closed, Reading, Succ, Busy, PreCommit, NotYet
<1>1. CASE Bind(n) BY <1>1, SMTT(60) DEF Bind, PcTo
<1>2. CASE NewAck(n) BY <1>2, SMTT(60) DEF NewAck, PcTo
<1>3. CASE NewGiveUp(n) BY <1>3, SMTT(60) DEF NewGiveUp, PcTo
<1>4. CASE Quit(n) BY <1>4, QuitOneReader
<1>5. CASE NewStart(n) BY <1>5, SMTT(60) DEF NewStart, PcTo
<1>6. CASE NewRename(n) BY <1>6, SMTT(60) DEF NewRename, PcTo
<1>7. CASE NewRenameFails(n) BY <1>7, SMTT(60) DEF NewRenameFails, PcTo
<1>8. CASE NewFail(n) BY <1>8, SMTT(60) DEF NewFail, PcTo
<1>9. CASE Connect(n) BY <1>9, ConnectOneReader
<1> QED BY <1>1, <1>2, <1>3, <1>4, <1>5, <1>6, <1>7, <1>8, <1>9 DEF NewNext

(* A fresh host finds no host that holds the lock: nobody else reads.       *)
LEMMA FreshOneReader ==
  ASSUME Overlap = "none", OneReaderInv, NEW h \in Hosts, Fresh(h)
  PROVE  Exclusive'
<1> USE HandoffAssumption DEF OneReaderInv, Exclusive, Up, Async, Reading, Succ, Busy, PreCommit, NotYet,
        Fresh, PcTo
<1>0. \A g \in Hosts : ~Async(g) /\ pc[g] \notin {"leaving", "starting"} BY DEF HoldsLock
<1>1. IBusy' BY DEF TypeOK, IBusy, IPeer
<1>2. IPeer' BY DEF TypeOK, IPeer
<1>3. INext' BY DEF TypeOK, INext
<1>4. IRel' BY DEF TypeOK, IRel
<1>5. IUnspawned' BY DEF TypeOK, IUnspawned
<1>6. ISock' BY <1>0, SMTT(60) DEF TypeOK, ISock, IPeer
<1>7. IOld' BY <1>0, SMTT(60) DEF TypeOK, IOld, IPeer
<1>8. ISent' BY SMTT(60) DEF TypeOK, ISent
<1>9. IStarted' BY SMTT(60) DEF TypeOK, IStarted
<1>10. IHome' BY SMTT(60) DEF TypeOK, IHome, IUnspawned
<1>11. OneReader' BY DEF OneReader
<1> QED BY <1>1, <1>2, <1>3, <1>4, <1>5, <1>6, <1>7, <1>8, <1>9, <1>10, <1>11

LEMMA ServeStepsOneReader ==
  ASSUME Overlap = "none", OneReaderInv, NEW h \in Hosts,
         ServeNext(h) \/ Fresh(h) \/ Term(h) \/ Crash(h)
  PROVE  Exclusive'
<1> USE HandoffAssumption DEF OneReaderInv, Exclusive, TypeOK, IBusy, IPeer, INext, IRel, IUnspawned,
        ISock, IOld, ISent, IStarted, IHome, OneReader,
        Up, Async, Closed, Reading, Succ, Busy, PreCommit, NotYet
<1>1. CASE ServeBreak(h) BY <1>1, SMTT(60) DEF ServeBreak, PcTo
<1>2. CASE KillAll(h) BY <1>2, SMTT(60) DEF KillAll, PcTo
<1>3. CASE CheckInode(h) BY <1>3, SMTT(60) DEF CheckInode, PcTo
<1>4. CASE Unlink(h) BY <1>4, SMTT(60) DEF Unlink, PcTo
<1>5. CASE Exit(h) BY <1>5, GoneOneReader DEF Exit
<1>6. CASE Fresh(h) BY <1>6, FreshOneReader
<1>7. CASE Term(h) BY <1>7, SMTT(60) DEF Term, Stopped
<1>8. CASE Crash(h) BY <1>8, GoneOneReader DEF Crash
<1> QED BY <1>1, <1>2, <1>3, <1>4, <1>5, <1>6, <1>7, <1>8 DEF ServeNext

LEMMA NextOneReader ==
  ASSUME Overlap = "none", OneReaderInv, [Next]_vars
  PROVE  OneReaderInv'
<1>1. TypeOK' BY NextTypeOK DEF OneReaderInv
<1>2. CASE UNCHANGED vars
  BY <1>1, <1>2 DEF vars, OneReaderInv, Exclusive, IBusy, IPeer, INext, IRel, IUnspawned, ISock, IOld,
         ISent, IStarted, IHome, OneReader, Up, Async, Reading, Succ, Busy, PreCommit, NotYet
<1>3. CASE Next
  BY <1>1, <1>3, PaneStepsOneReader, ProcStepsOneReader, OldStepsOneReader,
     NewStepsOneReader, ServeStepsOneReader DEF Next, OneReaderInv
<1> QED BY <1>2, <1>3

(* Two hosts never read the same PTY, whatever crashes, times out, fails or *)
(* is killed, as long as takeovers do not overlap: what step 2 (freeze) and *)
(* step 4 (nothing started before the release) of handoff.rs are for.       *)
THEOREM SingleReader == ASSUME Overlap = "none" PROVE Spec => []OneReader
<1>1. Init => OneReaderInv BY InitOneReader
<1>2. OneReaderInv /\ [Next]_vars => OneReaderInv' BY NextOneReader
<1>3. OneReaderInv => OneReader BY DEF OneReaderInv, Exclusive
<1> QED BY <1>1, <1>2, <1>3, PTL DEF Spec
-----------------------------------------------------------------------------
(* What a takeover has done so far, for every choice of faults: the second  *)
(* layer of the inductive invariant, over OneReaderInv.                     *)

(* A successor of h was released and started h's panes.                     *)
Went(h) == \E n \in rel : peer[n] = h /\ (pc[n] = "starting" \/ ino[n] # NoHost)
(* The takeover by n is under way and old may still abort it.               *)
Early(n) == Busy(n) /\ PreCommit(n) /\ Up(peer[n])
Giving == {"begun", "freezing", "sent", "releasing", "thaw", "restart", "abort"}

(* How far the two sides of one takeover can be apart. *)
IAck == \A n \in Hosts :
          /\ n \in rel => n \in ack
          /\ n \in ack => /\ pc[n] \notin {"unborn", "connected", "bound"}
                          /\ hand[n] \notin {"none", "begun", "freezing"}
          /\ hand[n] = "committed" => n \in rel
          /\ hand[n] = "releasing" \/ pc[n] = "acked" => n \in ack
          /\ pend[n] \cap unadopted[n] = {} /\ (n \notin ack => unadopted[n] = {})
          /\ hand[n] # "none" /\ n \notin rel =>
               pc[n] \in {"bound", "acked", "quitting", "exited", "crashed"}
(* Who serves found its own socket; who does not yet has no pane of its own. *)
IServes == \A n \in Hosts :
             /\ Async(n) \/ pc[n] = "leaving" => ino[n] # NoHost /\ pend[n] = {}
             /\ Succ(n) \/ pc[n] = "unborn" => ino[n] = NoHost
             /\ pc[n] \in {"starting", "unborn"} => pend[n] = {}
             /\ pc[n] = "quitting" /\ n \notin rel => panes[n] = {}
IStopped == \A n \in Hosts :
              /\ pc[n] \in {"killing", "cleaning", "unlinking", "leaving"} => stop[n] # "running"
              /\ stop[n] = "handedoff" => Committed(n)
(* Old refuses spawns from the first step of a handoff to the last. *)
IRefuse == \A n \in Hosts : hand[n] \in Giving /\ Async(peer[n]) => handingOff[peer[n]]
(* A host that accepts spawns is the one clients find. *)
IAccepts == \A g \in Hosts : pc[g] = "serving" /\ ~handingOff[g] => sock \in {g, NoHost}
(* Until the commit old alone may accept spawns, from then on nobody does    *)
(* before the successor serves.                                              *)
IAlone == \A n, g \in Hosts :
            pc[g] = "serving" /\ ~handingOff[g] =>
              /\ Early(n) => g = peer[n]
              /\ ~(n \in rel /\ pc[n] \in {"acked", "starting"})
(* A host whose successor served is not behind the socket again, so nobody   *)
(* takes over from it.                                                       *)
IMoved == \A n \in rel : ino[n] # NoHost => sock # peer[n]
IFirst == \A n \in Hosts : Early(n) => ~Went(peer[n])
(* What is handed over, or dropped on the way, is what old has. *)
IPend == \A n \in Hosts :
           hand[n] \in {"freezing", "sent", "releasing"} /\ Succ(n) /\ Up(peer[n])
           => (pend[n] \cup unadopted[n]) \ signalled = panes[peer[n]] \ signalled

Control == /\ IAck /\ IServes /\ IStopped /\ IRefuse /\ IAccepts /\ IAlone
           /\ IMoved /\ IFirst /\ IPend
ControlInv == OneReaderInv /\ Control

LEMMA InitControl == Init => Control
  BY HandoffAssumption
     DEF Init, Control, IAck, IServes, IStopped, IRefuse, IAccepts, IAlone, IMoved, IFirst, IPend,
         Went, Early, Giving, Committed, Up, Async, Succ, Busy, PreCommit


LEMMA KeepsIAck ==
  ASSUME Overlap = "none", OneReaderInv, Control, Next
  PROVE  IAck'
<1> USE HandoffAssumption DEF OneReaderInv, Exclusive, Control, TypeOK, IAck, IRel, Up, Async, Closed
<1>1. ASSUME NEW h \in Hosts, NEW p \in Panes, Spawn(h, p) \/ KillPane(h, p) \/ ReaderNext(h, p) PROVE IAck'
  <2>1. CASE Spawn(h, p) BY <2>1 DEF Spawn
  <2>2. CASE KillPane(h, p) BY <2>2 DEF KillPane
  <2>3. CASE PollFrozen(h, p) BY <2>3 DEF PollFrozen, SetReader
  <2>4. CASE PollData(h, p) BY <2>4 DEF PollData, SetReader
  <2>5. CASE PollEof(h, p) BY <2>5 DEF PollEof, SetReader
  <2>6. CASE Ingest(h, p) BY <2>6 DEF Ingest, SetReader
  <2> QED BY <1>1, <2>1, <2>2, <2>3, <2>4, <2>5, <2>6 DEF ReaderNext
<1>2. ASSUME NEW p \in Panes, Emit(p) \/ Dies(p) PROVE IAck'
  <2>1. CASE Emit(p) BY <2>1 DEF Emit
  <2>2. CASE Dies(p) BY <2>2 DEF Dies
  <2> QED BY <1>2, <2>1, <2>2
<1>3. ASSUME NEW n \in Hosts, OldNext(n) PROVE IAck'
  <2>1. CASE OldBegin(n) BY <2>1 DEF OldBegin
  <2>2. CASE OldFreeze(n) BY <2>2 DEF OldFreeze
  <2>3. CASE OldSend(n) BY <2>3 DEF OldSend, ReadersStopped
  <2>4. CASE OldBail(n) BY <2>4 DEF OldBail, HandTo
  <2>5. CASE OldReadAck(n) BY <2>5 DEF OldReadAck, HandTo
  <2>6. CASE OldRelease(n) BY <2>6 DEF OldRelease
  <2>7. CASE OldReleaseFails(n) BY <2>7 DEF OldReleaseFails, HandTo
  <2>8. CASE OldUnfreeze(n) BY <2>8 DEF OldUnfreeze, HandTo
  <2>9. CASE OldRestart(n) BY <2>9 DEF OldRestart
  <2>10. CASE OldAbort(n) BY <2>10 DEF OldAbort, HandTo
  <2>11. CASE OldStop(n) BY <2>11 DEF OldStop, Stopped
  <2> QED BY <1>3, <2>1, <2>2, <2>3, <2>4, <2>5, <2>6, <2>7, <2>8, <2>9, <2>10, <2>11 DEF OldNext
<1>4. ASSUME NEW n \in Hosts, NewNext(n) \/ NewFail(n) \/ Connect(n) PROVE IAck'
  <2>1. CASE Bind(n) BY <2>1 DEF Bind, PcTo
  <2>2. CASE NewAck(n) BY <2>2 DEF NewAck, PcTo
  <2>3. CASE NewGiveUp(n) BY <2>3 DEF NewGiveUp, PcTo
  <2>4. CASE Quit(n) BY <2>4 DEF Quit, Gone, PcTo
  <2>5. CASE NewStart(n) BY <2>5 DEF NewStart, PcTo
  <2>6. CASE NewRename(n) BY <2>6 DEF NewRename, PcTo
  <2>7. CASE NewRenameFails(n) BY <2>7 DEF NewRenameFails, PcTo
  <2>8. CASE NewFail(n) BY <2>8 DEF NewFail, PcTo
  <2>9. CASE Connect(n) BY <2>9 DEF Connect, PcTo, MayStart, Quiet, NewQuiet
  <2> QED BY <1>4, <2>1, <2>2, <2>3, <2>4, <2>5, <2>6, <2>7, <2>8, <2>9 DEF NewNext
<1>5. ASSUME NEW h \in Hosts, ServeNext(h) \/ Fresh(h) \/ Term(h) \/ Crash(h) PROVE IAck'
  <2>1. CASE ServeBreak(h) BY <2>1 DEF ServeBreak, PcTo
  <2>2. CASE KillAll(h) BY <2>2 DEF KillAll, PcTo
  <2>3. CASE CheckInode(h) BY <2>3 DEF CheckInode, PcTo
  <2>4. CASE Unlink(h) BY <2>4 DEF Unlink, PcTo
  <2>5. CASE Exit(h) BY <2>5 DEF Exit, Gone, PcTo
  <2>6. CASE Fresh(h) BY <2>6 DEF Fresh, PcTo
  <2>7. CASE Term(h) BY <2>7 DEF Term, Stopped
  <2>8. CASE Crash(h) BY <2>8 DEF Crash, Gone, PcTo
  <2> QED BY <1>5, <2>1, <2>2, <2>3, <2>4, <2>5, <2>6, <2>7, <2>8 DEF ServeNext
<1> QED BY <1>1, <1>2, <1>3, <1>4, <1>5 DEF Next

LEMMA KeepsIServes ==
  ASSUME Overlap = "none", OneReaderInv, Control, Next
  PROVE  IServes'
<1> USE HandoffAssumption DEF OneReaderInv, Exclusive, Control, TypeOK, IServes, IRel, IUnspawned, INext, NotYet, Up, Async, Closed, Succ
<1>1. ASSUME NEW h \in Hosts, NEW p \in Panes, Spawn(h, p) \/ KillPane(h, p) \/ ReaderNext(h, p) PROVE IServes'
  <2>1. CASE Spawn(h, p) BY <2>1 DEF Spawn
  <2>2. CASE KillPane(h, p) BY <2>2 DEF KillPane
  <2>3. CASE PollFrozen(h, p) BY <2>3 DEF PollFrozen, SetReader
  <2>4. CASE PollData(h, p) BY <2>4 DEF PollData, SetReader
  <2>5. CASE PollEof(h, p) BY <2>5 DEF PollEof, SetReader
  <2>6. CASE Ingest(h, p) BY <2>6 DEF Ingest, SetReader
  <2> QED BY <1>1, <2>1, <2>2, <2>3, <2>4, <2>5, <2>6 DEF ReaderNext
<1>2. ASSUME NEW p \in Panes, Emit(p) \/ Dies(p) PROVE IServes'
  <2>1. CASE Emit(p) BY <2>1 DEF Emit
  <2>2. CASE Dies(p) BY <2>2 DEF Dies
  <2> QED BY <1>2, <2>1, <2>2
<1>3. ASSUME NEW n \in Hosts, OldNext(n) PROVE IServes'
  <2>1. CASE OldBegin(n) BY <2>1 DEF OldBegin
  <2>2. CASE OldFreeze(n) BY ZenonT(60), <2>2 DEF OldFreeze, IAck
  <2>3. CASE OldSend(n) BY <2>3 DEF OldSend, ReadersStopped
  <2>4. CASE OldBail(n) BY <2>4 DEF OldBail, HandTo
  <2>5. CASE OldReadAck(n) BY <2>5 DEF OldReadAck, HandTo
  <2>6. CASE OldRelease(n) BY <2>6 DEF OldRelease
  <2>7. CASE OldReleaseFails(n) BY <2>7 DEF OldReleaseFails, HandTo
  <2>8. CASE OldUnfreeze(n) BY <2>8 DEF OldUnfreeze, HandTo
  <2>9. CASE OldRestart(n) BY <2>9 DEF OldRestart
  <2>10. CASE OldAbort(n) BY <2>10 DEF OldAbort, HandTo
  <2>11. CASE OldStop(n) BY <2>11 DEF OldStop, Stopped
  <2> QED BY <1>3, <2>1, <2>2, <2>3, <2>4, <2>5, <2>6, <2>7, <2>8, <2>9, <2>10, <2>11 DEF OldNext
<1>4. ASSUME NEW n \in Hosts, NewNext(n) \/ NewFail(n) \/ Connect(n) PROVE IServes'
  <2>1. CASE Bind(n) BY <2>1 DEF Bind, PcTo
  <2>2. CASE NewAck(n) BY <2>2 DEF NewAck, PcTo
  <2>3. CASE NewGiveUp(n) BY <2>3 DEF NewGiveUp, PcTo
  <2>4. CASE Quit(n) BY <2>4 DEF Quit, Gone, PcTo
  <2>5. CASE NewStart(n) BY <2>5 DEF NewStart, PcTo
  <2>6. CASE NewRename(n) BY <2>6 DEF NewRename, PcTo
  <2>7. CASE NewRenameFails(n) BY <2>7 DEF NewRenameFails, PcTo
  <2>8. CASE NewFail(n) BY <2>8 DEF NewFail, PcTo
  <2>9. CASE Connect(n) BY <2>9 DEF Connect, PcTo, MayStart, Quiet, NewQuiet
  <2> QED BY <1>4, <2>1, <2>2, <2>3, <2>4, <2>5, <2>6, <2>7, <2>8, <2>9 DEF NewNext
<1>5. ASSUME NEW h \in Hosts, ServeNext(h) \/ Fresh(h) \/ Term(h) \/ Crash(h) PROVE IServes'
  <2>1. CASE ServeBreak(h) BY <2>1 DEF ServeBreak, PcTo
  <2>2. CASE KillAll(h) BY <2>2 DEF KillAll, PcTo
  <2>3. CASE CheckInode(h) BY <2>3 DEF CheckInode, PcTo
  <2>4. CASE Unlink(h) BY <2>4 DEF Unlink, PcTo
  <2>5. CASE Exit(h) BY <2>5 DEF Exit, Gone, PcTo
  <2>6. CASE Fresh(h) BY <2>6 DEF Fresh, PcTo
  <2>7. CASE Term(h) BY <2>7 DEF Term, Stopped
  <2>8. CASE Crash(h) BY <2>8 DEF Crash, Gone, PcTo
  <2> QED BY <1>5, <2>1, <2>2, <2>3, <2>4, <2>5, <2>6, <2>7, <2>8 DEF ServeNext
<1> QED BY <1>1, <1>2, <1>3, <1>4, <1>5 DEF Next

LEMMA KeepsIStopped ==
  ASSUME Overlap = "none", OneReaderInv, Control, Next
  PROVE  IStopped'
<1> USE HandoffAssumption DEF OneReaderInv, Exclusive, Control, TypeOK, IStopped, IAck, Committed, Async
<1>1. ASSUME NEW h \in Hosts, NEW p \in Panes, Spawn(h, p) \/ KillPane(h, p) \/ ReaderNext(h, p) PROVE IStopped'
  <2>1. CASE Spawn(h, p) BY <2>1 DEF Spawn
  <2>2. CASE KillPane(h, p) BY <2>2 DEF KillPane
  <2>3. CASE PollFrozen(h, p) BY <2>3 DEF PollFrozen, SetReader
  <2>4. CASE PollData(h, p) BY <2>4 DEF PollData, SetReader
  <2>5. CASE PollEof(h, p) BY <2>5 DEF PollEof, SetReader
  <2>6. CASE Ingest(h, p) BY <2>6 DEF Ingest, SetReader
  <2> QED BY <1>1, <2>1, <2>2, <2>3, <2>4, <2>5, <2>6 DEF ReaderNext
<1>2. ASSUME NEW p \in Panes, Emit(p) \/ Dies(p) PROVE IStopped'
  <2>1. CASE Emit(p) BY <2>1 DEF Emit
  <2>2. CASE Dies(p) BY <2>2 DEF Dies
  <2> QED BY <1>2, <2>1, <2>2
<1>3. ASSUME NEW n \in Hosts, OldNext(n) PROVE IStopped'
  <2>1. CASE OldBegin(n) BY <2>1 DEF OldBegin
  <2>2. CASE OldFreeze(n) BY <2>2 DEF OldFreeze
  <2>3. CASE OldSend(n) BY <2>3 DEF OldSend, ReadersStopped
  <2>4. CASE OldBail(n) BY <2>4 DEF OldBail, HandTo
  <2>5. CASE OldReadAck(n) BY <2>5 DEF OldReadAck, HandTo
  <2>6. CASE OldRelease(n) BY <2>6 DEF OldRelease
  <2>7. CASE OldReleaseFails(n) BY <2>7 DEF OldReleaseFails, HandTo
  <2>8. CASE OldUnfreeze(n) BY <2>8 DEF OldUnfreeze, HandTo
  <2>9. CASE OldRestart(n) BY <2>9 DEF OldRestart
  <2>10. CASE OldAbort(n) BY <2>10 DEF OldAbort, HandTo
  <2>11. CASE OldStop(n) BY <2>11 DEF OldStop, Stopped
  <2> QED BY <1>3, <2>1, <2>2, <2>3, <2>4, <2>5, <2>6, <2>7, <2>8, <2>9, <2>10, <2>11 DEF OldNext
<1>4. ASSUME NEW n \in Hosts, NewNext(n) \/ NewFail(n) \/ Connect(n) PROVE IStopped'
  <2>1. CASE Bind(n) BY <2>1 DEF Bind, PcTo
  <2>2. CASE NewAck(n) BY <2>2 DEF NewAck, PcTo
  <2>3. CASE NewGiveUp(n) BY <2>3 DEF NewGiveUp, PcTo
  <2>4. CASE Quit(n) BY <2>4 DEF Quit, Gone, PcTo
  <2>5. CASE NewStart(n) BY <2>5 DEF NewStart, PcTo
  <2>6. CASE NewRename(n) BY <2>6 DEF NewRename, PcTo
  <2>7. CASE NewRenameFails(n) BY <2>7 DEF NewRenameFails, PcTo
  <2>8. CASE NewFail(n) BY <2>8 DEF NewFail, PcTo
  <2>9. CASE Connect(n) BY <2>9 DEF Connect, PcTo, MayStart, Quiet, NewQuiet
  <2> QED BY <1>4, <2>1, <2>2, <2>3, <2>4, <2>5, <2>6, <2>7, <2>8, <2>9 DEF NewNext
<1>5. ASSUME NEW h \in Hosts, ServeNext(h) \/ Fresh(h) \/ Term(h) \/ Crash(h) PROVE IStopped'
  <2>1. CASE ServeBreak(h) BY <2>1 DEF ServeBreak, PcTo
  <2>2. CASE KillAll(h) BY <2>2 DEF KillAll, PcTo
  <2>3. CASE CheckInode(h) BY <2>3 DEF CheckInode, PcTo
  <2>4. CASE Unlink(h) BY <2>4 DEF Unlink, PcTo
  <2>5. CASE Exit(h) BY <2>5 DEF Exit, Gone, PcTo
  <2>6. CASE Fresh(h) BY <2>6 DEF Fresh, PcTo
  <2>7. CASE Term(h) BY <2>7 DEF Term, Stopped
  <2>8. CASE Crash(h) BY <2>8 DEF Crash, Gone, PcTo
  <2> QED BY <1>5, <2>1, <2>2, <2>3, <2>4, <2>5, <2>6, <2>7, <2>8 DEF ServeNext
<1> QED BY <1>1, <1>2, <1>3, <1>4, <1>5 DEF Next

LEMMA KeepsIRefuse ==
  ASSUME Overlap = "none", OneReaderInv, Control, Next
  PROVE  IRefuse'
<1> USE HandoffAssumption DEF OneReaderInv, Exclusive, Control, TypeOK, IRefuse, NotYet, Succ, Async, Giving
<1>1. ASSUME NEW h \in Hosts, NEW p \in Panes, Spawn(h, p) \/ KillPane(h, p) \/ ReaderNext(h, p) PROVE IRefuse'
  <2>1. CASE Spawn(h, p) BY <2>1 DEF Spawn
  <2>2. CASE KillPane(h, p) BY <2>2 DEF KillPane
  <2>3. CASE PollFrozen(h, p) BY <2>3 DEF PollFrozen, SetReader
  <2>4. CASE PollData(h, p) BY <2>4 DEF PollData, SetReader
  <2>5. CASE PollEof(h, p) BY <2>5 DEF PollEof, SetReader
  <2>6. CASE Ingest(h, p) BY <2>6 DEF Ingest, SetReader
  <2> QED BY <1>1, <2>1, <2>2, <2>3, <2>4, <2>5, <2>6 DEF ReaderNext
<1>2. ASSUME NEW p \in Panes, Emit(p) \/ Dies(p) PROVE IRefuse'
  <2>1. CASE Emit(p) BY <2>1 DEF Emit
  <2>2. CASE Dies(p) BY <2>2 DEF Dies
  <2> QED BY <1>2, <2>1, <2>2
<1>3. ASSUME NEW n \in Hosts, OldNext(n) PROVE IRefuse'
  <2>1. CASE OldBegin(n) BY <2>1 DEF OldBegin
  <2>2. CASE OldFreeze(n) BY <2>2 DEF OldFreeze
  <2>3. CASE OldSend(n) BY <2>3 DEF OldSend, ReadersStopped
  <2>4. CASE OldBail(n) BY <2>4 DEF OldBail, HandTo
  <2>5. CASE OldReadAck(n) BY <2>5 DEF OldReadAck, HandTo
  <2>6. CASE OldRelease(n) BY <2>6 DEF OldRelease
  <2>7. CASE OldReleaseFails(n) BY <2>7 DEF OldReleaseFails, HandTo
  <2>8. CASE OldUnfreeze(n) BY <2>8 DEF OldUnfreeze, HandTo
  <2>9. CASE OldRestart(n) BY <2>9 DEF OldRestart
  <2>10. CASE OldAbort(n) BY <2>10 DEF OldAbort, HandTo, IBusy, Busy
  <2>11. CASE OldStop(n) BY <2>11 DEF OldStop, Stopped
  <2> QED BY <1>3, <2>1, <2>2, <2>3, <2>4, <2>5, <2>6, <2>7, <2>8, <2>9, <2>10, <2>11 DEF OldNext
<1>4. ASSUME NEW n \in Hosts, NewNext(n) \/ NewFail(n) \/ Connect(n) PROVE IRefuse'
  <2>1. CASE Bind(n) BY <2>1 DEF Bind, PcTo
  <2>2. CASE NewAck(n) BY <2>2 DEF NewAck, PcTo
  <2>3. CASE NewGiveUp(n) BY <2>3 DEF NewGiveUp, PcTo
  <2>4. CASE Quit(n) BY <2>4 DEF Quit, Gone, PcTo
  <2>5. CASE NewStart(n) BY <2>5 DEF NewStart, PcTo
  <2>6. CASE NewRename(n)
    <3>1. \A m \in Hosts : Succ(m) \/ hand[m] # "none" => peer[m] # n
      BY <2>6 DEF NewRename, PcTo, IPeer, NotYet, Succ
    <3> QED BY <2>6, <3>1 DEF NewRename, PcTo
  <2>7. CASE NewRenameFails(n) BY <2>7 DEF NewRenameFails, PcTo
  <2>8. CASE NewFail(n) BY <2>8 DEF NewFail, PcTo
  <2>9. CASE Connect(n) BY <2>9 DEF Connect, PcTo, MayStart, Quiet, NewQuiet, IRel
  <2> QED BY <1>4, <2>1, <2>2, <2>3, <2>4, <2>5, <2>6, <2>7, <2>8, <2>9 DEF NewNext
<1>5. ASSUME NEW h \in Hosts, ServeNext(h) \/ Fresh(h) \/ Term(h) \/ Crash(h) PROVE IRefuse'
  <2>1. CASE ServeBreak(h) BY <2>1 DEF ServeBreak, PcTo
  <2>2. CASE KillAll(h) BY <2>2 DEF KillAll, PcTo
  <2>3. CASE CheckInode(h) BY <2>3 DEF CheckInode, PcTo
  <2>4. CASE Unlink(h) BY <2>4 DEF Unlink, PcTo
  <2>5. CASE Exit(h) BY <2>5 DEF Exit, Gone, PcTo
  <2>6. CASE Fresh(h)
    <3>1. \A m \in Hosts : Succ(m) \/ hand[m] # "none" => peer[m] # h
      BY <2>6 DEF Fresh, PcTo, IPeer, NotYet, Succ
    <3> QED BY <2>6, <3>1 DEF Fresh, PcTo
  <2>7. CASE Term(h) BY <2>7 DEF Term, Stopped
  <2>8. CASE Crash(h) BY <2>8 DEF Crash, Gone, PcTo
  <2> QED BY <1>5, <2>1, <2>2, <2>3, <2>4, <2>5, <2>6, <2>7, <2>8 DEF ServeNext
<1> QED BY <1>1, <1>2, <1>3, <1>4, <1>5 DEF Next

LEMMA KeepsIAccepts ==
  ASSUME Overlap = "none", OneReaderInv, Control, Next
  PROVE  IAccepts'
<1> USE HandoffAssumption DEF OneReaderInv, Exclusive, Control, TypeOK, Up, Async, Closed, Succ, Busy, PreCommit, IAccepts
<1>1. ASSUME NEW h \in Hosts, NEW p \in Panes, Spawn(h, p) \/ KillPane(h, p) \/ ReaderNext(h, p) PROVE IAccepts'
  <2>1. CASE Spawn(h, p) BY <2>1 DEF Spawn
  <2>2. CASE KillPane(h, p) BY <2>2 DEF KillPane
  <2>3. CASE PollFrozen(h, p) BY <2>3 DEF PollFrozen, SetReader
  <2>4. CASE PollData(h, p) BY <2>4 DEF PollData, SetReader
  <2>5. CASE PollEof(h, p) BY <2>5 DEF PollEof, SetReader
  <2>6. CASE Ingest(h, p) BY <2>6 DEF Ingest, SetReader
  <2> QED BY <1>1, <2>1, <2>2, <2>3, <2>4, <2>5, <2>6 DEF ReaderNext
<1>2. ASSUME NEW p \in Panes, Emit(p) \/ Dies(p) PROVE IAccepts'
  <2>1. CASE Emit(p) BY <2>1 DEF Emit
  <2>2. CASE Dies(p) BY <2>2 DEF Dies
  <2> QED BY <1>2, <2>1, <2>2
<1>3. ASSUME NEW n \in Hosts, OldNext(n) PROVE IAccepts'
  <2>1. CASE OldBegin(n) BY <2>1 DEF OldBegin
  <2>2. CASE OldFreeze(n) BY <2>2 DEF OldFreeze
  <2>3. CASE OldSend(n) BY <2>3 DEF OldSend, ReadersStopped
  <2>4. CASE OldBail(n) BY <2>4 DEF OldBail, HandTo
  <2>5. CASE OldReadAck(n) BY <2>5 DEF OldReadAck, HandTo
  <2>6. CASE OldRelease(n) BY <2>6 DEF OldRelease
  <2>7. CASE OldReleaseFails(n) BY <2>7 DEF OldReleaseFails, HandTo
  <2>8. CASE OldUnfreeze(n) BY <2>8 DEF OldUnfreeze, HandTo
  <2>9. CASE OldRestart(n) BY <2>9 DEF OldRestart
  <2>10. CASE OldAbort(n) BY <2>10 DEF OldAbort, HandTo, ISock, IRel
  <2>11. CASE OldStop(n) BY <2>11 DEF OldStop, Stopped
  <2> QED BY <1>3, <2>1, <2>2, <2>3, <2>4, <2>5, <2>6, <2>7, <2>8, <2>9, <2>10, <2>11 DEF OldNext
<1>4. ASSUME NEW n \in Hosts, NewNext(n) \/ NewFail(n) \/ Connect(n) PROVE IAccepts'
  <2>1. CASE Bind(n) BY <2>1 DEF Bind, PcTo
  <2>2. CASE NewAck(n) BY <2>2 DEF NewAck, PcTo
  <2>3. CASE NewGiveUp(n) BY <2>3 DEF NewGiveUp, PcTo
  <2>4. CASE Quit(n) BY <2>4 DEF Quit, Gone, PcTo
  <2>5. CASE NewStart(n) BY <2>5 DEF NewStart, PcTo
  <2>6. CASE NewRename(n) BY <2>6 DEF NewRename, PcTo, IAlone, INext, IRel
  <2>7. CASE NewRenameFails(n) BY <2>7 DEF NewRenameFails, PcTo
  <2>8. CASE NewFail(n) BY <2>8 DEF NewFail, PcTo
  <2>9. CASE Connect(n) BY <2>9 DEF Connect, PcTo, MayStart, Quiet, NewQuiet
  <2> QED BY <1>4, <2>1, <2>2, <2>3, <2>4, <2>5, <2>6, <2>7, <2>8, <2>9 DEF NewNext
<1>5. ASSUME NEW h \in Hosts, ServeNext(h) \/ Fresh(h) \/ Term(h) \/ Crash(h) PROVE IAccepts'
  <2>1. CASE ServeBreak(h) BY <2>1 DEF ServeBreak, PcTo
  <2>2. CASE KillAll(h) BY <2>2 DEF KillAll, PcTo
  <2>3. CASE CheckInode(h) BY <2>3 DEF CheckInode, PcTo
  <2>4. CASE Unlink(h) BY <2>4 DEF Unlink, PcTo
  <2>5. CASE Exit(h) BY <2>5 DEF Exit, Gone, PcTo
  <2>6. CASE Fresh(h) BY <2>6 DEF Fresh, PcTo, HoldsLock
  <2>7. CASE Term(h) BY <2>7 DEF Term, Stopped
  <2>8. CASE Crash(h) BY <2>8 DEF Crash, Gone, PcTo
  <2> QED BY <1>5, <2>1, <2>2, <2>3, <2>4, <2>5, <2>6, <2>7, <2>8 DEF ServeNext
<1> QED BY <1>1, <1>2, <1>3, <1>4, <1>5 DEF Next

LEMMA KeepsIAlone ==
  ASSUME Overlap = "none", OneReaderInv, Control, Next
  PROVE  IAlone'
<1> USE HandoffAssumption DEF OneReaderInv, Exclusive, Control, TypeOK, Up, Async, Closed, Succ, Busy, PreCommit, IAlone, Early
<1>1. ASSUME NEW h \in Hosts, NEW p \in Panes, Spawn(h, p) \/ KillPane(h, p) \/ ReaderNext(h, p) PROVE IAlone'
  <2>1. CASE Spawn(h, p) BY <2>1 DEF Spawn
  <2>2. CASE KillPane(h, p) BY <2>2 DEF KillPane
  <2>3. CASE PollFrozen(h, p) BY <2>3 DEF PollFrozen, SetReader
  <2>4. CASE PollData(h, p) BY <2>4 DEF PollData, SetReader
  <2>5. CASE PollEof(h, p) BY <2>5 DEF PollEof, SetReader
  <2>6. CASE Ingest(h, p) BY <2>6 DEF Ingest, SetReader
  <2> QED BY <1>1, <2>1, <2>2, <2>3, <2>4, <2>5, <2>6 DEF ReaderNext
<1>2. ASSUME NEW p \in Panes, Emit(p) \/ Dies(p) PROVE IAlone'
  <2>1. CASE Emit(p) BY <2>1 DEF Emit
  <2>2. CASE Dies(p) BY <2>2 DEF Dies
  <2> QED BY <1>2, <2>1, <2>2
<1>3. ASSUME NEW n \in Hosts, OldNext(n) PROVE IAlone'
  <2>1. CASE OldBegin(n) BY <2>1 DEF OldBegin
  <2>2. CASE OldFreeze(n) BY <2>2 DEF OldFreeze
  <2>3. CASE OldSend(n) BY <2>3 DEF OldSend, ReadersStopped
  <2>4. CASE OldBail(n) BY <2>4 DEF OldBail, HandTo
  <2>5. CASE OldReadAck(n) BY <2>5 DEF OldReadAck, HandTo
  <2>6. CASE OldRelease(n) BY <2>6 DEF OldRelease, IRefuse, Giving, IAck
  <2>7. CASE OldReleaseFails(n) BY <2>7 DEF OldReleaseFails, HandTo
  <2>8. CASE OldUnfreeze(n) BY <2>8 DEF OldUnfreeze, HandTo
  <2>9. CASE OldRestart(n) BY <2>9 DEF OldRestart
  <2>10. CASE OldAbort(n) BY ZenonT(60), <2>10 DEF OldAbort, HandTo, IBusy, IRel
  <2>11. CASE OldStop(n) BY <2>11 DEF OldStop, Stopped
  <2> QED BY <1>3, <2>1, <2>2, <2>3, <2>4, <2>5, <2>6, <2>7, <2>8, <2>9, <2>10, <2>11 DEF OldNext
<1>4. ASSUME NEW n \in Hosts, NewNext(n) \/ NewFail(n) \/ Connect(n) PROVE IAlone'
  <2>1. CASE Bind(n) BY <2>1 DEF Bind, PcTo
  <2>2. CASE NewAck(n) BY <2>2 DEF NewAck, PcTo, IAck
  <2>3. CASE NewGiveUp(n) BY <2>3 DEF NewGiveUp, PcTo
  <2>4. CASE Quit(n) BY <2>4 DEF Quit, Gone, PcTo
  <2>5. CASE NewStart(n) BY <2>5 DEF NewStart, PcTo
  <2>6. CASE NewRename(n) BY <2>6 DEF NewRename, PcTo, IBusy, IRel
  <2>7. CASE NewRenameFails(n) BY <2>7 DEF NewRenameFails, PcTo
  <2>8. CASE NewFail(n) BY <2>8 DEF NewFail, PcTo
  <2>9. CASE Connect(n) BY <2>9 DEF Connect, PcTo, MayStart, Quiet, NewQuiet, IAccepts, IRel
  <2> QED BY <1>4, <2>1, <2>2, <2>3, <2>4, <2>5, <2>6, <2>7, <2>8, <2>9 DEF NewNext
<1>5. ASSUME NEW h \in Hosts, ServeNext(h) \/ Fresh(h) \/ Term(h) \/ Crash(h) PROVE IAlone'
  <2>1. CASE ServeBreak(h) BY <2>1 DEF ServeBreak, PcTo
  <2>2. CASE KillAll(h) BY <2>2 DEF KillAll, PcTo
  <2>3. CASE CheckInode(h) BY <2>3 DEF CheckInode, PcTo
  <2>4. CASE Unlink(h) BY <2>4 DEF Unlink, PcTo
  <2>5. CASE Exit(h) BY <2>5 DEF Exit, Gone, PcTo
  <2>6. CASE Fresh(h)
    <3>1. \A g \in Hosts : pc[g] \notin {"serving", "killing", "cleaning", "unlinking", "leaving", "starting"}
      BY <2>6 DEF Fresh, HoldsLock
    <3>2. \A m \in Hosts : Succ(m) \/ hand[m] # "none" => peer[m] # h /\ ~Up(peer[m])
      BY <2>6, <3>1 DEF Fresh, IPeer, NotYet, PC
    <3>3. \A m \in Hosts : ~(m \in rel /\ pc[m] = "acked")
      BY <2>6 DEF Fresh, HoldsLock, IAck
    <3> QED BY <2>6, <3>1, <3>2, <3>3 DEF Fresh, PcTo
  <2>7. CASE Term(h) BY <2>7 DEF Term, Stopped
  <2>8. CASE Crash(h) BY <2>8 DEF Crash, Gone, PcTo
  <2> QED BY <1>5, <2>1, <2>2, <2>3, <2>4, <2>5, <2>6, <2>7, <2>8 DEF ServeNext
<1> QED BY <1>1, <1>2, <1>3, <1>4, <1>5 DEF Next

LEMMA KeepsIMoved ==
  ASSUME Overlap = "none", OneReaderInv, Control, Next
  PROVE  IMoved'
<1> USE HandoffAssumption DEF OneReaderInv, Exclusive, Control, TypeOK, Up, Async, Closed, Succ, Busy, PreCommit, IMoved
<1>1. ASSUME NEW h \in Hosts, NEW p \in Panes, Spawn(h, p) \/ KillPane(h, p) \/ ReaderNext(h, p) PROVE IMoved'
  <2>1. CASE Spawn(h, p) BY <2>1 DEF Spawn
  <2>2. CASE KillPane(h, p) BY <2>2 DEF KillPane
  <2>3. CASE PollFrozen(h, p) BY <2>3 DEF PollFrozen, SetReader
  <2>4. CASE PollData(h, p) BY <2>4 DEF PollData, SetReader
  <2>5. CASE PollEof(h, p) BY <2>5 DEF PollEof, SetReader
  <2>6. CASE Ingest(h, p) BY <2>6 DEF Ingest, SetReader
  <2> QED BY <1>1, <2>1, <2>2, <2>3, <2>4, <2>5, <2>6 DEF ReaderNext
<1>2. ASSUME NEW p \in Panes, Emit(p) \/ Dies(p) PROVE IMoved'
  <2>1. CASE Emit(p) BY <2>1 DEF Emit
  <2>2. CASE Dies(p) BY <2>2 DEF Dies
  <2> QED BY <1>2, <2>1, <2>2
<1>3. ASSUME NEW n \in Hosts, OldNext(n) PROVE IMoved'
  <2>1. CASE OldBegin(n) BY <2>1 DEF OldBegin
  <2>2. CASE OldFreeze(n) BY <2>2 DEF OldFreeze
  <2>3. CASE OldSend(n) BY <2>3 DEF OldSend, ReadersStopped
  <2>4. CASE OldBail(n) BY <2>4 DEF OldBail, HandTo
  <2>5. CASE OldReadAck(n) BY <2>5 DEF OldReadAck, HandTo
  <2>6. CASE OldRelease(n) BY <2>6 DEF OldRelease, IAck, IServes
  <2>7. CASE OldReleaseFails(n) BY <2>7 DEF OldReleaseFails, HandTo
  <2>8. CASE OldUnfreeze(n) BY <2>8 DEF OldUnfreeze, HandTo
  <2>9. CASE OldRestart(n) BY <2>9 DEF OldRestart
  <2>10. CASE OldAbort(n) BY <2>10 DEF OldAbort, HandTo
  <2>11. CASE OldStop(n) BY <2>11 DEF OldStop, Stopped
  <2> QED BY <1>3, <2>1, <2>2, <2>3, <2>4, <2>5, <2>6, <2>7, <2>8, <2>9, <2>10, <2>11 DEF OldNext
<1>4. ASSUME NEW n \in Hosts, NewNext(n) \/ NewFail(n) \/ Connect(n) PROVE IMoved'
  <2>1. CASE Bind(n) BY <2>1 DEF Bind, PcTo
  <2>2. CASE NewAck(n) BY <2>2 DEF NewAck, PcTo
  <2>3. CASE NewGiveUp(n) BY <2>3 DEF NewGiveUp, PcTo
  <2>4. CASE Quit(n) BY <2>4 DEF Quit, Gone, PcTo
  <2>5. CASE NewStart(n) BY <2>5 DEF NewStart, PcTo
  <2>6. CASE NewRename(n)
    <3>1. \A m \in Hosts : Succ(m) \/ hand[m] # "none" => peer[m] # n
      BY <2>6 DEF NewRename, PcTo, IPeer, NotYet, Succ
    <3> QED BY <2>6, <3>1 DEF NewRename, PcTo, INext, IRel
  <2>7. CASE NewRenameFails(n) BY <2>7 DEF NewRenameFails, PcTo
  <2>8. CASE NewFail(n) BY <2>8 DEF NewFail, PcTo
  <2>9. CASE Connect(n) BY <2>9 DEF Connect, PcTo, MayStart, Quiet, NewQuiet, IAck
  <2> QED BY <1>4, <2>1, <2>2, <2>3, <2>4, <2>5, <2>6, <2>7, <2>8, <2>9 DEF NewNext
<1>5. ASSUME NEW h \in Hosts, ServeNext(h) \/ Fresh(h) \/ Term(h) \/ Crash(h) PROVE IMoved'
  <2>1. CASE ServeBreak(h) BY <2>1 DEF ServeBreak, PcTo
  <2>2. CASE KillAll(h) BY <2>2 DEF KillAll, PcTo
  <2>3. CASE CheckInode(h) BY <2>3 DEF CheckInode, PcTo
  <2>4. CASE Unlink(h) BY <2>4 DEF Unlink, PcTo
  <2>5. CASE Exit(h) BY <2>5 DEF Exit, Gone, PcTo
  <2>6. CASE Fresh(h)
    <3>1. \A m \in Hosts : Succ(m) \/ hand[m] # "none" => peer[m] # h
      BY <2>6 DEF Fresh, PcTo, IPeer, NotYet, Succ
    <3> QED BY <2>6, <3>1 DEF Fresh, PcTo, IRel, IAck
  <2>7. CASE Term(h) BY <2>7 DEF Term, Stopped
  <2>8. CASE Crash(h) BY <2>8 DEF Crash, Gone, PcTo
  <2> QED BY <1>5, <2>1, <2>2, <2>3, <2>4, <2>5, <2>6, <2>7, <2>8 DEF ServeNext
<1> QED BY <1>1, <1>2, <1>3, <1>4, <1>5 DEF Next

LEMMA KeepsIFirst ==
  ASSUME Overlap = "none", OneReaderInv, Control, Next
  PROVE  IFirst'
<1> USE HandoffAssumption DEF OneReaderInv, Exclusive, Control, TypeOK, Up, Async, Closed, Succ, Busy, PreCommit, IFirst, Early, Went
<1>1. ASSUME NEW h \in Hosts, NEW p \in Panes, Spawn(h, p) \/ KillPane(h, p) \/ ReaderNext(h, p) PROVE IFirst'
  <2>1. CASE Spawn(h, p) BY <2>1 DEF Spawn
  <2>2. CASE KillPane(h, p) BY <2>2 DEF KillPane
  <2>3. CASE PollFrozen(h, p) BY <2>3 DEF PollFrozen, SetReader
  <2>4. CASE PollData(h, p) BY <2>4 DEF PollData, SetReader
  <2>5. CASE PollEof(h, p) BY <2>5 DEF PollEof, SetReader
  <2>6. CASE Ingest(h, p) BY <2>6 DEF Ingest, SetReader
  <2> QED BY <1>1, <2>1, <2>2, <2>3, <2>4, <2>5, <2>6 DEF ReaderNext
<1>2. ASSUME NEW p \in Panes, Emit(p) \/ Dies(p) PROVE IFirst'
  <2>1. CASE Emit(p) BY <2>1 DEF Emit
  <2>2. CASE Dies(p) BY <2>2 DEF Dies
  <2> QED BY <1>2, <2>1, <2>2
<1>3. ASSUME NEW n \in Hosts, OldNext(n) PROVE IFirst'
  <2>1. CASE OldBegin(n) BY <2>1 DEF OldBegin
  <2>2. CASE OldFreeze(n) BY <2>2 DEF OldFreeze
  <2>3. CASE OldSend(n) BY <2>3 DEF OldSend, ReadersStopped
  <2>4. CASE OldBail(n) BY <2>4 DEF OldBail, HandTo
  <2>5. CASE OldReadAck(n) BY <2>5 DEF OldReadAck, HandTo
  <2>6. CASE OldRelease(n) BY <2>6 DEF OldRelease, IAck, IServes
  <2>7. CASE OldReleaseFails(n) BY <2>7 DEF OldReleaseFails, HandTo
  <2>8. CASE OldUnfreeze(n) BY <2>8 DEF OldUnfreeze, HandTo
  <2>9. CASE OldRestart(n) BY <2>9 DEF OldRestart
  <2>10. CASE OldAbort(n) BY <2>10 DEF OldAbort, HandTo
  <2>11. CASE OldStop(n) BY <2>11 DEF OldStop, Stopped
  <2> QED BY <1>3, <2>1, <2>2, <2>3, <2>4, <2>5, <2>6, <2>7, <2>8, <2>9, <2>10, <2>11 DEF OldNext
<1>4. ASSUME NEW n \in Hosts, NewNext(n) \/ NewFail(n) \/ Connect(n) PROVE IFirst'
  <2>1. CASE Bind(n) BY <2>1 DEF Bind, PcTo
  <2>2. CASE NewAck(n) BY <2>2 DEF NewAck, PcTo
  <2>3. CASE NewGiveUp(n) BY <2>3 DEF NewGiveUp, PcTo
  <2>4. CASE Quit(n) BY <2>4 DEF Quit, Gone, PcTo
  <2>5. CASE NewStart(n) BY <2>5 DEF NewStart, PcTo, IBusy, IRel
  <2>6. CASE NewRename(n)
    <3>1. \A m \in Hosts : Succ(m) \/ hand[m] # "none" => peer[m] # n
      BY <2>6 DEF NewRename, PcTo, IPeer, NotYet, Succ
    <3> QED BY <2>6, <3>1 DEF NewRename, PcTo, IBusy, IRel
  <2>7. CASE NewRenameFails(n) BY <2>7 DEF NewRenameFails, PcTo
  <2>8. CASE NewFail(n) BY <2>8 DEF NewFail, PcTo
  <2>9. CASE Connect(n) BY <2>9 DEF Connect, PcTo, MayStart, Quiet, NewQuiet, IMoved, IRel
  <2> QED BY <1>4, <2>1, <2>2, <2>3, <2>4, <2>5, <2>6, <2>7, <2>8, <2>9 DEF NewNext
<1>5. ASSUME NEW h \in Hosts, ServeNext(h) \/ Fresh(h) \/ Term(h) \/ Crash(h) PROVE IFirst'
  <2>1. CASE ServeBreak(h) BY <2>1 DEF ServeBreak, PcTo
  <2>2. CASE KillAll(h) BY <2>2 DEF KillAll, PcTo
  <2>3. CASE CheckInode(h) BY <2>3 DEF CheckInode, PcTo
  <2>4. CASE Unlink(h) BY <2>4 DEF Unlink, PcTo
  <2>5. CASE Exit(h) BY <2>5 DEF Exit, Gone, PcTo
  <2>6. CASE Fresh(h)
    <3>1. \A m \in Hosts : Succ(m) \/ hand[m] # "none" => peer[m] # h
      BY <2>6 DEF Fresh, PcTo, IPeer, NotYet, Succ
    <3> QED BY <2>6, <3>1 DEF Fresh, PcTo, IAck
  <2>7. CASE Term(h) BY <2>7 DEF Term, Stopped
  <2>8. CASE Crash(h) BY <2>8 DEF Crash, Gone, PcTo
  <2> QED BY <1>5, <2>1, <2>2, <2>3, <2>4, <2>5, <2>6, <2>7, <2>8 DEF ServeNext
<1> QED BY <1>1, <1>2, <1>3, <1>4, <1>5 DEF Next

LEMMA KeepsIPend ==
  ASSUME Overlap = "none", OneReaderInv, Control, Next
  PROVE  IPend'
<1> USE HandoffAssumption DEF OneReaderInv, Exclusive, Control, TypeOK, Up, Async, Closed, Succ, Busy, PreCommit, IPend
<1>1. ASSUME NEW h \in Hosts, NEW p \in Panes, Spawn(h, p) \/ KillPane(h, p) \/ ReaderNext(h, p) PROVE IPend'
  <2>1. CASE Spawn(h, p) BY <2>1 DEF Spawn, IRefuse, Giving
  <2>2. CASE KillPane(h, p) BY <2>2 DEF KillPane
  <2>3. CASE PollFrozen(h, p) BY <2>3 DEF PollFrozen, SetReader
  <2>4. CASE PollData(h, p) BY <2>4 DEF PollData, SetReader
  <2>5. CASE PollEof(h, p) BY <2>5 DEF PollEof, SetReader
  <2>6. CASE Ingest(h, p) BY <2>6 DEF Ingest, SetReader
  <2> QED BY <1>1, <2>1, <2>2, <2>3, <2>4, <2>5, <2>6 DEF ReaderNext
<1>2. ASSUME NEW p \in Panes, Emit(p) \/ Dies(p) PROVE IPend'
  <2>1. CASE Emit(p) BY <2>1 DEF Emit
  <2>2. CASE Dies(p) BY <2>2 DEF Dies
  <2> QED BY <1>2, <2>1, <2>2
<1>3. ASSUME NEW n \in Hosts, OldNext(n) PROVE IPend'
  <2>1. CASE OldBegin(n) BY <2>1 DEF OldBegin
  <2>2. CASE OldFreeze(n) BY <2>2 DEF OldFreeze, IRel, IAck
  <2>3. CASE OldSend(n) BY <2>3 DEF OldSend, ReadersStopped
  <2>4. CASE OldBail(n) BY <2>4 DEF OldBail, HandTo
  <2>5. CASE OldReadAck(n) BY <2>5 DEF OldReadAck, HandTo
  <2>6. CASE OldRelease(n) BY <2>6 DEF OldRelease
  <2>7. CASE OldReleaseFails(n) BY <2>7 DEF OldReleaseFails, HandTo
  <2>8. CASE OldUnfreeze(n) BY <2>8 DEF OldUnfreeze, HandTo
  <2>9. CASE OldRestart(n) BY <2>9 DEF OldRestart
  <2>10. CASE OldAbort(n) BY <2>10 DEF OldAbort, HandTo
  <2>11. CASE OldStop(n) BY <2>11 DEF OldStop, Stopped
  <2> QED BY <1>3, <2>1, <2>2, <2>3, <2>4, <2>5, <2>6, <2>7, <2>8, <2>9, <2>10, <2>11 DEF OldNext
<1>4. ASSUME NEW n \in Hosts, NewNext(n) \/ NewFail(n) \/ Connect(n) PROVE IPend'
  <2>1. CASE Bind(n) BY <2>1 DEF Bind, PcTo
  <2>2. CASE NewAck(n) BY <2>2 DEF NewAck, PcTo
  <2>3. CASE NewGiveUp(n) BY <2>3 DEF NewGiveUp, PcTo
  <2>4. CASE Quit(n) BY <2>4 DEF Quit, Gone, PcTo, IPeer, IRel
  <2>5. CASE NewStart(n)
    <3>1. \A m \in Hosts : Succ(m) \/ hand[m] # "none" => peer[m] # n
      BY <2>5 DEF NewStart, PcTo, IPeer, NotYet, Succ
    <3>2. hand[n] \notin {"freezing", "sent", "releasing"} BY <2>5 DEF NewStart, IRel
    <3>3. hand' = hand /\ peer' = peer /\ signalled' = signalled
      BY <2>5 DEF NewStart
    <3>4. \A m \in Hosts \ {n} : pend'[m] = pend[m] /\ unadopted'[m] = unadopted[m]
                                /\ panes'[m] = panes[m] /\ pc'[m] = pc[m]
      BY <2>5 DEF NewStart, PcTo
    <3>5. pc'[n] = "starting" /\ pc[n] = "acked" BY <2>5 DEF NewStart, PcTo
    <3> QED BY <3>1, <3>2, <3>3, <3>4, <3>5
  <2>6. CASE NewRename(n) BY <2>6 DEF NewRename, PcTo
  <2>7. CASE NewRenameFails(n) BY <2>7 DEF NewRenameFails, PcTo
  <2>8. CASE NewFail(n) BY <2>8 DEF NewFail, PcTo
  <2>9. CASE Connect(n) BY <2>9 DEF Connect, PcTo, MayStart, Quiet, NewQuiet, IRel
  <2> QED BY <1>4, <2>1, <2>2, <2>3, <2>4, <2>5, <2>6, <2>7, <2>8, <2>9 DEF NewNext
<1>5. ASSUME NEW h \in Hosts, ServeNext(h) \/ Fresh(h) \/ Term(h) \/ Crash(h) PROVE IPend'
  <2>1. CASE ServeBreak(h) BY <2>1 DEF ServeBreak, PcTo
  <2>2. CASE KillAll(h) BY <2>2 DEF KillAll, PcTo
  <2>3. CASE CheckInode(h) BY <2>3 DEF CheckInode, PcTo
  <2>4. CASE Unlink(h) BY <2>4 DEF Unlink, PcTo
  <2>5. CASE Exit(h) BY <2>5 DEF Exit, Gone, PcTo, IPeer
  <2>6. CASE Fresh(h)
    <3>1. \A m \in Hosts : Succ(m) \/ hand[m] # "none" => peer[m] # h
      BY <2>6 DEF Fresh, PcTo, IPeer, NotYet, Succ
    <3> QED BY <2>6, <3>1 DEF Fresh, PcTo
  <2>7. CASE Term(h) BY <2>7 DEF Term, Stopped
  <2>8. CASE Crash(h) BY <2>8 DEF Crash, Gone, PcTo, IPeer
  <2> QED BY <1>5, <2>1, <2>2, <2>3, <2>4, <2>5, <2>6, <2>7, <2>8 DEF ServeNext
<1> QED BY <1>1, <1>2, <1>3, <1>4, <1>5 DEF Next

LEMMA NextControl == ASSUME Overlap = "none", ControlInv, [Next]_vars PROVE ControlInv'
<1>1. OneReaderInv' BY NextOneReader DEF ControlInv
<1>2. CASE UNCHANGED vars
  BY <1>1, <1>2 DEF vars, ControlInv, Control, IAck, IServes, IStopped, IRefuse, IAccepts, IAlone, IMoved,
         IFirst, IPend, Went, Early, Committed, Up, Async, Succ, Busy, PreCommit
<1>3. CASE Next
  BY <1>1, <1>3, KeepsIAck, KeepsIServes, KeepsIStopped, KeepsIRefuse, KeepsIAccepts, KeepsIAlone,
     KeepsIMoved, KeepsIFirst, KeepsIPend DEF ControlInv, Control
<1> QED BY <1>2, <1>3

LEMMA ControlHolds == ASSUME Overlap = "none" PROVE Spec => []ControlInv
<1>1. Init => ControlInv BY InitControl, InitOneReader DEF ControlInv
<1>2. ControlInv /\ [Next]_vars => ControlInv' BY NextControl
<1> QED BY <1>1, <1>2, PTL DEF Spec
-----------------------------------------------------------------------------
(* What faults cost: one host that accepts spawns, and no terminal lost      *)
(* that OrphanOnlyAfterCommit does not account for.                          *)


LEMMA KeepsOneHost ==
  ASSUME Overlap = "none", OneReaderInv, Control, OneHost, Next
  PROVE  OneHost'
<1> USE HandoffAssumption DEF OneReaderInv, Exclusive, Control, TypeOK, Up, Async, Closed, Succ, Busy, PreCommit, OneHost
<1>1. ASSUME NEW h \in Hosts, NEW p \in Panes, Spawn(h, p) \/ KillPane(h, p) \/ ReaderNext(h, p) PROVE OneHost'
  <2>1. CASE Spawn(h, p) BY <2>1 DEF Spawn
  <2>2. CASE KillPane(h, p) BY <2>2 DEF KillPane
  <2>3. CASE PollFrozen(h, p) BY <2>3 DEF PollFrozen, SetReader
  <2>4. CASE PollData(h, p) BY <2>4 DEF PollData, SetReader
  <2>5. CASE PollEof(h, p) BY <2>5 DEF PollEof, SetReader
  <2>6. CASE Ingest(h, p) BY <2>6 DEF Ingest, SetReader
  <2> QED BY <1>1, <2>1, <2>2, <2>3, <2>4, <2>5, <2>6 DEF ReaderNext
<1>2. ASSUME NEW p \in Panes, Emit(p) \/ Dies(p) PROVE OneHost'
  <2>1. CASE Emit(p) BY <2>1 DEF Emit
  <2>2. CASE Dies(p) BY <2>2 DEF Dies
  <2> QED BY <1>2, <2>1, <2>2
<1>3. ASSUME NEW n \in Hosts, OldNext(n) PROVE OneHost'
  <2>1. CASE OldBegin(n) BY <2>1 DEF OldBegin
  <2>2. CASE OldFreeze(n) BY <2>2 DEF OldFreeze
  <2>3. CASE OldSend(n) BY <2>3 DEF OldSend, ReadersStopped
  <2>4. CASE OldBail(n) BY <2>4 DEF OldBail, HandTo
  <2>5. CASE OldReadAck(n) BY <2>5 DEF OldReadAck, HandTo
  <2>6. CASE OldRelease(n) BY <2>6 DEF OldRelease
  <2>7. CASE OldReleaseFails(n) BY <2>7 DEF OldReleaseFails, HandTo
  <2>8. CASE OldUnfreeze(n) BY <2>8 DEF OldUnfreeze, HandTo
  <2>9. CASE OldRestart(n) BY <2>9 DEF OldRestart
  <2>10. CASE OldAbort(n) BY ZenonT(60), <2>10 DEF OldAbort, HandTo, IAlone, Early
  <2>11. CASE OldStop(n) BY <2>11 DEF OldStop, Stopped
  <2> QED BY <1>3, <2>1, <2>2, <2>3, <2>4, <2>5, <2>6, <2>7, <2>8, <2>9, <2>10, <2>11 DEF OldNext
<1>4. ASSUME NEW n \in Hosts, NewNext(n) \/ NewFail(n) \/ Connect(n) PROVE OneHost'
  <2>1. CASE Bind(n) BY <2>1 DEF Bind, PcTo
  <2>2. CASE NewAck(n) BY <2>2 DEF NewAck, PcTo
  <2>3. CASE NewGiveUp(n) BY <2>3 DEF NewGiveUp, PcTo
  <2>4. CASE Quit(n) BY <2>4 DEF Quit, Gone, PcTo
  <2>5. CASE NewStart(n) BY <2>5 DEF NewStart, PcTo
  <2>6. CASE NewRename(n) BY <2>6 DEF NewRename, PcTo, IAlone, IRel
  <2>7. CASE NewRenameFails(n) BY <2>7 DEF NewRenameFails, PcTo
  <2>8. CASE NewFail(n) BY <2>8 DEF NewFail, PcTo
  <2>9. CASE Connect(n) BY <2>9 DEF Connect, PcTo, MayStart, Quiet, NewQuiet
  <2> QED BY <1>4, <2>1, <2>2, <2>3, <2>4, <2>5, <2>6, <2>7, <2>8, <2>9 DEF NewNext
<1>5. ASSUME NEW h \in Hosts, ServeNext(h) \/ Fresh(h) \/ Term(h) \/ Crash(h) PROVE OneHost'
  <2>1. CASE ServeBreak(h) BY <2>1 DEF ServeBreak, PcTo
  <2>2. CASE KillAll(h) BY <2>2 DEF KillAll, PcTo
  <2>3. CASE CheckInode(h) BY <2>3 DEF CheckInode, PcTo
  <2>4. CASE Unlink(h) BY <2>4 DEF Unlink, PcTo
  <2>5. CASE Exit(h) BY <2>5 DEF Exit, Gone, PcTo
  <2>6. CASE Fresh(h) BY <2>6 DEF Fresh, PcTo, HoldsLock
  <2>7. CASE Term(h) BY <2>7 DEF Term, Stopped
  <2>8. CASE Crash(h) BY <2>8 DEF Crash, Gone, PcTo
  <2> QED BY <1>5, <2>1, <2>2, <2>3, <2>4, <2>5, <2>6, <2>7, <2>8 DEF ServeNext
<1> QED BY <1>1, <1>2, <1>3, <1>4, <1>5 DEF Next

(* A successor that h released to gave up; what a host fails is final.       *)
Failed(h) == \E n \in rel : peer[n] = h /\ GaveUp(n)
(* A host that committed refuses spawns and hands over to no second successor, *)
(* unless the first one gave up.                                             *)
IGiven == \A h \in Hosts : Committed(h) /\ Async(h) /\ ~Failed(h) =>
            /\ handingOff[h]
            /\ \A n \in Hosts : peer[n] = h => ~(Busy(n) /\ PreCommit(n))
(* The host a pane was released to last answers for it, or lost it.          *)
ICover == \A p \in Panes : proc[p] = "live" /\ p \notin signalled =>
            home[p] \in Hosts /\ (Responsible(home[p], p) \/ Cost(home[p], p))
FaultInv == ControlInv /\ OneHost /\ IGiven /\ ICover

LEMMA PeersServed ==
  ASSUME ControlInv, NEW m \in rel PROVE m \in Hosts /\ ~NotYet(peer[m]) /\ ~Succ(peer[m])
<1>1. m \in Hosts /\ hand[m] # "none"
  BY DEF ControlInv, OneReaderInv, Exclusive, TypeOK, IRel
<1> QED BY <1>1 DEF ControlInv, OneReaderInv, Exclusive, IPeer

(* What a host lost, and that it ended, is for good.                         *)
Final(n) == /\ pc[n] = "crashed" => pc'[n] = "crashed"
            /\ pc[n] = "exited" /\ stop[n] = "shutdown" => pc'[n] = "exited" /\ stop'[n] = "shutdown"
            /\ GaveUp(n) => GaveUp(n)' /\ peer'[n] = peer[n]
            /\ unadopted[n] \subseteq unadopted'[n]

LEMMA AllFinal ==
  ASSUME Overlap = "none", ControlInv, Next
  PROVE  \A m \in Hosts : Final(m)
<1> USE HandoffAssumption DEF ControlInv, OneReaderInv, Exclusive, Control, TypeOK, Closed, Up, Final, GaveUp, IServes, IAck
<1>1. ASSUME NEW h \in Hosts, NEW p \in Panes, Spawn(h, p) \/ KillPane(h, p) \/ ReaderNext(h, p) PROVE \A m \in Hosts : Final(m)
  <2>1. CASE Spawn(h, p) BY <2>1 DEF Spawn
  <2>2. CASE KillPane(h, p) BY <2>2 DEF KillPane
  <2>3. CASE PollFrozen(h, p) BY <2>3 DEF PollFrozen, SetReader
  <2>4. CASE PollData(h, p) BY <2>4 DEF PollData, SetReader
  <2>5. CASE PollEof(h, p) BY <2>5 DEF PollEof, SetReader
  <2>6. CASE Ingest(h, p) BY <2>6 DEF Ingest, SetReader
  <2> QED BY <1>1, <2>1, <2>2, <2>3, <2>4, <2>5, <2>6 DEF ReaderNext
<1>2. ASSUME NEW p \in Panes, Emit(p) \/ Dies(p) PROVE \A m \in Hosts : Final(m)
  <2>1. CASE Emit(p) BY <2>1 DEF Emit
  <2>2. CASE Dies(p) BY <2>2 DEF Dies
  <2> QED BY <1>2, <2>1, <2>2
<1>3. ASSUME NEW n \in Hosts, OldNext(n) PROVE \A m \in Hosts : Final(m)
  <2>1. CASE OldBegin(n) BY <2>1 DEF OldBegin
  <2>2. CASE OldFreeze(n) BY <2>2 DEF OldFreeze
  <2>3. CASE OldSend(n) BY <2>3 DEF OldSend, ReadersStopped
  <2>4. CASE OldBail(n) BY <2>4 DEF OldBail, HandTo
  <2>5. CASE OldReadAck(n) BY <2>5 DEF OldReadAck, HandTo
  <2>6. CASE OldRelease(n) BY <2>6 DEF OldRelease
  <2>7. CASE OldReleaseFails(n) BY <2>7 DEF OldReleaseFails, HandTo
  <2>8. CASE OldUnfreeze(n) BY <2>8 DEF OldUnfreeze, HandTo
  <2>9. CASE OldRestart(n) BY <2>9 DEF OldRestart
  <2>10. CASE OldAbort(n) BY <2>10 DEF OldAbort, HandTo
  <2>11. CASE OldStop(n) BY <2>11 DEF OldStop, Stopped
  <2> QED BY <1>3, <2>1, <2>2, <2>3, <2>4, <2>5, <2>6, <2>7, <2>8, <2>9, <2>10, <2>11 DEF OldNext
<1>4. ASSUME NEW n \in Hosts, NewNext(n) \/ NewFail(n) \/ Connect(n) PROVE \A m \in Hosts : Final(m)
  <2>1. CASE Bind(n) BY <2>1 DEF Bind, PcTo
  <2>2. CASE NewAck(n) BY <2>2 DEF NewAck, PcTo
  <2>3. CASE NewGiveUp(n) BY <2>3 DEF NewGiveUp, PcTo
  <2>4. CASE Quit(n) BY <2>4 DEF Quit, Gone, PcTo
  <2>5. CASE NewStart(n) BY <2>5 DEF NewStart, PcTo
  <2>6. CASE NewRename(n) BY <2>6 DEF NewRename, PcTo
  <2>7. CASE NewRenameFails(n) BY <2>7 DEF NewRenameFails, PcTo
  <2>8. CASE NewFail(n) BY <2>8 DEF NewFail, PcTo
  <2>9. CASE Connect(n) BY <2>9 DEF Connect, PcTo, MayStart, Quiet, NewQuiet
  <2> QED BY <1>4, <2>1, <2>2, <2>3, <2>4, <2>5, <2>6, <2>7, <2>8, <2>9 DEF NewNext
<1>5. ASSUME NEW h \in Hosts, ServeNext(h) \/ Fresh(h) \/ Term(h) \/ Crash(h) PROVE \A m \in Hosts : Final(m)
  <2>1. CASE ServeBreak(h) BY <2>1 DEF ServeBreak, PcTo
  <2>2. CASE KillAll(h) BY <2>2 DEF KillAll, PcTo
  <2>3. CASE CheckInode(h) BY <2>3 DEF CheckInode, PcTo
  <2>4. CASE Unlink(h) BY <2>4 DEF Unlink, PcTo
  <2>5. CASE Exit(h) BY <2>5 DEF Exit, Gone, PcTo
  <2>6. CASE Fresh(h) BY <2>6 DEF Fresh, PcTo
  <2>7. CASE Term(h) BY <2>7 DEF Term, Stopped
  <2>8. CASE Crash(h) BY <2>8 DEF Crash, Gone, PcTo
  <2> QED BY <1>5, <2>1, <2>2, <2>3, <2>4, <2>5, <2>6, <2>7, <2>8 DEF ServeNext
<1> QED BY <1>1, <1>2, <1>3, <1>4, <1>5 DEF Next

LEMMA FailedStays ==
  ASSUME Overlap = "none", ControlInv, Next, NEW h \in Hosts, Failed(h) PROVE Failed(h)'
<1>1. PICK m \in rel : peer[m] = h /\ GaveUp(m) BY DEF Failed
<1>2. m \in Hosts BY DEF ControlInv, OneReaderInv, TypeOK
<1>3. GaveUp(m)' /\ peer'[m] = h BY <1>1, <1>2, AllFinal DEF Final
<1>4. m \in rel' BY <1>3 DEF GaveUp
<1> QED BY <1>3, <1>4 DEF Failed

LEMMA CostStays ==
  ASSUME Overlap = "none", ControlInv, Next, NEW h \in Hosts, NEW q \in Panes, Cost(h, q)
  PROVE  Cost(h, q)'
<1>1. Final(h) BY AllFinal
<1>2. CASE q \in unadopted[h] BY <1>1, <1>2 DEF Final, Cost
<1>3. CASE pc[h] = "crashed" BY <1>1, <1>3 DEF Final, Cost
<1>4. CASE pc[h] = "exited" /\ stop[h] = "shutdown" BY <1>1, <1>4 DEF Final, Cost
<1>5. CASE GaveUp(h) BY <1>1, <1>5 DEF Final, Cost
<1>6. CASE Failed(h) BY <1>6, FailedStays DEF Failed, Cost
<1> QED BY <1>2, <1>3, <1>4, <1>5, <1>6 DEF Cost, Failed

LEMMA KeepsIGiven ==
  ASSUME Overlap = "none", ControlInv, IGiven, Next
  PROVE  IGiven'
<1>0. \A g \in Hosts : Failed(g) => Failed(g)'
  BY FailedStays
<1> USE <1>0, HandoffAssumption DEF OneReaderInv, Exclusive, Control, TypeOK, Up, Async, Closed, Succ, Busy, PreCommit, Committed, ControlInv, IGiven
<1>1. ASSUME NEW h \in Hosts, NEW p \in Panes, Spawn(h, p) \/ KillPane(h, p) \/ ReaderNext(h, p) PROVE IGiven'
  <2>1. CASE Spawn(h, p) BY <2>1 DEF Spawn
  <2>2. CASE KillPane(h, p) BY <2>2 DEF KillPane
  <2>3. CASE PollFrozen(h, p) BY <2>3 DEF PollFrozen, SetReader
  <2>4. CASE PollData(h, p) BY <2>4 DEF PollData, SetReader
  <2>5. CASE PollEof(h, p) BY <2>5 DEF PollEof, SetReader
  <2>6. CASE Ingest(h, p) BY <2>6 DEF Ingest, SetReader
  <2> QED BY <1>1, <2>1, <2>2, <2>3, <2>4, <2>5, <2>6 DEF ReaderNext
<1>2. ASSUME NEW p \in Panes, Emit(p) \/ Dies(p) PROVE IGiven'
  <2>1. CASE Emit(p) BY <2>1 DEF Emit
  <2>2. CASE Dies(p) BY <2>2 DEF Dies
  <2> QED BY <1>2, <2>1, <2>2
<1>3. ASSUME NEW n \in Hosts, OldNext(n) PROVE IGiven'
  <2>1. CASE OldBegin(n) BY <2>1 DEF OldBegin
  <2>2. CASE OldFreeze(n) BY <2>2 DEF OldFreeze
  <2>3. CASE OldSend(n) BY <2>3 DEF OldSend, ReadersStopped
  <2>4. CASE OldBail(n) BY <2>4 DEF OldBail, HandTo
  <2>5. CASE OldReadAck(n) BY <2>5 DEF OldReadAck, HandTo
  <2>6. CASE OldRelease(n) BY <2>6 DEF OldRelease, IRefuse, Giving, IAck, IBusy
  <2>7. CASE OldReleaseFails(n) BY <2>7 DEF OldReleaseFails, HandTo
  <2>8. CASE OldUnfreeze(n) BY <2>8 DEF OldUnfreeze, HandTo
  <2>9. CASE OldRestart(n) BY <2>9 DEF OldRestart
  <2>10. CASE OldAbort(n)
    <3>1. ~Committed(peer[n]) \/ Failed(peer[n]) BY <2>10 DEF OldAbort, IGiven
    <3> QED BY <2>10, <3>1 DEF OldAbort, HandTo
  <2>11. CASE OldStop(n) BY <2>11 DEF OldStop, Stopped
  <2> QED BY <1>3, <2>1, <2>2, <2>3, <2>4, <2>5, <2>6, <2>7, <2>8, <2>9, <2>10, <2>11 DEF OldNext
<1>4. ASSUME NEW n \in Hosts, NewNext(n) \/ NewFail(n) \/ Connect(n) PROVE IGiven'
  <2>1. CASE Bind(n) BY <2>1 DEF Bind, PcTo
  <2>2. CASE NewAck(n) BY <2>2 DEF NewAck, PcTo
  <2>3. CASE NewGiveUp(n) BY <2>3 DEF NewGiveUp, PcTo
  <2>4. CASE Quit(n) BY <2>4 DEF Quit, Gone, PcTo
  <2>5. CASE NewStart(n) BY <2>5 DEF NewStart, PcTo
  <2>6. CASE NewRename(n)
    <3>1. ~Committed(n) BY <2>6, PeersServed DEF NewRename, PcTo, NotYet, Succ
    <3> QED BY <2>6, <3>1 DEF NewRename, PcTo
  <2>7. CASE NewRenameFails(n) BY <2>7 DEF NewRenameFails, PcTo
  <2>8. CASE NewFail(n) BY <2>8 DEF NewFail, PcTo
  <2>9. CASE Connect(n)
    <3>1. \A m \in rel : peer[m] = sock => ino[m] = NoHost
      BY <2>9 DEF Connect, IMoved
    <3>2. \A m \in rel : pc[m] \in {"exited", "crashed"} \/ ino[m] # NoHost
      BY <2>9 DEF Connect, MayStart, Quiet, NewQuiet, IAck, IServes, PC
    <3>3. \A m \in rel : peer[m] = sock => Failed(sock)
      BY <3>1, <3>2 DEF Failed, GaveUp
    <3>4. n \notin rel /\ hand[n] = "none" BY <2>9 DEF Connect, IAck, IRel
    <3> QED BY <2>9, <3>3, <3>4 DEF Connect, PcTo, MayStart, Quiet, NewQuiet
  <2> QED BY <1>4, <2>1, <2>2, <2>3, <2>4, <2>5, <2>6, <2>7, <2>8, <2>9 DEF NewNext
<1>5. ASSUME NEW h \in Hosts, ServeNext(h) \/ Fresh(h) \/ Term(h) \/ Crash(h) PROVE IGiven'
  <2>1. CASE ServeBreak(h) BY <2>1 DEF ServeBreak, PcTo
  <2>2. CASE KillAll(h) BY <2>2 DEF KillAll, PcTo
  <2>3. CASE CheckInode(h) BY <2>3 DEF CheckInode, PcTo
  <2>4. CASE Unlink(h) BY <2>4 DEF Unlink, PcTo
  <2>5. CASE Exit(h) BY <2>5 DEF Exit, Gone, PcTo
  <2>6. CASE Fresh(h)
    <3>1. ~Committed(h) BY <2>6, PeersServed DEF Fresh, PcTo, NotYet, Succ
    <3> QED BY <2>6, <3>1 DEF Fresh, PcTo
  <2>7. CASE Term(h) BY <2>7 DEF Term, Stopped
  <2>8. CASE Crash(h) BY <2>8 DEF Crash, Gone, PcTo
  <2> QED BY <1>5, <2>1, <2>2, <2>3, <2>4, <2>5, <2>6, <2>7, <2>8 DEF ServeNext
<1> QED BY <1>1, <1>2, <1>3, <1>4, <1>5 DEF Next

(* The steps that change who answers for a pane. *)
Moving == \/ \E h \in Hosts, p \in Panes : Spawn(h, p) \/ KillPane(h, p)
          \/ \E h \in Hosts : \/ OldRelease(h) \/ NewStart(h)
                             \/ KillAll(h) \/ Quit(h) \/ Exit(h) \/ Crash(h)

LEMMA SameAnswers ==
  ASSUME Overlap = "none", ControlInv, ~Moving, Next
  PROVE  \A g \in Hosts, q \in Panes : Responsible(g, q)' <=> Responsible(g, q)
<1> USE HandoffAssumption DEF ControlInv, OneReaderInv, Exclusive, Control, TypeOK, Responsible, Committed, Up, Async, Moving
<1>1. ASSUME NEW h \in Hosts, NEW p \in Panes, Spawn(h, p) \/ KillPane(h, p) \/ ReaderNext(h, p) PROVE \A g \in Hosts, q \in Panes : Responsible(g, q)' <=> Responsible(g, q)
  <2>1. CASE Spawn(h, p) BY <2>1 DEF Spawn
  <2>2. CASE KillPane(h, p) BY <2>2 DEF KillPane
  <2>3. CASE PollFrozen(h, p) BY <2>3 DEF PollFrozen, SetReader
  <2>4. CASE PollData(h, p) BY <2>4 DEF PollData, SetReader
  <2>5. CASE PollEof(h, p) BY <2>5 DEF PollEof, SetReader
  <2>6. CASE Ingest(h, p) BY <2>6 DEF Ingest, SetReader
  <2> QED BY <1>1, <2>1, <2>2, <2>3, <2>4, <2>5, <2>6 DEF ReaderNext
<1>2. ASSUME NEW p \in Panes, Emit(p) \/ Dies(p) PROVE \A g \in Hosts, q \in Panes : Responsible(g, q)' <=> Responsible(g, q)
  <2>1. CASE Emit(p) BY <2>1 DEF Emit
  <2>2. CASE Dies(p) BY <2>2 DEF Dies
  <2> QED BY <1>2, <2>1, <2>2
<1>3. ASSUME NEW n \in Hosts, OldNext(n) PROVE \A g \in Hosts, q \in Panes : Responsible(g, q)' <=> Responsible(g, q)
  <2>1. CASE OldBegin(n) BY <2>1 DEF OldBegin
  <2>2. CASE OldFreeze(n) BY <2>2 DEF OldFreeze, IRel
  <2>3. CASE OldSend(n) BY <2>3 DEF OldSend, ReadersStopped
  <2>4. CASE OldBail(n) BY <2>4 DEF OldBail, HandTo
  <2>5. CASE OldReadAck(n) BY <2>5 DEF OldReadAck, HandTo
  <2>6. CASE OldRelease(n) BY <2>6 DEF OldRelease
  <2>7. CASE OldReleaseFails(n) BY <2>7 DEF OldReleaseFails, HandTo
  <2>8. CASE OldUnfreeze(n) BY <2>8 DEF OldUnfreeze, HandTo
  <2>9. CASE OldRestart(n) BY <2>9 DEF OldRestart
  <2>10. CASE OldAbort(n) BY <2>10 DEF OldAbort, HandTo
  <2>11. CASE OldStop(n) BY <2>11 DEF OldStop, Stopped
  <2> QED BY <1>3, <2>1, <2>2, <2>3, <2>4, <2>5, <2>6, <2>7, <2>8, <2>9, <2>10, <2>11 DEF OldNext
<1>4. ASSUME NEW n \in Hosts, NewNext(n) \/ NewFail(n) \/ Connect(n) PROVE \A g \in Hosts, q \in Panes : Responsible(g, q)' <=> Responsible(g, q)
  <2>1. CASE Bind(n) BY <2>1 DEF Bind, PcTo
  <2>2. CASE NewAck(n)
    <3>1. n \notin rel BY <2>2 DEF NewAck, IRel
    <3> QED BY <2>2, <3>1 DEF NewAck, PcTo
  <2>3. CASE NewGiveUp(n) BY <2>3 DEF NewGiveUp, PcTo
  <2>4. CASE Quit(n) BY <2>4 DEF Quit, Gone, PcTo
  <2>5. CASE NewStart(n) BY <2>5
  <2>6. CASE NewRename(n) BY <2>6 DEF NewRename, PcTo
  <2>7. CASE NewRenameFails(n) BY <2>7 DEF NewRenameFails, PcTo
  <2>8. CASE NewFail(n) BY <2>8 DEF NewFail, PcTo
  <2>9. CASE Connect(n)
    <3>1. n \notin rel BY <2>9 DEF Connect, IAck
    <3>2. \A m \in rel : peer'[m] = peer[m] BY <2>9, <3>1 DEF Connect
    <3>3. pend[n] = {} /\ panes[n] = {} BY <2>9 DEF Connect, IServes, IUnspawned, NotYet
    <3> QED BY <2>9, <3>1, <3>2, <3>3 DEF Connect, PcTo
  <2> QED BY <1>4, <2>1, <2>2, <2>3, <2>4, <2>5, <2>6, <2>7, <2>8, <2>9 DEF NewNext
<1>5. ASSUME NEW h \in Hosts, ServeNext(h) \/ Fresh(h) \/ Term(h) \/ Crash(h) PROVE \A g \in Hosts, q \in Panes : Responsible(g, q)' <=> Responsible(g, q)
  <2>1. CASE ServeBreak(h) BY <2>1 DEF ServeBreak, PcTo
  <2>2. CASE KillAll(h) BY <2>2 DEF KillAll, PcTo
  <2>3. CASE CheckInode(h) BY <2>3 DEF CheckInode, PcTo
  <2>4. CASE Unlink(h) BY <2>4 DEF Unlink, PcTo
  <2>5. CASE Exit(h) BY <2>5 DEF Exit, Gone, PcTo
  <2>6. CASE Fresh(h) BY <2>6 DEF Fresh, PcTo, IUnspawned, IAck, NotYet
  <2>7. CASE Term(h) BY <2>7 DEF Term, Stopped
  <2>8. CASE Crash(h) BY <2>8 DEF Crash, Gone, PcTo
  <2> QED BY <1>5, <2>1, <2>2, <2>3, <2>4, <2>5, <2>6, <2>7, <2>8 DEF ServeNext
<1> QED BY <1>1, <1>2, <1>3, <1>4, <1>5 DEF Next

(* What a release changes: old's panes go to the successor that could take them. *)
LEMMA ReleaseMoves ==
  ASSUME Overlap = "none", ControlInv, NEW n \in Hosts, OldRelease(n), NEW q \in Panes, q \notin signalled
  PROVE  /\ q \in panes[peer[n]] => home'[q] = n /\ (Responsible(n, q)' \/ q \in unadopted'[n])
         /\ q \notin panes[peer[n]] => home'[q] = home[q]
<1> USE HandoffAssumption DEF ControlInv, OneReaderInv, Exclusive, Control, TypeOK, Responsible, Up
<1>1. Succ(n) BY DEF OldRelease, IAck, IRel, Closed, Succ
<1>2. q \in panes[peer[n]] => q \in pend[n] \cup unadopted[n]
  BY <1>1 DEF OldRelease, IPend
<1>3. n \in rel' /\ pend' = pend /\ unadopted' = unadopted /\ signalled' = signalled /\ pc' = pc
  BY DEF OldRelease
<1>4. q \in pend[n] => Responsible(n, q)' BY <1>1, <1>3 DEF Succ
<1>5. home' = [p \in Panes |-> IF p \in panes[peer[n]] THEN n ELSE home[p]] BY DEF OldRelease
<1> HIDE DEF Responsible
<1> QED BY <1>2, <1>3, <1>4, <1>5

(* Whoever answered for a pane still does, or its successor does, or lost it. *)
LEMMA AnswersOn ==
  ASSUME Overlap = "none", ControlInv, Next,
         NEW g \in Hosts, NEW q \in Panes, Responsible(g, q), q \notin signalled'
  PROVE  \/ Responsible(g, q)' \/ Cost(g, q)'
         \/ \E n \in Hosts : OldRelease(n) /\ peer[n] = g /\ q \in panes[g]
<1> USE HandoffAssumption DEF ControlInv, OneReaderInv, Exclusive, Control, TypeOK, Responsible, Committed, Up, Async
<1>1. CASE ~Moving BY ZenonT(60), <1>1, SameAnswers
<1>2. ASSUME NEW h \in Hosts, NEW p \in Panes, Spawn(h, p) \/ KillPane(h, p) PROVE Responsible(g, q)'
  <2>1. CASE Spawn(h, p) BY <2>1 DEF Spawn
  <2>2. CASE KillPane(h, p) BY <2>2 DEF KillPane
  <2> QED BY <1>2, <2>1, <2>2
<1>3. ASSUME NEW n \in Hosts, OldRelease(n), ~(peer[n] = g /\ q \in panes[g]) PROVE Responsible(g, q)'
  BY <1>3 DEF OldRelease
<1>4. ASSUME NEW h \in Hosts, KillAll(h) PROVE Responsible(g, q)'
  BY <1>4 DEF KillAll, PcTo
<1>5. ASSUME NEW n \in Hosts, Quit(n) PROVE Responsible(g, q)' \/ Cost(g, q)'
  <2>1. CASE n = g
    <3>1. n \in rel /\ ino[n] = NoHost BY <1>5, <2>1 DEF Quit, IServes, Succ
    <3>2. GaveUp(n)' BY <1>5, <3>1 DEF Quit, Gone, PcTo, GaveUp, Closed
    <3> QED BY <2>1, <3>2 DEF Cost
  <2>2. CASE n # g BY <1>5, <2>2 DEF Quit, Gone, PcTo
  <2> QED BY <2>1, <2>2
<1>6. ASSUME NEW h \in Hosts, Exit(h) PROVE Responsible(g, q)' \/ Cost(g, q)'
  <2>1. CASE h = g
    <3>1. ~Committed(h) BY <1>6, <2>1 DEF Exit, IServes
    <3>2. stop[h] = "shutdown" BY <1>6, <3>1 DEF Exit, IStopped
    <3> QED BY <1>6, <2>1, <3>2 DEF Exit, Gone, PcTo, Cost
  <2>2. CASE h # g BY <1>6, <2>2 DEF Exit, Gone, PcTo
  <2> QED BY <2>1, <2>2
<1>7. ASSUME NEW h \in Hosts, Crash(h) PROVE Responsible(g, q)' \/ Cost(g, q)'
  <2>1. CASE h = g BY <1>7, <2>1 DEF Crash, Gone, PcTo, Cost
  <2>2. CASE h # g BY <1>7, <2>2 DEF Crash, Gone, PcTo
  <2> QED BY <2>1, <2>2
<1>8. ASSUME NEW n \in Hosts, NewStart(n) PROVE Responsible(g, q)' \/ Cost(g, q)'
  <2>1. CASE n = g
    <3>1. ~Committed(n) /\ panes[n] = {} BY <1>8, PeersServed DEF NewStart, Succ, IUnspawned, NotYet
    <3>2. q \in pend[n] BY <2>1, <3>1
    <3>3. q \in panes'[n] \/ q \in unadopted'[n] BY <1>8, <3>2 DEF NewStart
    <3>4. ~Committed(n)' /\ Up(n)' BY <1>8, <3>1 DEF NewStart, PcTo
    <3> QED BY <2>1, <3>3, <3>4 DEF Cost
  <2>2. CASE n # g BY <1>8, <2>2 DEF NewStart, PcTo
  <2> QED BY <2>1, <2>2
<1> HIDE DEF Responsible
<1> QED BY <1>1, <1>2, <1>3, <1>4, <1>5, <1>6, <1>7, <1>8 DEF Moving

(* A pane's home changes with its start and with a release of it only.       *)
LEMMA HomeMoves ==
  ASSUME Overlap = "none", ControlInv, Next, NEW q \in Panes
  PROVE  \/ home'[q] = home[q]
         \/ \E h \in Hosts : Spawn(h, q)
         \/ \E n \in Hosts : OldRelease(n) /\ q \in panes[peer[n]]
<1> USE DEF ControlInv, OneReaderInv, TypeOK
<1>1. ASSUME NEW h \in Hosts, NEW p \in Panes, Spawn(h, p) \/ KillPane(h, p) \/ ReaderNext(h, p) PROVE home'[q] = home[q] \/ (\E g \in Hosts : Spawn(g, q)) \/ (\E m \in Hosts : OldRelease(m) /\ q \in panes[peer[m]])
  <2>1. CASE Spawn(h, p)
    <3>1. CASE p = q BY <2>1, <3>1
    <3>2. CASE p # q BY <2>1, <3>2 DEF Spawn
    <3> QED BY <3>1, <3>2
  <2>2. CASE KillPane(h, p) BY <2>2 DEF KillPane
  <2>3. CASE PollFrozen(h, p) BY <2>3 DEF PollFrozen, SetReader
  <2>4. CASE PollData(h, p) BY <2>4 DEF PollData, SetReader
  <2>5. CASE PollEof(h, p) BY <2>5 DEF PollEof, SetReader
  <2>6. CASE Ingest(h, p) BY <2>6 DEF Ingest, SetReader
  <2> QED BY <1>1, <2>1, <2>2, <2>3, <2>4, <2>5, <2>6 DEF ReaderNext
<1>2. ASSUME NEW p \in Panes, Emit(p) \/ Dies(p) PROVE home'[q] = home[q] \/ (\E g \in Hosts : Spawn(g, q)) \/ (\E m \in Hosts : OldRelease(m) /\ q \in panes[peer[m]])
  <2>1. CASE Emit(p) BY <2>1 DEF Emit
  <2>2. CASE Dies(p) BY <2>2 DEF Dies
  <2> QED BY <1>2, <2>1, <2>2
<1>3. ASSUME NEW n \in Hosts, OldNext(n) PROVE home'[q] = home[q] \/ (\E g \in Hosts : Spawn(g, q)) \/ (\E m \in Hosts : OldRelease(m) /\ q \in panes[peer[m]])
  <2>1. CASE OldBegin(n) BY <2>1 DEF OldBegin
  <2>2. CASE OldFreeze(n) BY <2>2 DEF OldFreeze
  <2>3. CASE OldSend(n) BY <2>3 DEF OldSend, ReadersStopped
  <2>4. CASE OldBail(n) BY <2>4 DEF OldBail, HandTo
  <2>5. CASE OldReadAck(n) BY <2>5 DEF OldReadAck, HandTo
  <2>6. CASE OldRelease(n) BY <2>6 DEF OldRelease
  <2>7. CASE OldReleaseFails(n) BY <2>7 DEF OldReleaseFails, HandTo
  <2>8. CASE OldUnfreeze(n) BY <2>8 DEF OldUnfreeze, HandTo
  <2>9. CASE OldRestart(n) BY <2>9 DEF OldRestart
  <2>10. CASE OldAbort(n) BY <2>10 DEF OldAbort, HandTo
  <2>11. CASE OldStop(n) BY <2>11 DEF OldStop, Stopped
  <2> QED BY <1>3, <2>1, <2>2, <2>3, <2>4, <2>5, <2>6, <2>7, <2>8, <2>9, <2>10, <2>11 DEF OldNext
<1>4. ASSUME NEW n \in Hosts, NewNext(n) \/ NewFail(n) \/ Connect(n) PROVE home'[q] = home[q] \/ (\E g \in Hosts : Spawn(g, q)) \/ (\E m \in Hosts : OldRelease(m) /\ q \in panes[peer[m]])
  <2>1. CASE Bind(n) BY <2>1 DEF Bind, PcTo
  <2>2. CASE NewAck(n) BY <2>2 DEF NewAck, PcTo
  <2>3. CASE NewGiveUp(n) BY <2>3 DEF NewGiveUp, PcTo
  <2>4. CASE Quit(n) BY <2>4 DEF Quit, Gone, PcTo
  <2>5. CASE NewStart(n) BY <2>5 DEF NewStart, PcTo
  <2>6. CASE NewRename(n) BY <2>6 DEF NewRename, PcTo
  <2>7. CASE NewRenameFails(n) BY <2>7 DEF NewRenameFails, PcTo
  <2>8. CASE NewFail(n) BY <2>8 DEF NewFail, PcTo
  <2>9. CASE Connect(n) BY <2>9 DEF Connect, PcTo, MayStart, Quiet, NewQuiet
  <2> QED BY <1>4, <2>1, <2>2, <2>3, <2>4, <2>5, <2>6, <2>7, <2>8, <2>9 DEF NewNext
<1>5. ASSUME NEW h \in Hosts, ServeNext(h) \/ Fresh(h) \/ Term(h) \/ Crash(h) PROVE home'[q] = home[q] \/ (\E g \in Hosts : Spawn(g, q)) \/ (\E m \in Hosts : OldRelease(m) /\ q \in panes[peer[m]])
  <2>1. CASE ServeBreak(h) BY <2>1 DEF ServeBreak, PcTo
  <2>2. CASE KillAll(h) BY <2>2 DEF KillAll, PcTo
  <2>3. CASE CheckInode(h) BY <2>3 DEF CheckInode, PcTo
  <2>4. CASE Unlink(h) BY <2>4 DEF Unlink, PcTo
  <2>5. CASE Exit(h) BY <2>5 DEF Exit, Gone, PcTo
  <2>6. CASE Fresh(h) BY <2>6 DEF Fresh, PcTo
  <2>7. CASE Term(h) BY <2>7 DEF Term, Stopped
  <2>8. CASE Crash(h) BY <2>8 DEF Crash, Gone, PcTo
  <2> QED BY <1>5, <2>1, <2>2, <2>3, <2>4, <2>5, <2>6, <2>7, <2>8 DEF ServeNext
<1> QED BY <1>1, <1>2, <1>3, <1>4, <1>5 DEF Next

LEMMA LiveBySpawn ==
  ASSUME Overlap = "none", ControlInv, Next
  PROVE  \A q \in Panes : proc'[q] = "live" /\ q \notin signalled' =>
            (proc[q] = "live" /\ q \notin signalled) \/ \E g \in Hosts : Spawn(g, q)
<1> USE HandoffAssumption DEF TypeOK, OneReaderInv, ControlInv
<1>1. ASSUME NEW h \in Hosts, NEW p \in Panes, Spawn(h, p) \/ KillPane(h, p) \/ ReaderNext(h, p) PROVE \A q \in Panes : proc'[q] = "live" /\ q \notin signalled' =>
            (proc[q] = "live" /\ q \notin signalled) \/ \E g \in Hosts : Spawn(g, q)
  <2>1. CASE Spawn(h, p) BY <2>1 DEF Spawn
  <2>2. CASE KillPane(h, p) BY <2>2 DEF KillPane
  <2>3. CASE PollFrozen(h, p) BY <2>3 DEF PollFrozen, SetReader
  <2>4. CASE PollData(h, p) BY <2>4 DEF PollData, SetReader
  <2>5. CASE PollEof(h, p) BY <2>5 DEF PollEof, SetReader
  <2>6. CASE Ingest(h, p) BY <2>6 DEF Ingest, SetReader
  <2> QED BY <1>1, <2>1, <2>2, <2>3, <2>4, <2>5, <2>6 DEF ReaderNext
<1>2. ASSUME NEW p \in Panes, Emit(p) \/ Dies(p) PROVE \A q \in Panes : proc'[q] = "live" /\ q \notin signalled' =>
            (proc[q] = "live" /\ q \notin signalled) \/ \E g \in Hosts : Spawn(g, q)
  <2>1. CASE Emit(p) BY <2>1 DEF Emit
  <2>2. CASE Dies(p) BY <2>2 DEF Dies
  <2> QED BY <1>2, <2>1, <2>2
<1>3. ASSUME NEW n \in Hosts, OldNext(n) PROVE \A q \in Panes : proc'[q] = "live" /\ q \notin signalled' =>
            (proc[q] = "live" /\ q \notin signalled) \/ \E g \in Hosts : Spawn(g, q)
  <2>1. CASE OldBegin(n) BY <2>1 DEF OldBegin
  <2>2. CASE OldFreeze(n) BY <2>2 DEF OldFreeze
  <2>3. CASE OldSend(n) BY <2>3 DEF OldSend, ReadersStopped
  <2>4. CASE OldBail(n) BY <2>4 DEF OldBail, HandTo
  <2>5. CASE OldReadAck(n) BY <2>5 DEF OldReadAck, HandTo
  <2>6. CASE OldRelease(n) BY <2>6 DEF OldRelease
  <2>7. CASE OldReleaseFails(n) BY <2>7 DEF OldReleaseFails, HandTo
  <2>8. CASE OldUnfreeze(n) BY <2>8 DEF OldUnfreeze, HandTo
  <2>9. CASE OldRestart(n) BY <2>9 DEF OldRestart
  <2>10. CASE OldAbort(n) BY <2>10 DEF OldAbort, HandTo
  <2>11. CASE OldStop(n) BY <2>11 DEF OldStop, Stopped
  <2> QED BY <1>3, <2>1, <2>2, <2>3, <2>4, <2>5, <2>6, <2>7, <2>8, <2>9, <2>10, <2>11 DEF OldNext
<1>4. ASSUME NEW n \in Hosts, NewNext(n) \/ NewFail(n) \/ Connect(n) PROVE \A q \in Panes : proc'[q] = "live" /\ q \notin signalled' =>
            (proc[q] = "live" /\ q \notin signalled) \/ \E g \in Hosts : Spawn(g, q)
  <2>1. CASE Bind(n) BY <2>1 DEF Bind, PcTo
  <2>2. CASE NewAck(n) BY <2>2 DEF NewAck, PcTo
  <2>3. CASE NewGiveUp(n) BY <2>3 DEF NewGiveUp, PcTo
  <2>4. CASE Quit(n) BY <2>4 DEF Quit, Gone, PcTo
  <2>5. CASE NewStart(n) BY <2>5 DEF NewStart, PcTo
  <2>6. CASE NewRename(n) BY <2>6 DEF NewRename, PcTo
  <2>7. CASE NewRenameFails(n) BY <2>7 DEF NewRenameFails, PcTo
  <2>8. CASE NewFail(n) BY <2>8 DEF NewFail, PcTo
  <2>9. CASE Connect(n) BY <2>9 DEF Connect, PcTo, MayStart, Quiet, NewQuiet
  <2> QED BY <1>4, <2>1, <2>2, <2>3, <2>4, <2>5, <2>6, <2>7, <2>8, <2>9 DEF NewNext
<1>5. ASSUME NEW h \in Hosts, ServeNext(h) \/ Fresh(h) \/ Term(h) \/ Crash(h) PROVE \A q \in Panes : proc'[q] = "live" /\ q \notin signalled' =>
            (proc[q] = "live" /\ q \notin signalled) \/ \E g \in Hosts : Spawn(g, q)
  <2>1. CASE ServeBreak(h) BY <2>1 DEF ServeBreak, PcTo
  <2>2. CASE KillAll(h) BY <2>2 DEF KillAll, PcTo
  <2>3. CASE CheckInode(h) BY <2>3 DEF CheckInode, PcTo
  <2>4. CASE Unlink(h) BY <2>4 DEF Unlink, PcTo
  <2>5. CASE Exit(h) BY <2>5 DEF Exit, Gone, PcTo
  <2>6. CASE Fresh(h) BY <2>6 DEF Fresh, PcTo
  <2>7. CASE Term(h) BY <2>7 DEF Term, Stopped
  <2>8. CASE Crash(h) BY <2>8 DEF Crash, Gone, PcTo
  <2> QED BY <1>5, <2>1, <2>2, <2>3, <2>4, <2>5, <2>6, <2>7, <2>8 DEF ServeNext
<1> QED BY <1>1, <1>2, <1>3, <1>4, <1>5 DEF Next

LEMMA KeepsICover ==
  ASSUME Overlap = "none", ControlInv, IGiven, ICover, Next
  PROVE  ICover'
<1> SUFFICES ASSUME NEW q \in Panes, proc'[q] = "live", q \notin signalled'
             PROVE  \E g \in Hosts : home'[q] = g /\ (Responsible(g, q)' \/ Cost(g, q)')
  BY DEF ICover, Responsible, Cost
<1>1. CASE proc[q] = "live" /\ q \notin signalled
  <2>1. PICK g \in Hosts : home[q] = g /\ (Responsible(g, q) \/ Cost(g, q)) BY <1>1 DEF ICover
  <2>2. \A h \in Hosts : ~Spawn(h, q) BY <1>1 DEF Spawn
  <2>3. CASE \E n \in Hosts : OldRelease(n) /\ q \in panes[peer[n]]
    <3>1. PICK n \in Hosts : OldRelease(n) /\ q \in panes[peer[n]] BY <2>3
    <3>2. home'[q] = n /\ (Responsible(n, q)' \/ q \in unadopted'[n])
      BY <1>1, <3>1, ReleaseMoves
    <3> QED BY <3>2 DEF Cost
  <2>4. CASE ~\E n \in Hosts : OldRelease(n) /\ q \in panes[peer[n]]
    <3>1. home'[q] = g BY <2>1, <2>2, <2>4, HomeMoves
    <3>2. CASE Cost(g, q) BY <2>1, <3>1, <3>2, CostStays
    <3>3. CASE Responsible(g, q) BY <2>1, <2>4, <3>1, <3>3, AnswersOn
    <3> QED BY <2>1, <3>1, <3>2, <3>3
  <2> QED BY <2>3, <2>4
<1>2. CASE ~(proc[q] = "live" /\ q \notin signalled)
  <2>1. PICK h \in Hosts : Spawn(h, q) BY <1>2, LiveBySpawn
  <2>2. home'[q] = h BY <2>1 DEF Spawn, ControlInv, OneReaderInv, TypeOK
  <2>3. ~Committed(h) \/ Failed(h) BY <2>1 DEF Spawn, IGiven
  <2>4. CASE Failed(h)
    <3>1. Cost(h, q)' BY <2>4, FailedStays DEF Failed, Cost
    <3> QED BY <2>2, <3>1
  <2>5. CASE ~Committed(h)
    <3>1. Responsible(h, q)'
      BY <2>1, <2>5 DEF Spawn, Responsible, Committed, Up, Async, ControlInv, OneReaderInv, TypeOK
    <3> QED BY <2>2, <3>1
  <2> QED BY <2>3, <2>4, <2>5
<1> QED BY <1>1, <1>2

LEMMA NextFault == ASSUME Overlap = "none", FaultInv, [Next]_vars PROVE FaultInv'
<1>1. ControlInv' BY NextControl DEF FaultInv
<1>2. CASE UNCHANGED vars
  BY <1>1, <1>2 DEF vars, FaultInv, OneHost, Failed, Cost, GaveUp, Closed, IGiven, ICover, Responsible,
                    Committed, Up, Async, Succ, Busy, PreCommit
<1>3. CASE Next
  <2>1. OneHost' BY <1>3, KeepsOneHost DEF FaultInv, ControlInv
  <2>2. IGiven' BY <1>3, KeepsIGiven DEF FaultInv
  <2>3. ICover' BY <1>3, KeepsICover DEF FaultInv
  <2> QED BY <1>1, <2>1, <2>2, <2>3 DEF FaultInv
<1> QED BY <1>2, <1>3

LEMMA InitFault == Init => FaultInv
<1> SUFFICES ASSUME Init PROVE FaultInv
  OBVIOUS
<1>1. ControlInv BY InitControl, InitOneReader DEF ControlInv
<1>2. OneHost BY DEF Init, OneHost
<1>3. IGiven /\ ICover BY DEF Init, IGiven, ICover, Committed
<1> QED BY <1>1, <1>2, <1>3 DEF FaultInv

(* Someone answers for a pane only while its terminal is held.              *)
LEMMA AnsweredIsHeld ==
  ASSUME ControlInv, NEW p \in Panes, NEW h \in Hosts, Responsible(h, p) PROVE Holds(h, p)
  BY DEF ControlInv, Control, IAck, Responsible, Holds

(* Whatever times out, fails, is signalled, crashes or is lost on the way,   *)
(* two hosts never both accept spawns, and a terminal is lost only by what   *)
(* happened to the host it was released to last: that one could not prepare   *)
(* or start it, was shut down or killed, gave up after the release, or had   *)
(* released to a successor that gave up.                                     *)
THEOREM FaultsAreContained == ASSUME Overlap = "none" PROVE Spec => []FaultsContained
<1>1. Init => FaultInv BY InitFault
<1>2. FaultInv /\ [Next]_vars => FaultInv' BY NextFault
<1>3. FaultInv => FaultsContained
  <2> SUFFICES ASSUME FaultInv, NEW p \in Panes, Orphan(p)
               PROVE  home[p] \in Hosts /\ Cost(home[p], p)
    BY DEF FaultsContained, FaultInv, OrphanOnlyAfterCommit
  <2> QED BY AnsweredIsHeld DEF FaultInv, ICover, Orphan
<1> QED BY <1>1, <1>2, <1>3, PTL DEF Spec

-----------------------------------------------------------------------------
(* An aborted upgrade leaves nothing behind, for every overlap of takeovers. *)

IUnborn == \A n \in Hosts : /\ pc[n] \in {"unborn", "connected"} => hand[n] = "none"
                            /\ n \in rel => hand[n] \in {"committed", "over"}
Working(h, S) == \E n \in Hosts : peer[n] = h /\ hand[n] \in S
Freezing == {"freezing", "sent", "releasing", "thaw"}
Stopping == {"freezing", "sent", "releasing", "thaw", "restart"}
Releasing == {"releasing", "thaw", "restart", "abort"}
(* Each of old's flags is set only while a handoff is at the steps between    *)
(* the one that sets it and the one that clears it.                           *)
Accounted(h) == /\ handingOff[h] => Working(h, Giving)
                /\ released[h] => Working(h, Releasing)
                /\ frozen[h] => Working(h, Freezing)
                /\ \A p \in panes[h] : reader[h][p] = "frozen" => Working(h, Stopping)
IFlags == \A h \in Hosts : ~Committed(h) => Accounted(h)
FlagsInv == TypeOK /\ IUnborn /\ IFlags

LEMMA InitFlags == Init => FlagsInv
  BY InitTypeOK DEF Init, FlagsInv, IUnborn, IFlags, Accounted

LEMMA KeepsIUnborn ==
  ASSUME TypeOK, IUnborn, Next
  PROVE  IUnborn'
<1> USE HandoffAssumption DEF TypeOK, IUnborn
<1>1. ASSUME NEW h \in Hosts, NEW p \in Panes, Spawn(h, p) \/ KillPane(h, p) \/ ReaderNext(h, p) PROVE IUnborn'
  <2>1. CASE Spawn(h, p) BY <2>1 DEF Spawn
  <2>2. CASE KillPane(h, p) BY <2>2 DEF KillPane
  <2>3. CASE PollFrozen(h, p) BY <2>3 DEF PollFrozen, SetReader
  <2>4. CASE PollData(h, p) BY <2>4 DEF PollData, SetReader
  <2>5. CASE PollEof(h, p) BY <2>5 DEF PollEof, SetReader
  <2>6. CASE Ingest(h, p) BY <2>6 DEF Ingest, SetReader
  <2> QED BY <1>1, <2>1, <2>2, <2>3, <2>4, <2>5, <2>6 DEF ReaderNext
<1>2. ASSUME NEW p \in Panes, Emit(p) \/ Dies(p) PROVE IUnborn'
  <2>1. CASE Emit(p) BY <2>1 DEF Emit
  <2>2. CASE Dies(p) BY <2>2 DEF Dies
  <2> QED BY <1>2, <2>1, <2>2
<1>3. ASSUME NEW n \in Hosts, OldNext(n) PROVE IUnborn'
  <2>1. CASE OldBegin(n) BY <2>1 DEF OldBegin
  <2>2. CASE OldFreeze(n) BY <2>2 DEF OldFreeze
  <2>3. CASE OldSend(n) BY <2>3 DEF OldSend, ReadersStopped
  <2>4. CASE OldBail(n) BY <2>4 DEF OldBail, HandTo
  <2>5. CASE OldReadAck(n) BY <2>5 DEF OldReadAck, HandTo
  <2>6. CASE OldRelease(n) BY <2>6 DEF OldRelease
  <2>7. CASE OldReleaseFails(n) BY <2>7 DEF OldReleaseFails, HandTo
  <2>8. CASE OldUnfreeze(n) BY <2>8 DEF OldUnfreeze, HandTo
  <2>9. CASE OldRestart(n) BY <2>9 DEF OldRestart
  <2>10. CASE OldAbort(n) BY <2>10 DEF OldAbort, HandTo
  <2>11. CASE OldStop(n) BY <2>11 DEF OldStop, Stopped
  <2> QED BY <1>3, <2>1, <2>2, <2>3, <2>4, <2>5, <2>6, <2>7, <2>8, <2>9, <2>10, <2>11 DEF OldNext
<1>4. ASSUME NEW n \in Hosts, NewNext(n) \/ NewFail(n) \/ Connect(n) PROVE IUnborn'
  <2>1. CASE Bind(n) BY <2>1 DEF Bind, PcTo
  <2>2. CASE NewAck(n) BY <2>2 DEF NewAck, PcTo
  <2>3. CASE NewGiveUp(n) BY <2>3 DEF NewGiveUp, PcTo
  <2>4. CASE Quit(n) BY <2>4 DEF Quit, Gone, PcTo
  <2>5. CASE NewStart(n) BY <2>5 DEF NewStart, PcTo
  <2>6. CASE NewRename(n) BY <2>6 DEF NewRename, PcTo
  <2>7. CASE NewRenameFails(n) BY <2>7 DEF NewRenameFails, PcTo
  <2>8. CASE NewFail(n) BY <2>8 DEF NewFail, PcTo
  <2>9. CASE Connect(n) BY <2>9 DEF Connect, PcTo, MayStart, Quiet, NewQuiet
  <2> QED BY <1>4, <2>1, <2>2, <2>3, <2>4, <2>5, <2>6, <2>7, <2>8, <2>9 DEF NewNext
<1>5. ASSUME NEW h \in Hosts, ServeNext(h) \/ Fresh(h) \/ Term(h) \/ Crash(h) PROVE IUnborn'
  <2>1. CASE ServeBreak(h) BY <2>1 DEF ServeBreak, PcTo
  <2>2. CASE KillAll(h) BY <2>2 DEF KillAll, PcTo
  <2>3. CASE CheckInode(h) BY <2>3 DEF CheckInode, PcTo
  <2>4. CASE Unlink(h) BY <2>4 DEF Unlink, PcTo
  <2>5. CASE Exit(h) BY <2>5 DEF Exit, Gone, PcTo
  <2>6. CASE Fresh(h) BY <2>6 DEF Fresh, PcTo
  <2>7. CASE Term(h) BY <2>7 DEF Term, Stopped
  <2>8. CASE Crash(h) BY <2>8 DEF Crash, Gone, PcTo
  <2> QED BY <1>5, <2>1, <2>2, <2>3, <2>4, <2>5, <2>6, <2>7, <2>8 DEF ServeNext
<1> QED BY <1>1, <1>2, <1>3, <1>4, <1>5 DEF Next

LEMMA OldKeepsFlags ==
  ASSUME FlagsInv, NEW n \in Hosts, OldNext(n), NEW h \in Hosts, ~Committed(h)'
  PROVE  Accounted(h)'
<1> USE HandoffAssumption DEF FlagsInv, TypeOK, Accounted
<1>1. ~OldRelease(n) => ~Committed(h)
  BY DEF OldNext, OldBegin, OldFreeze, OldSend, OldBail, OldReadAck, OldReleaseFails, OldUnfreeze, OldRestart, OldAbort,
         OldStop, HandTo, Committed
<1>2. CASE OldBegin(n)
  <2>1. hand' = [hand EXCEPT ![n] = "begun"] /\ peer' = peer /\ ~Committed(h)
    BY <1>1, <1>2 DEF OldBegin, OldRelease
  <2>2. Working(h, Giving) => Working(h, Giving)'
    BY <1>2, <2>1 DEF OldBegin, Working, Giving
  <2>3. Working(h, Releasing) => Working(h, Releasing)'
    BY <1>2, <2>1 DEF OldBegin, Working, Releasing
  <2>4. Working(h, Freezing) => Working(h, Freezing)'
    BY <1>2, <2>1 DEF OldBegin, Working, Freezing
  <2>5. Working(h, Stopping) => Working(h, Stopping)'
    BY <1>2, <2>1 DEF OldBegin, Working, Stopping
  <2>6. Working(peer[n], Giving)'
    BY <1>2, <2>1 DEF OldBegin, Working, Giving
  <2> QED BY <1>2, <2>1, <2>2, <2>3, <2>4, <2>5, <2>6 DEF OldBegin, IFlags
<1>3. CASE OldFreeze(n)
  <2>1. hand' = [hand EXCEPT ![n] = "freezing"] /\ peer' = peer /\ ~Committed(h)
    BY <1>1, <1>3 DEF OldFreeze, OldRelease
  <2>2. Working(h, Giving) => Working(h, Giving)'
    BY <1>3, <2>1 DEF OldFreeze, Working, Giving
  <2>3. Working(h, Releasing) => Working(h, Releasing)'
    BY <1>3, <2>1 DEF OldFreeze, Working, Releasing
  <2>4. Working(h, Freezing) => Working(h, Freezing)'
    BY <1>3, <2>1 DEF OldFreeze, Working, Freezing
  <2>5. Working(h, Stopping) => Working(h, Stopping)'
    BY <1>3, <2>1 DEF OldFreeze, Working, Stopping
  <2>6. Working(peer[n], Freezing)'
    BY <1>3, <2>1 DEF OldFreeze, Working, Freezing
  <2>7. Working(peer[n], Stopping)'
    BY <1>3, <2>1 DEF OldFreeze, Working, Stopping
  <2> QED BY <1>3, <2>1, <2>2, <2>3, <2>4, <2>5, <2>6, <2>7 DEF OldFreeze, IFlags
<1>4. CASE OldSend(n)
  <2>1. hand' = [hand EXCEPT ![n] = "sent"] /\ peer' = peer /\ ~Committed(h)
    BY <1>1, <1>4 DEF OldSend, ReadersStopped, OldRelease
  <2>2. Working(h, Giving) => Working(h, Giving)'
    BY <1>4, <2>1 DEF OldSend, ReadersStopped, Working, Giving
  <2>3. Working(h, Releasing) => Working(h, Releasing)'
    BY <1>4, <2>1 DEF OldSend, ReadersStopped, Working, Releasing
  <2>4. Working(h, Freezing) => Working(h, Freezing)'
    BY <1>4, <2>1 DEF OldSend, ReadersStopped, Working, Freezing
  <2>5. Working(h, Stopping) => Working(h, Stopping)'
    BY <1>4, <2>1 DEF OldSend, ReadersStopped, Working, Stopping
  <2> QED BY <1>4, <2>1, <2>2, <2>3, <2>4, <2>5 DEF OldSend, ReadersStopped, IFlags
<1>5. CASE OldBail(n)
  <2>1. hand' = [hand EXCEPT ![n] = "thaw"] /\ peer' = peer /\ ~Committed(h)
    BY <1>1, <1>5 DEF OldBail, HandTo, OldRelease
  <2>2. Working(h, Giving) => Working(h, Giving)'
    BY <1>5, <2>1 DEF OldBail, HandTo, Working, Giving
  <2>3. Working(h, Releasing) => Working(h, Releasing)'
    BY <1>5, <2>1 DEF OldBail, HandTo, Working, Releasing
  <2>4. Working(h, Freezing) => Working(h, Freezing)'
    BY <1>5, <2>1 DEF OldBail, HandTo, Working, Freezing
  <2>5. Working(h, Stopping) => Working(h, Stopping)'
    BY <1>5, <2>1 DEF OldBail, HandTo, Working, Stopping
  <2> QED BY <1>5, <2>1, <2>2, <2>3, <2>4, <2>5 DEF OldBail, HandTo, IFlags
<1>6. CASE OldReadAck(n)
  <2>1. hand' = [hand EXCEPT ![n] = "releasing"] /\ peer' = peer /\ ~Committed(h)
    BY <1>1, <1>6 DEF OldReadAck, HandTo, OldRelease
  <2>2. Working(h, Giving) => Working(h, Giving)'
    BY <1>6, <2>1 DEF OldReadAck, HandTo, Working, Giving
  <2>3. Working(h, Releasing) => Working(h, Releasing)'
    BY <1>6, <2>1 DEF OldReadAck, HandTo, Working, Releasing
  <2>4. Working(h, Freezing) => Working(h, Freezing)'
    BY <1>6, <2>1 DEF OldReadAck, HandTo, Working, Freezing
  <2>5. Working(h, Stopping) => Working(h, Stopping)'
    BY <1>6, <2>1 DEF OldReadAck, HandTo, Working, Stopping
  <2>6. Working(peer[n], Releasing)'
    BY <1>6, <2>1 DEF OldReadAck, HandTo, Working, Releasing
  <2> QED BY <1>6, <2>1, <2>2, <2>3, <2>4, <2>5, <2>6 DEF OldReadAck, HandTo, IFlags
<1>7. CASE OldReleaseFails(n)
  <2>1. hand' = [hand EXCEPT ![n] = "thaw"] /\ peer' = peer /\ ~Committed(h)
    BY <1>1, <1>7 DEF OldReleaseFails, HandTo, OldRelease
  <2>2. Working(h, Giving) => Working(h, Giving)'
    BY <1>7, <2>1 DEF OldReleaseFails, HandTo, Working, Giving
  <2>3. Working(h, Releasing) => Working(h, Releasing)'
    BY <1>7, <2>1 DEF OldReleaseFails, HandTo, Working, Releasing
  <2>4. Working(h, Freezing) => Working(h, Freezing)'
    BY <1>7, <2>1 DEF OldReleaseFails, HandTo, Working, Freezing
  <2>5. Working(h, Stopping) => Working(h, Stopping)'
    BY <1>7, <2>1 DEF OldReleaseFails, HandTo, Working, Stopping
  <2> QED BY <1>7, <2>1, <2>2, <2>3, <2>4, <2>5 DEF OldReleaseFails, HandTo, IFlags
<1>8. CASE OldUnfreeze(n)
  <2>1. hand' = [hand EXCEPT ![n] = "restart"] /\ peer' = peer /\ ~Committed(h)
    BY <1>1, <1>8 DEF OldUnfreeze, HandTo, OldRelease
  <2>2. Working(h, Giving) => Working(h, Giving)'
    BY <1>8, <2>1 DEF OldUnfreeze, HandTo, Working, Giving
  <2>3. Working(h, Releasing) => Working(h, Releasing)'
    BY <1>8, <2>1 DEF OldUnfreeze, HandTo, Working, Releasing
  <2>4. Working(h, Stopping) => Working(h, Stopping)'
    BY <1>8, <2>1 DEF OldUnfreeze, HandTo, Working, Stopping
  <2>5. peer[n] # h /\ Working(h, Freezing) => Working(h, Freezing)'
    BY <1>8, <2>1 DEF OldUnfreeze, HandTo, Working, Freezing
  <2> QED BY <1>8, <2>1, <2>2, <2>3, <2>4, <2>5 DEF OldUnfreeze, HandTo, IFlags
<1>9. CASE OldRestart(n)
  <2>1. hand' = [hand EXCEPT ![n] = "abort"] /\ peer' = peer /\ ~Committed(h)
    BY <1>1, <1>9 DEF OldRestart, OldRelease
  <2>2. Working(h, Giving) => Working(h, Giving)'
    BY <1>9, <2>1 DEF OldRestart, Working, Giving
  <2>3. Working(h, Releasing) => Working(h, Releasing)'
    BY <1>9, <2>1 DEF OldRestart, Working, Releasing
  <2>4. Working(h, Freezing) => Working(h, Freezing)'
    BY <1>9, <2>1 DEF OldRestart, Working, Freezing
  <2>5. peer[n] # h /\ Working(h, Stopping) => Working(h, Stopping)'
    BY <1>9, <2>1 DEF OldRestart, Working, Stopping
  <2>6. ASSUME NEW p \in panes'[h], reader'[h][p] = "frozen"
        PROVE  p \in panes[h] /\ reader[h][p] = "frozen" /\ peer[n] # h
    <3> DEFINE frozenOnes == {q \in panes[peer[n]] : reader[peer[n]][q] \in {"frozen", "stuck"}}
    <3>1. PICK how \in [frozenOnes -> {"running", "stuck", "lost"}] :
            reader' = [reader EXCEPT ![peer[n]] =
                         [q \in Panes |-> IF q \in frozenOnes THEN how[q] ELSE @[q]]]
      BY <1>9 DEF OldRestart
    <3>2. panes' = panes BY <1>9 DEF OldRestart
    <3>3. peer[n] = h => reader'[h] = [q \in Panes |-> IF q \in frozenOnes THEN how[q] ELSE reader[h][q]]
      BY <3>1
    <3>4. peer[n] # h => reader'[h] = reader[h] BY <3>1
    <3>5. CASE peer[n] = h
      <4>1. p \in Panes /\ p \in panes[h] BY <2>6, <3>2
      <4>2. reader'[h][p] = IF p \in frozenOnes THEN how[p] ELSE reader[h][p] BY <3>3, <3>5, <4>1
      <4>3. p \in frozenOnes => how[p] # "frozen" OBVIOUS
      <4>4. p \in frozenOnes <=> reader[h][p] \in {"frozen", "stuck"} BY <3>5, <4>1
      <4> HIDE DEF frozenOnes
      <4> QED BY <2>6, <4>2, <4>3, <4>4
    <3>6. CASE peer[n] # h BY <2>6, <3>2, <3>4, <3>6
    <3> QED BY <3>5, <3>6
  <2>7. /\ handingOff' = handingOff /\ released' = released /\ frozen' = frozen /\ panes' = panes
        /\ rel' = rel
    BY <1>9 DEF OldRestart
  <2> QED BY <2>1, <2>2, <2>3, <2>4, <2>5, <2>6, <2>7 DEF IFlags
<1>10. CASE OldAbort(n)
  <2>1. hand' = [hand EXCEPT ![n] = "over"] /\ peer' = peer /\ ~Committed(h)
    BY <1>1, <1>10 DEF OldAbort, HandTo, OldRelease
  <2>2. Working(h, Freezing) => Working(h, Freezing)'
    BY <1>10, <2>1 DEF OldAbort, HandTo, Working, Freezing
  <2>3. Working(h, Stopping) => Working(h, Stopping)'
    BY <1>10, <2>1 DEF OldAbort, HandTo, Working, Stopping
  <2>4. peer[n] # h /\ Working(h, Giving) => Working(h, Giving)'
    BY <1>10, <2>1 DEF OldAbort, HandTo, Working, Giving
  <2>5. peer[n] # h /\ Working(h, Releasing) => Working(h, Releasing)'
    BY <1>10, <2>1 DEF OldAbort, HandTo, Working, Releasing
  <2> QED BY <1>10, <2>1, <2>2, <2>3, <2>4, <2>5 DEF OldAbort, HandTo, IFlags
<1>11. CASE OldStop(n)
  <2>1. hand' = [hand EXCEPT ![n] = "over"] /\ peer' = peer /\ ~Committed(h)
    BY <1>1, <1>11 DEF OldStop, Stopped, OldRelease
  <2>2. Working(h, Giving) => Working(h, Giving)'
    BY <1>11, <2>1 DEF OldStop, Stopped, Working, Giving
  <2>3. Working(h, Releasing) => Working(h, Releasing)'
    BY <1>11, <2>1 DEF OldStop, Stopped, Working, Releasing
  <2>4. Working(h, Freezing) => Working(h, Freezing)'
    BY <1>11, <2>1 DEF OldStop, Stopped, Working, Freezing
  <2>5. Working(h, Stopping) => Working(h, Stopping)'
    BY <1>11, <2>1 DEF OldStop, Stopped, Working, Stopping
  <2> QED BY <1>11, <2>1, <2>2, <2>3, <2>4, <2>5 DEF OldStop, Stopped, IFlags
<1>12. CASE OldRelease(n)
  <2>1. hand' = [hand EXCEPT ![n] = "committed"] /\ peer' = peer /\ peer[n] # h /\ ~Committed(h)
    BY <1>12 DEF OldRelease, Committed
  <2>2. \A S : Working(h, S) => Working(h, S)'
    BY <2>1 DEF Working
  <2> QED BY <1>12, <2>1, <2>2 DEF OldRelease, IFlags
<1> QED BY <1>2, <1>3, <1>4, <1>5, <1>6, <1>7, <1>8, <1>9, <1>10, <1>11, <1>12 DEF OldNext

(* Every other step leaves the hands and flags of the handoffs alone.       *)
LEMMA OthersKeepHands ==
  ASSUME FlagsInv, \A n \in Hosts : ~OldNext(n), Next
  PROVE  /\ hand' = hand /\ rel' = rel /\ frozen' = frozen /\ handingOff' = handingOff /\ released' = released
         /\ \A m \in Hosts : hand[m] # "none" => peer'[m] = peer[m]
<1> USE HandoffAssumption DEF FlagsInv, TypeOK, IUnborn
<1>1. ASSUME NEW h \in Hosts, NEW p \in Panes, Spawn(h, p) \/ KillPane(h, p) \/ ReaderNext(h, p) PROVE /\ hand' = hand /\ rel' = rel /\ frozen' = frozen /\ handingOff' = handingOff /\ released' = released
         /\ \A m \in Hosts : hand[m] # "none" => peer'[m] = peer[m]
  <2>1. CASE Spawn(h, p) BY <2>1 DEF Spawn
  <2>2. CASE KillPane(h, p) BY <2>2 DEF KillPane
  <2>3. CASE PollFrozen(h, p) BY <2>3 DEF PollFrozen, SetReader
  <2>4. CASE PollData(h, p) BY <2>4 DEF PollData, SetReader
  <2>5. CASE PollEof(h, p) BY <2>5 DEF PollEof, SetReader
  <2>6. CASE Ingest(h, p) BY <2>6 DEF Ingest, SetReader
  <2> QED BY <1>1, <2>1, <2>2, <2>3, <2>4, <2>5, <2>6 DEF ReaderNext
<1>2. ASSUME NEW p \in Panes, Emit(p) \/ Dies(p) PROVE /\ hand' = hand /\ rel' = rel /\ frozen' = frozen /\ handingOff' = handingOff /\ released' = released
         /\ \A m \in Hosts : hand[m] # "none" => peer'[m] = peer[m]
  <2>1. CASE Emit(p) BY <2>1 DEF Emit
  <2>2. CASE Dies(p) BY <2>2 DEF Dies
  <2> QED BY <1>2, <2>1, <2>2
<1>3. ASSUME NEW n \in Hosts, OldNext(n) PROVE FALSE BY <1>3
<1>4. ASSUME NEW n \in Hosts, NewNext(n) \/ NewFail(n) \/ Connect(n) PROVE /\ hand' = hand /\ rel' = rel /\ frozen' = frozen /\ handingOff' = handingOff /\ released' = released
         /\ \A m \in Hosts : hand[m] # "none" => peer'[m] = peer[m]
  <2>1. CASE Bind(n) BY <2>1 DEF Bind, PcTo
  <2>2. CASE NewAck(n) BY <2>2 DEF NewAck, PcTo
  <2>3. CASE NewGiveUp(n) BY <2>3 DEF NewGiveUp, PcTo
  <2>4. CASE Quit(n) BY <2>4 DEF Quit, Gone, PcTo
  <2>5. CASE NewStart(n) BY <2>5 DEF NewStart, PcTo
  <2>6. CASE NewRename(n) BY <2>6 DEF NewRename, PcTo
  <2>7. CASE NewRenameFails(n) BY <2>7 DEF NewRenameFails, PcTo
  <2>8. CASE NewFail(n) BY <2>8 DEF NewFail, PcTo
  <2>9. CASE Connect(n) BY <2>9 DEF Connect, PcTo, MayStart, Quiet, NewQuiet
  <2> QED BY <1>4, <2>1, <2>2, <2>3, <2>4, <2>5, <2>6, <2>7, <2>8, <2>9 DEF NewNext
<1>5. ASSUME NEW h \in Hosts, ServeNext(h) \/ Fresh(h) \/ Term(h) \/ Crash(h) PROVE /\ hand' = hand /\ rel' = rel /\ frozen' = frozen /\ handingOff' = handingOff /\ released' = released
         /\ \A m \in Hosts : hand[m] # "none" => peer'[m] = peer[m]
  <2>1. CASE ServeBreak(h) BY <2>1 DEF ServeBreak, PcTo
  <2>2. CASE KillAll(h) BY <2>2 DEF KillAll, PcTo
  <2>3. CASE CheckInode(h) BY <2>3 DEF CheckInode, PcTo
  <2>4. CASE Unlink(h) BY <2>4 DEF Unlink, PcTo
  <2>5. CASE Exit(h) BY <2>5 DEF Exit, Gone, PcTo
  <2>6. CASE Fresh(h) BY <2>6 DEF Fresh, PcTo
  <2>7. CASE Term(h) BY <2>7 DEF Term, Stopped
  <2>8. CASE Crash(h) BY <2>8 DEF Crash, Gone, PcTo
  <2> QED BY <1>5, <2>1, <2>2, <2>3, <2>4, <2>5, <2>6, <2>7, <2>8 DEF ServeNext
<1> QED BY <1>1, <1>2, <1>3, <1>4, <1>5 DEF Next

LEMMA OthersKeepReaders ==
  ASSUME FlagsInv, \A n \in Hosts : ~OldNext(n), Next
  PROVE  \A g \in Hosts, q \in Panes :
            q \in panes'[g] /\ reader'[g][q] = "frozen" =>
              frozen[g] \/ (q \in panes[g] /\ reader[g][q] = "frozen")
<1> USE HandoffAssumption DEF FlagsInv, TypeOK
<1>1. ASSUME NEW h \in Hosts, NEW p \in Panes, Spawn(h, p) \/ KillPane(h, p) \/ ReaderNext(h, p) PROVE \A g \in Hosts, q \in Panes :
            q \in panes'[g] /\ reader'[g][q] = "frozen" =>
              frozen[g] \/ (q \in panes[g] /\ reader[g][q] = "frozen")
  <2>1. CASE Spawn(h, p) BY <2>1 DEF Spawn
  <2>2. CASE KillPane(h, p) BY <2>2 DEF KillPane
  <2>3. CASE PollFrozen(h, p) BY <2>3 DEF PollFrozen, SetReader
  <2>4. CASE PollData(h, p) BY <2>4 DEF PollData, SetReader
  <2>5. CASE PollEof(h, p) BY <2>5 DEF PollEof, SetReader
  <2>6. CASE Ingest(h, p) BY <2>6 DEF Ingest, SetReader
  <2> QED BY <1>1, <2>1, <2>2, <2>3, <2>4, <2>5, <2>6 DEF ReaderNext
<1>2. ASSUME NEW p \in Panes, Emit(p) \/ Dies(p) PROVE \A g \in Hosts, q \in Panes :
            q \in panes'[g] /\ reader'[g][q] = "frozen" =>
              frozen[g] \/ (q \in panes[g] /\ reader[g][q] = "frozen")
  <2>1. CASE Emit(p) BY <2>1 DEF Emit
  <2>2. CASE Dies(p) BY <2>2 DEF Dies
  <2> QED BY <1>2, <2>1, <2>2
<1>3. ASSUME NEW n \in Hosts, OldNext(n) PROVE FALSE BY <1>3
<1>4. ASSUME NEW n \in Hosts, NewNext(n) \/ NewFail(n) \/ Connect(n) PROVE \A g \in Hosts, q \in Panes :
            q \in panes'[g] /\ reader'[g][q] = "frozen" =>
              frozen[g] \/ (q \in panes[g] /\ reader[g][q] = "frozen")
  <2>1. CASE Bind(n) BY <2>1 DEF Bind, PcTo
  <2>2. CASE NewAck(n) BY <2>2 DEF NewAck, PcTo
  <2>3. CASE NewGiveUp(n) BY <2>3 DEF NewGiveUp, PcTo
  <2>4. CASE Quit(n) BY <2>4 DEF Quit, Gone, PcTo
  <2>5. CASE NewStart(n) BY <2>5 DEF NewStart, PcTo
  <2>6. CASE NewRename(n) BY <2>6 DEF NewRename, PcTo
  <2>7. CASE NewRenameFails(n) BY <2>7 DEF NewRenameFails, PcTo
  <2>8. CASE NewFail(n) BY <2>8 DEF NewFail, PcTo
  <2>9. CASE Connect(n) BY <2>9 DEF Connect, PcTo, MayStart, Quiet, NewQuiet
  <2> QED BY <1>4, <2>1, <2>2, <2>3, <2>4, <2>5, <2>6, <2>7, <2>8, <2>9 DEF NewNext
<1>5. ASSUME NEW h \in Hosts, ServeNext(h) \/ Fresh(h) \/ Term(h) \/ Crash(h) PROVE \A g \in Hosts, q \in Panes :
            q \in panes'[g] /\ reader'[g][q] = "frozen" =>
              frozen[g] \/ (q \in panes[g] /\ reader[g][q] = "frozen")
  <2>1. CASE ServeBreak(h) BY <2>1 DEF ServeBreak, PcTo
  <2>2. CASE KillAll(h) BY <2>2 DEF KillAll, PcTo
  <2>3. CASE CheckInode(h) BY <2>3 DEF CheckInode, PcTo
  <2>4. CASE Unlink(h) BY <2>4 DEF Unlink, PcTo
  <2>5. CASE Exit(h) BY <2>5 DEF Exit, Gone, PcTo
  <2>6. CASE Fresh(h) BY <2>6 DEF Fresh, PcTo
  <2>7. CASE Term(h) BY <2>7 DEF Term, Stopped
  <2>8. CASE Crash(h) BY <2>8 DEF Crash, Gone, PcTo
  <2> QED BY <1>5, <2>1, <2>2, <2>3, <2>4, <2>5, <2>6, <2>7, <2>8 DEF ServeNext
<1> QED BY <1>1, <1>2, <1>3, <1>4, <1>5 DEF Next

LEMMA OthersKeepFlags ==
  ASSUME FlagsInv, Next, \A n \in Hosts : ~OldNext(n), NEW h \in Hosts, ~Committed(h)'
  PROVE  Accounted(h)'
<1>1. /\ hand' = hand /\ rel' = rel /\ frozen' = frozen /\ handingOff' = handingOff /\ released' = released
      /\ \A m \in Hosts : hand[m] # "none" => peer'[m] = peer[m]
  BY OthersKeepHands
<1>2. Accounted(h)
  BY <1>1 DEF FlagsInv, TypeOK, IFlags, IUnborn, Committed
<1>3. \A S : Working(h, S) /\ "none" \notin S => Working(h, S)'
  BY <1>1 DEF Working
<1>4. /\ Working(h, Giving) => Working(h, Giving)'
      /\ Working(h, Releasing) => Working(h, Releasing)'
      /\ Working(h, Freezing) => Working(h, Freezing)'
      /\ Working(h, Stopping) => Working(h, Stopping)'
  BY <1>3 DEF Giving, Releasing, Freezing, Stopping
<1>5. Working(h, Freezing) => Working(h, Stopping)
  BY DEF Working, Freezing, Stopping
<1>6. \A q \in panes'[h] : reader'[h][q] = "frozen" =>
        frozen[h] \/ (q \in panes[h] /\ reader[h][q] = "frozen")
  <2>1. panes'[h] \subseteq Panes BY NextTypeOK DEF FlagsInv, TypeOK
  <2> QED BY <2>1, OthersKeepReaders
<1> QED BY <1>1, <1>2, <1>4, <1>5, <1>6 DEF Accounted

LEMMA NextFlags == FlagsInv /\ [Next]_vars => FlagsInv'
<1> SUFFICES ASSUME FlagsInv, [Next]_vars PROVE FlagsInv'
  OBVIOUS
<1>1. TypeOK' BY NextTypeOK DEF FlagsInv
<1>2. CASE UNCHANGED vars
  BY <1>1, <1>2 DEF vars, FlagsInv, IUnborn, IFlags, Accounted, Working, Committed
<1>3. CASE Next
  <2>1. IUnborn' BY <1>3, KeepsIUnborn DEF FlagsInv
  <2>2. IFlags' BY <1>3, OldKeepsFlags, OthersKeepFlags DEF IFlags
  <2> QED BY <1>1, <2>1, <2>2 DEF FlagsInv
<1> QED BY <1>2, <1>3

(* A host that no takeover is working on and that released nothing is whole,  *)
(* whatever the takeovers before did and however they overlapped: thaw undid  *)
(* the freeze, the pending release and the refusal of spawns (handoff.rs:142),*)
(* but for a reader whose own restart failed.                                 *)
THEOREM IdleIsWhole == Spec => []IdleHostWhole
<1>1. Init => FlagsInv BY InitFlags
<1>2. FlagsInv /\ [Next]_vars => FlagsInv' BY NextFlags
<1>3. FlagsInv => IdleHostWhole
  <2> SUFFICES ASSUME FlagsInv, Quiet, NEW h \in Hosts, pc[h] = "serving", ~Committed(h)
               PROVE  /\ ~handingOff[h] /\ ~released[h] /\ ~frozen[h]
                      /\ \A p \in panes[h] : reader[h][p] # "frozen"
    BY DEF IdleHostWhole
  <2>1. Accounted(h) BY DEF FlagsInv, IFlags
  <2>2. \A S : Working(h, S) => "none" \in S \/ "over" \in S
    BY DEF Quiet, Working, Async
  <2>3. ~Working(h, Giving) /\ ~Working(h, Releasing) /\ ~Working(h, Freezing) /\ ~Working(h, Stopping)
    BY <2>2 DEF Giving, Releasing, Freezing, Stopping
  <2> QED BY <2>1, <2>3 DEF Accounted, FlagsInv, TypeOK
<1> QED BY <1>1, <1>2, <1>3, PTL DEF Spec

-----------------------------------------------------------------------------
(* Without other faults than failures before the release, of prepare, of start *)
(* and of restarts, an upgrade costs the panes that were not adopted only.     *)

Smooth == Overlap = "none" /\ Events \subseteq {"kill", "fail", "prepare", "start", "restart"}

(* Nobody gives up once released, and old stops only after its successor is   *)
(* behind the socket.                                                         *)
ISmooth == /\ sock # NoHost /\ pc[sock] = "serving"
           /\ \A n \in Hosts :
                /\ pc[n] \notin {"killing", "cleaning", "unlinking", "crashed"}
                /\ stop[n] # "shutdown"
                /\ n \in rel => pc[n] # "quitting" /\ (pc[n] = "exited" => ino[n] # NoHost)
                /\ n \in rel /\ hand[n] = "over" => ino[n] # NoHost
                /\ n \in ack /\ hand[n] \in {"sent", "releasing"} /\ pc[n] \in {"quitting", "exited"} =>
                     pc[peer[n]] = "exited"
                /\ stop[n] = "handedoff" => \E m \in rel : peer[m] = n /\ hand[m] = "over"

LEMMA InitSmooth == Init => ISmooth
  BY HandoffAssumption DEF Init, ISmooth

LEMMA KeepsISmooth ==
  ASSUME Smooth, ControlInv, ISmooth, Next
  PROVE  ISmooth'
<1> USE HandoffAssumption DEF OneReaderInv, Exclusive, Control, TypeOK, ControlInv, ISmooth, Up, Async, Closed, Smooth
<1>1. ASSUME NEW h \in Hosts, NEW p \in Panes, Spawn(h, p) \/ KillPane(h, p) \/ ReaderNext(h, p) PROVE ISmooth'
  <2>1. CASE Spawn(h, p) BY <2>1 DEF Spawn
  <2>2. CASE KillPane(h, p) BY <2>2 DEF KillPane
  <2>3. CASE PollFrozen(h, p) BY <2>3 DEF PollFrozen, SetReader
  <2>4. CASE PollData(h, p) BY <2>4 DEF PollData, SetReader
  <2>5. CASE PollEof(h, p) BY <2>5 DEF PollEof, SetReader
  <2>6. CASE Ingest(h, p) BY <2>6 DEF Ingest, SetReader
  <2> QED BY <1>1, <2>1, <2>2, <2>3, <2>4, <2>5, <2>6 DEF ReaderNext
<1>2. ASSUME NEW p \in Panes, Emit(p) \/ Dies(p) PROVE ISmooth'
  <2>1. CASE Emit(p) BY <2>1 DEF Emit
  <2>2. CASE Dies(p) BY <2>2 DEF Dies
  <2> QED BY <1>2, <2>1, <2>2
<1>3. ASSUME NEW n \in Hosts, OldNext(n) PROVE ISmooth'
  <2>1. CASE OldBegin(n) BY <2>1 DEF OldBegin
  <2>2. CASE OldFreeze(n) BY <2>2 DEF OldFreeze
  <2>3. CASE OldSend(n) BY <2>3 DEF OldSend, ReadersStopped, IAck
  <2>4. CASE OldBail(n) BY <2>4 DEF OldBail, HandTo
  <2>5. CASE OldReadAck(n) BY <2>5 DEF OldReadAck, HandTo
  <2>6. CASE OldRelease(n) BY <2>6 DEF OldRelease, IAck
  <2>7. CASE OldReleaseFails(n) BY <2>7 DEF OldReleaseFails, HandTo
  <2>8. CASE OldUnfreeze(n) BY <2>8 DEF OldUnfreeze, HandTo
  <2>9. CASE OldRestart(n) BY <2>9 DEF OldRestart
  <2>10. CASE OldAbort(n) BY <2>10 DEF OldAbort, HandTo, IRel
  <2>11. CASE OldStop(n)
    <3>1. n \in rel /\ ino[n] # NoHost
      BY <2>11 DEF OldStop, IAck, IServes, PC
    <3> QED BY <2>11, <3>1 DEF OldStop, Stopped
  <2> QED BY <1>3, <2>1, <2>2, <2>3, <2>4, <2>5, <2>6, <2>7, <2>8, <2>9, <2>10, <2>11 DEF OldNext
<1>4. ASSUME NEW n \in Hosts, NewNext(n) \/ NewFail(n) \/ Connect(n) PROVE ISmooth'
  <2>1. CASE Bind(n) BY <2>1 DEF Bind, PcTo
  <2>2. CASE NewAck(n) BY <2>2 DEF NewAck, PcTo
  <2>3. CASE NewGiveUp(n)
    <3>1. n \notin rel BY <2>3 DEF NewGiveUp, IAck
    <3>2. n \in ack => pc[n] = "acked" BY <2>3 DEF NewGiveUp, IAck
    <3>3. n \in ack => PeerGone(n) BY <2>3, <3>2 DEF NewGiveUp
    <3>4. hand[n] \in {"sent", "releasing"} => pc[peer[n]] \notin {"unborn", "crashed"}
      BY DEF IPeer, NotYet
    <3>5. n \in ack /\ hand[n] \in {"sent", "releasing"} => pc[peer[n]] = "exited"
      BY <3>3, <3>4 DEF PeerGone
    <3> QED BY <2>3, <3>1, <3>5 DEF NewGiveUp, PcTo
  <2>4. CASE Quit(n) BY <2>4 DEF Quit, Gone, PcTo
  <2>5. CASE NewStart(n) BY <2>5 DEF NewStart, PcTo
  <2>6. CASE NewRename(n)
    <3>1. next = n BY <2>6 DEF NewRename, INext
    <3> QED BY <2>6, <3>1 DEF NewRename, PcTo
  <2>7. CASE NewRenameFails(n) BY <2>7 DEF NewRenameFails, PcTo, INext
  <2>8. CASE NewFail(n) BY <2>8 DEF NewFail, PcTo, IAck
  <2>9. CASE Connect(n)
    <3>1. n \notin rel /\ n \notin ack BY <2>9 DEF Connect, IAck
    <3>2. \A m \in rel : peer'[m] = peer[m] BY <2>9, <3>1 DEF Connect
    <3> QED BY <2>9, <3>1, <3>2 DEF Connect, PcTo
  <2> QED BY <1>4, <2>1, <2>2, <2>3, <2>4, <2>5, <2>6, <2>7, <2>8, <2>9 DEF NewNext
<1>5. ASSUME NEW h \in Hosts, ServeNext(h) \/ Fresh(h) \/ Term(h) \/ Crash(h) PROVE ISmooth'
  <2>1. CASE ServeBreak(h)
    <3>1. PICK m \in rel : peer[m] = h /\ hand[m] = "over" BY <2>1 DEF ServeBreak
    <3>2. sock # h BY <3>1 DEF IMoved
    <3> QED BY <2>1, <3>2 DEF ServeBreak, PcTo
  <2>2. CASE KillAll(h) BY <2>2 DEF KillAll, PcTo
  <2>3. CASE CheckInode(h) BY <2>3 DEF CheckInode, PcTo
  <2>4. CASE Unlink(h) BY <2>4 DEF Unlink, PcTo
  <2>5. CASE Exit(h) BY <2>5 DEF Exit, Gone, PcTo, IServes, IAck, IRel
  <2>6. CASE Fresh(h) BY <2>6 DEF Fresh, PcTo
  <2>7. CASE Term(h) BY <2>7 DEF Term, Stopped
  <2>8. CASE Crash(h) BY <2>8 DEF Crash, Gone, PcTo
  <2> QED BY <1>5, <2>1, <2>2, <2>3, <2>4, <2>5, <2>6, <2>7, <2>8 DEF ServeNext
<1> QED BY <1>1, <1>2, <1>3, <1>4, <1>5 DEF Next

SmoothInv == FaultInv /\ FlagsInv /\ ISmooth

LEMMA NextSmooth == ASSUME Smooth, SmoothInv, [Next]_vars PROVE SmoothInv'
<1>1. FaultInv' BY NextFault DEF SmoothInv, Smooth
<1>2. FlagsInv' BY NextFlags DEF SmoothInv
<1>3. CASE UNCHANGED vars BY <1>1, <1>2, <1>3 DEF vars, SmoothInv, ISmooth
<1>4. CASE Next BY <1>1, <1>2, <1>4, KeepsISmooth DEF SmoothInv, FaultInv
<1> QED BY <1>3, <1>4

LEMMA SmoothHolds == ASSUME Smooth PROVE Spec => []SmoothInv
<1>1. Init => SmoothInv BY InitFault, InitFlags, InitSmooth DEF SmoothInv
<1>2. SmoothInv /\ [Next]_vars => SmoothInv' BY NextSmooth
<1> QED BY <1>1, <1>2, PTL DEF Spec

LEMMA NobodyGaveUp == SmoothInv => \A n \in rel : ~GaveUp(n)
<1> SUFFICES ASSUME SmoothInv, NEW n \in rel PROVE ~GaveUp(n)
  OBVIOUS
<1>1. n \in Hosts BY DEF SmoothInv, FaultInv, ControlInv, OneReaderInv, TypeOK
<1> QED BY <1>1 DEF SmoothInv, ISmooth, GaveUp, Closed

LEMMA SmoothCost ==
  ASSUME SmoothInv, NEW h \in Hosts, NEW p \in Panes, Cost(h, p) PROVE p \in unadopted[h]
  BY NobodyGaveUp DEF SmoothInv, ISmooth, Cost, GaveUp

(* An upgrade, completed or given up before the release, costs no agent its   *)
(* terminal that the successor could prepare and start, leaves a listening    *)
(* host at the socket at every moment, and an old host that failed to hand    *)
(* over whole, but for the readers that could not be restarted.               *)
THEOREM UpgradeIsSafe ==
  ASSUME Overlap = "none", Events \subseteq {"kill", "fail", "prepare", "start", "restart"}
  PROVE  Spec => []UpgradeSafe
<1>1. Smooth BY DEF Smooth
<1>2. Spec => []SmoothInv BY <1>1, SmoothHolds
<1>3. SmoothInv => NoOrphan /\ AlwaysReachable
  <2> SUFFICES ASSUME SmoothInv PROVE NoOrphan /\ AlwaysReachable
    OBVIOUS
  <2>1. AlwaysReachable BY DEF SmoothInv, ISmooth, AlwaysReachable
  <2>2. ASSUME NEW p \in Panes, Orphan(p) PROVE home[p] \in Hosts /\ p \in unadopted[home[p]]
    BY <2>2, SmoothCost, AnsweredIsHeld DEF SmoothInv, FaultInv, ICover, Orphan
  <2> QED BY <2>1, <2>2 DEF NoOrphan
<1>4. Spec => []IdleHostWhole BY IdleIsWhole
<1> QED BY <1>2, <1>3, <1>4, PTL DEF UpgradeSafe

-----------------------------------------------------------------------------
(* Screens: as long as a successor that started the panes lives to serve.     *)

Lasting == Overlap = "none" /\ Events \cap {"rename", "crash"} = {}

(* The last host that started p: its emulator is the one that counts.         *)
Keeps(h, p) == Up(h) /\ p \in panes[h] \ signalled /\ ~Went(h)

IFresh == \A p \in Panes : proc[p] = "none" =>
            out[p] = 0 /\ p \notin signalled /\ \A h \in Hosts : screen[h][p] = {}
IOneKeeper == \A p \in Panes, g, h \in Hosts : Keeps(g, p) /\ Keeps(h, p) => g = h
IKeptByOld == \A n, g \in Hosts, p \in Panes :
                /\ Succ(n) /\ hand[n] \notin {"none", "begun"}
                /\ p \in pend[n] /\ Keeps(g, p)
                => g = peer[n]
IKeeperReads == \A p \in Panes, g, h \in Hosts : Keeps(g, p) /\ Reading(h, p) => g = h
IScreen == \A h \in Hosts, p \in Panes : Keeps(h, p) => screen[h][p] = 1..rd[p]
(* The replay stays what old's emulator held: nobody reads until the start.   *)
IReplay == \A n \in Hosts, p \in Panes :
             /\ Succ(n) /\ p \in pend[n] \ signalled
             /\ hand[n] \in {"sent", "releasing"} \/ n \in rel
             => screen[n][p] = 1..rd[p]
Screens == IFresh /\ IOneKeeper /\ IKeptByOld /\ IKeeperReads /\ IScreen /\ IReplay
ScreenInv == ControlInv /\ Screens

LEMMA InitScreens == Init => Screens
  BY HandoffAssumption
     DEF Init, Screens, IFresh, IOneKeeper, IKeptByOld, IKeeperReads, IScreen, IReplay, Keeps, Reading

LEMMA NextIFresh ==
  ASSUME ControlInv, IFresh, Next
  PROVE  IFresh'
<1> USE HandoffAssumption DEF OneReaderInv, Exclusive, Control, TypeOK, ControlInv, IFresh
<1>1. ASSUME NEW h \in Hosts, NEW p \in Panes, Spawn(h, p) \/ KillPane(h, p) \/ ReaderNext(h, p) PROVE IFresh'
  <2>1. CASE Spawn(h, p) BY <2>1 DEF Spawn
  <2>2. CASE KillPane(h, p) BY <2>2 DEF KillPane, IUnspawned
  <2>3. CASE PollFrozen(h, p) BY <2>3 DEF PollFrozen, SetReader
  <2>4. CASE PollData(h, p) BY <2>4 DEF PollData, SetReader
  <2>5. CASE PollEof(h, p) BY <2>5 DEF PollEof, SetReader
  <2>6. CASE Ingest(h, p) BY <2>6 DEF Ingest, SetReader
  <2> QED BY <1>1, <2>1, <2>2, <2>3, <2>4, <2>5, <2>6 DEF ReaderNext
<1>2. ASSUME NEW p \in Panes, Emit(p) \/ Dies(p) PROVE IFresh'
  <2>1. CASE Emit(p) BY <2>1 DEF Emit
  <2>2. CASE Dies(p) BY <2>2 DEF Dies
  <2> QED BY <1>2, <2>1, <2>2
<1>3. ASSUME NEW n \in Hosts, OldNext(n) PROVE IFresh'
  <2>1. CASE OldBegin(n) BY <2>1 DEF OldBegin
  <2>2. CASE OldFreeze(n) BY <2>2 DEF OldFreeze
  <2>3. CASE OldSend(n) BY <2>3 DEF OldSend, ReadersStopped, IUnspawned
  <2>4. CASE OldBail(n) BY <2>4 DEF OldBail, HandTo
  <2>5. CASE OldReadAck(n) BY <2>5 DEF OldReadAck, HandTo
  <2>6. CASE OldRelease(n) BY <2>6 DEF OldRelease
  <2>7. CASE OldReleaseFails(n) BY <2>7 DEF OldReleaseFails, HandTo
  <2>8. CASE OldUnfreeze(n) BY <2>8 DEF OldUnfreeze, HandTo
  <2>9. CASE OldRestart(n) BY <2>9 DEF OldRestart
  <2>10. CASE OldAbort(n) BY <2>10 DEF OldAbort, HandTo
  <2>11. CASE OldStop(n) BY <2>11 DEF OldStop, Stopped
  <2> QED BY <1>3, <2>1, <2>2, <2>3, <2>4, <2>5, <2>6, <2>7, <2>8, <2>9, <2>10, <2>11 DEF OldNext
<1>4. ASSUME NEW n \in Hosts, NewNext(n) \/ NewFail(n) \/ Connect(n) PROVE IFresh'
  <2>1. CASE Bind(n) BY <2>1 DEF Bind, PcTo
  <2>2. CASE NewAck(n) BY <2>2 DEF NewAck, PcTo
  <2>3. CASE NewGiveUp(n) BY <2>3 DEF NewGiveUp, PcTo
  <2>4. CASE Quit(n) BY <2>4 DEF Quit, Gone, PcTo
  <2>5. CASE NewStart(n) BY <2>5 DEF NewStart, PcTo
  <2>6. CASE NewRename(n) BY <2>6 DEF NewRename, PcTo
  <2>7. CASE NewRenameFails(n) BY <2>7 DEF NewRenameFails, PcTo
  <2>8. CASE NewFail(n) BY <2>8 DEF NewFail, PcTo
  <2>9. CASE Connect(n) BY <2>9 DEF Connect, PcTo, MayStart, Quiet, NewQuiet
  <2> QED BY <1>4, <2>1, <2>2, <2>3, <2>4, <2>5, <2>6, <2>7, <2>8, <2>9 DEF NewNext
<1>5. ASSUME NEW h \in Hosts, ServeNext(h) \/ Fresh(h) \/ Term(h) \/ Crash(h) PROVE IFresh'
  <2>1. CASE ServeBreak(h) BY <2>1 DEF ServeBreak, PcTo
  <2>2. CASE KillAll(h) BY <2>2 DEF KillAll, PcTo, IUnspawned
  <2>3. CASE CheckInode(h) BY <2>3 DEF CheckInode, PcTo
  <2>4. CASE Unlink(h) BY <2>4 DEF Unlink, PcTo
  <2>5. CASE Exit(h) BY <2>5 DEF Exit, Gone, PcTo
  <2>6. CASE Fresh(h) BY <2>6 DEF Fresh, PcTo
  <2>7. CASE Term(h) BY <2>7 DEF Term, Stopped
  <2>8. CASE Crash(h) BY <2>8 DEF Crash, Gone, PcTo
  <2> QED BY <1>5, <2>1, <2>2, <2>3, <2>4, <2>5, <2>6, <2>7, <2>8 DEF ServeNext
<1> QED BY <1>1, <1>2, <1>3, <1>4, <1>5 DEF Next

LEMMA WentForGood ==
  ASSUME Lasting, ControlInv, Next
  PROVE  \A g \in Hosts : Went(g) => Went(g)'
<1> USE HandoffAssumption DEF OneReaderInv, Exclusive, Control, TypeOK, ControlInv, Lasting, Went
<1>1. ASSUME NEW h \in Hosts, NEW p \in Panes, Spawn(h, p) \/ KillPane(h, p) \/ ReaderNext(h, p) PROVE \A g \in Hosts : Went(g) => Went(g)'
  <2>1. CASE Spawn(h, p) BY <2>1 DEF Spawn
  <2>2. CASE KillPane(h, p) BY <2>2 DEF KillPane
  <2>3. CASE PollFrozen(h, p) BY <2>3 DEF PollFrozen, SetReader
  <2>4. CASE PollData(h, p) BY <2>4 DEF PollData, SetReader
  <2>5. CASE PollEof(h, p) BY <2>5 DEF PollEof, SetReader
  <2>6. CASE Ingest(h, p) BY <2>6 DEF Ingest, SetReader
  <2> QED BY <1>1, <2>1, <2>2, <2>3, <2>4, <2>5, <2>6 DEF ReaderNext
<1>2. ASSUME NEW p \in Panes, Emit(p) \/ Dies(p) PROVE \A g \in Hosts : Went(g) => Went(g)'
  <2>1. CASE Emit(p) BY <2>1 DEF Emit
  <2>2. CASE Dies(p) BY <2>2 DEF Dies
  <2> QED BY <1>2, <2>1, <2>2
<1>3. ASSUME NEW n \in Hosts, OldNext(n) PROVE \A g \in Hosts : Went(g) => Went(g)'
  <2>1. CASE OldBegin(n) BY <2>1 DEF OldBegin
  <2>2. CASE OldFreeze(n) BY <2>2 DEF OldFreeze
  <2>3. CASE OldSend(n) BY <2>3 DEF OldSend, ReadersStopped
  <2>4. CASE OldBail(n) BY <2>4 DEF OldBail, HandTo
  <2>5. CASE OldReadAck(n) BY <2>5 DEF OldReadAck, HandTo
  <2>6. CASE OldRelease(n) BY <2>6 DEF OldRelease
  <2>7. CASE OldReleaseFails(n) BY <2>7 DEF OldReleaseFails, HandTo
  <2>8. CASE OldUnfreeze(n) BY <2>8 DEF OldUnfreeze, HandTo
  <2>9. CASE OldRestart(n) BY <2>9 DEF OldRestart
  <2>10. CASE OldAbort(n) BY <2>10 DEF OldAbort, HandTo
  <2>11. CASE OldStop(n) BY <2>11 DEF OldStop, Stopped
  <2> QED BY <1>3, <2>1, <2>2, <2>3, <2>4, <2>5, <2>6, <2>7, <2>8, <2>9, <2>10, <2>11 DEF OldNext
<1>4. ASSUME NEW n \in Hosts, NewNext(n) \/ NewFail(n) \/ Connect(n) PROVE \A g \in Hosts : Went(g) => Went(g)'
  <2>1. CASE Bind(n) BY <2>1 DEF Bind, PcTo
  <2>2. CASE NewAck(n) BY <2>2 DEF NewAck, PcTo
  <2>3. CASE NewGiveUp(n) BY <2>3 DEF NewGiveUp, PcTo
  <2>4. CASE Quit(n) BY <2>4 DEF Quit, Gone, PcTo
  <2>5. CASE NewStart(n) BY <2>5 DEF NewStart, PcTo
  <2>6. CASE NewRename(n) BY <2>6 DEF NewRename, PcTo
  <2>7. CASE NewRenameFails(n) BY <2>7 DEF NewRenameFails, PcTo, INext
  <2>8. CASE NewFail(n) BY <2>8 DEF NewFail, PcTo
  <2>9. CASE Connect(n)
    <3>1. n \notin rel BY <2>9 DEF Connect, IAck
    <3> QED BY <2>9, <3>1 DEF Connect, PcTo
  <2> QED BY <1>4, <2>1, <2>2, <2>3, <2>4, <2>5, <2>6, <2>7, <2>8, <2>9 DEF NewNext
<1>5. ASSUME NEW h \in Hosts, ServeNext(h) \/ Fresh(h) \/ Term(h) \/ Crash(h) PROVE \A g \in Hosts : Went(g) => Went(g)'
  <2>1. CASE ServeBreak(h) BY <2>1 DEF ServeBreak, PcTo
  <2>2. CASE KillAll(h) BY <2>2 DEF KillAll, PcTo
  <2>3. CASE CheckInode(h) BY <2>3 DEF CheckInode, PcTo
  <2>4. CASE Unlink(h) BY <2>4 DEF Unlink, PcTo
  <2>5. CASE Exit(h) BY <2>5 DEF Exit, Gone, PcTo
  <2>6. CASE Fresh(h) BY <2>6 DEF Fresh, PcTo
  <2>7. CASE Term(h) BY <2>7 DEF Term, Stopped
  <2>8. CASE Crash(h) BY <2>8 DEF Crash, Gone, PcTo
  <2> QED BY <1>5, <2>1, <2>2, <2>3, <2>4, <2>5, <2>6, <2>7, <2>8 DEF ServeNext
<1> QED BY <1>1, <1>2, <1>3, <1>4, <1>5 DEF Next

LEMMA KeeperBefore ==
  ASSUME Lasting, ControlInv, \A g \in Hosts : Went(g) => Went(g)', Next
  PROVE  \A g \in Hosts, q \in Panes : Keeps(g, q)' =>
            Keeps(g, q) \/ Spawn(g, q) \/ (NewStart(g) /\ q \in pend[g])
<1> USE HandoffAssumption DEF OneReaderInv, Exclusive, Control, TypeOK, ControlInv, Keeps, Up
<1>1. ASSUME NEW h \in Hosts, NEW p \in Panes, Spawn(h, p) \/ KillPane(h, p) \/ ReaderNext(h, p) PROVE \A g \in Hosts, q \in Panes : Keeps(g, q)' =>
            Keeps(g, q) \/ Spawn(g, q) \/ (NewStart(g) /\ q \in pend[g])
  <2>1. CASE Spawn(h, p) BY ZenonT(60), <2>1 DEF Spawn
  <2>2. CASE KillPane(h, p) BY <2>2 DEF KillPane
  <2>3. CASE PollFrozen(h, p) BY <2>3 DEF PollFrozen, SetReader
  <2>4. CASE PollData(h, p) BY <2>4 DEF PollData, SetReader
  <2>5. CASE PollEof(h, p) BY <2>5 DEF PollEof, SetReader
  <2>6. CASE Ingest(h, p) BY <2>6 DEF Ingest, SetReader
  <2> QED BY <1>1, <2>1, <2>2, <2>3, <2>4, <2>5, <2>6 DEF ReaderNext
<1>2. ASSUME NEW p \in Panes, Emit(p) \/ Dies(p) PROVE \A g \in Hosts, q \in Panes : Keeps(g, q)' =>
            Keeps(g, q) \/ Spawn(g, q) \/ (NewStart(g) /\ q \in pend[g])
  <2>1. CASE Emit(p) BY <2>1 DEF Emit
  <2>2. CASE Dies(p) BY <2>2 DEF Dies
  <2> QED BY <1>2, <2>1, <2>2
<1>3. ASSUME NEW n \in Hosts, OldNext(n) PROVE \A g \in Hosts, q \in Panes : Keeps(g, q)' =>
            Keeps(g, q) \/ Spawn(g, q) \/ (NewStart(g) /\ q \in pend[g])
  <2>1. CASE OldBegin(n) BY <2>1 DEF OldBegin
  <2>2. CASE OldFreeze(n) BY <2>2 DEF OldFreeze
  <2>3. CASE OldSend(n) BY <2>3 DEF OldSend, ReadersStopped
  <2>4. CASE OldBail(n) BY <2>4 DEF OldBail, HandTo
  <2>5. CASE OldReadAck(n) BY <2>5 DEF OldReadAck, HandTo
  <2>6. CASE OldRelease(n) BY <2>6 DEF OldRelease
  <2>7. CASE OldReleaseFails(n) BY <2>7 DEF OldReleaseFails, HandTo
  <2>8. CASE OldUnfreeze(n) BY <2>8 DEF OldUnfreeze, HandTo
  <2>9. CASE OldRestart(n) BY <2>9 DEF OldRestart
  <2>10. CASE OldAbort(n) BY <2>10 DEF OldAbort, HandTo
  <2>11. CASE OldStop(n) BY <2>11 DEF OldStop, Stopped
  <2> QED BY <1>3, <2>1, <2>2, <2>3, <2>4, <2>5, <2>6, <2>7, <2>8, <2>9, <2>10, <2>11 DEF OldNext
<1>4. ASSUME NEW n \in Hosts, NewNext(n) \/ NewFail(n) \/ Connect(n) PROVE \A g \in Hosts, q \in Panes : Keeps(g, q)' =>
            Keeps(g, q) \/ Spawn(g, q) \/ (NewStart(g) /\ q \in pend[g])
  <2>1. CASE Bind(n) BY <2>1 DEF Bind, PcTo
  <2>2. CASE NewAck(n) BY <2>2 DEF NewAck, PcTo
  <2>3. CASE NewGiveUp(n) BY <2>3 DEF NewGiveUp, PcTo
  <2>4. CASE Quit(n) BY <2>4 DEF Quit, Gone, PcTo
  <2>5. CASE NewStart(n)
    <3>1. /\ \A g \in Hosts \ {n} : panes'[g] = panes[g] /\ pc'[g] = pc[g]
          /\ panes'[n] \subseteq pend[n] /\ signalled' = signalled
      BY <2>5 DEF NewStart, PcTo
    <3> QED BY <2>5, <3>1
  <2>6. CASE NewRename(n) BY <2>6 DEF NewRename, PcTo
  <2>7. CASE NewRenameFails(n) BY <2>7 DEF NewRenameFails, PcTo
  <2>8. CASE NewFail(n) BY <2>8 DEF NewFail, PcTo
  <2>9. CASE Connect(n) BY <2>9 DEF Connect, PcTo, MayStart, Quiet, NewQuiet, IUnspawned, NotYet
  <2> QED BY <1>4, <2>1, <2>2, <2>3, <2>4, <2>5, <2>6, <2>7, <2>8, <2>9 DEF NewNext
<1>5. ASSUME NEW h \in Hosts, ServeNext(h) \/ Fresh(h) \/ Term(h) \/ Crash(h) PROVE \A g \in Hosts, q \in Panes : Keeps(g, q)' =>
            Keeps(g, q) \/ Spawn(g, q) \/ (NewStart(g) /\ q \in pend[g])
  <2>1. CASE ServeBreak(h) BY <2>1 DEF ServeBreak, PcTo
  <2>2. CASE KillAll(h) BY <2>2 DEF KillAll, PcTo
  <2>3. CASE CheckInode(h) BY <2>3 DEF CheckInode, PcTo
  <2>4. CASE Unlink(h) BY <2>4 DEF Unlink, PcTo
  <2>5. CASE Exit(h) BY <2>5 DEF Exit, Gone, PcTo
  <2>6. CASE Fresh(h) BY <2>6 DEF Fresh, PcTo, IUnspawned, NotYet
  <2>7. CASE Term(h) BY <2>7 DEF Term, Stopped
  <2>8. CASE Crash(h) BY <2>8 DEF Crash, Gone, PcTo
  <2> QED BY <1>5, <2>1, <2>2, <2>3, <2>4, <2>5, <2>6, <2>7, <2>8 DEF ServeNext
<1> QED BY <1>1, <1>2, <1>3, <1>4, <1>5 DEF Next

(* Whose readers a restart and a start can set going.                         *)
LEMMA RestartReads ==
  ASSUME TypeOK, NEW n \in Hosts, OldRestart(n), NEW g \in Hosts, NEW q \in Panes
  PROVE  reader'[g][q] = reader[g][q] \/ (g = peer[n] /\ q \in panes[g])
<1> DEFINE frozenOnes == {p \in panes[peer[n]] : reader[peer[n]][p] \in {"frozen", "stuck"}}
<1>1. PICK how \in [frozenOnes -> {"running", "stuck", "lost"}] :
        reader' = [reader EXCEPT ![peer[n]] =
                     [p \in Panes |-> IF p \in frozenOnes THEN how[p] ELSE @[p]]]
  BY DEF OldRestart
<1>2. g # peer[n] => reader'[g] = reader[g] BY <1>1 DEF TypeOK
<1>3. g = peer[n] => reader'[g][q] = IF q \in frozenOnes THEN how[q] ELSE reader[g][q]
  BY <1>1 DEF TypeOK
<1> QED BY <1>2, <1>3

LEMMA StartReads ==
  ASSUME TypeOK, NEW n \in Hosts, NewStart(n), NEW g \in Hosts, NEW q \in Panes
  PROVE  reader'[g][q] = reader[g][q] \/ reader'[g][q] = "none" \/ (g = n /\ q \in pend[g])
<1>1. PICK read \in SUBSET pend[n] :
        reader' = [reader EXCEPT ![n] = [p \in Panes |-> IF p \in read THEN "running" ELSE "none"]]
  <2>1. PICK failed \in SUBSET pend[n] : \E half \in SUBSET failed :
          reader' = [reader EXCEPT ![n] =
                       [p \in Panes |-> IF p \in (pend[n] \ failed) \cup half THEN "running" ELSE "none"]]
    BY DEF NewStart
  <2>2. PICK half \in SUBSET failed :
          reader' = [reader EXCEPT ![n] =
                       [p \in Panes |-> IF p \in (pend[n] \ failed) \cup half THEN "running" ELSE "none"]]
    BY <2>1
  <2>3. (pend[n] \ failed) \cup half \in SUBSET pend[n] OBVIOUS
  <2> QED BY <2>2, <2>3
<1> QED BY <1>1 DEF TypeOK

LEMMA ReadingBefore ==
  ASSUME ControlInv, Next
  PROVE  \A g \in Hosts, q \in Panes : Reading(g, q)' =>
            \/ Reading(g, q) \/ Spawn(g, q) \/ (NewStart(g) /\ q \in pend[g])
            \/ \E m \in Hosts : OldRestart(m) /\ g = peer[m] /\ q \in panes[g]
<1> USE HandoffAssumption DEF OneReaderInv, Exclusive, Control, TypeOK, ControlInv, Reading
<1>1. ASSUME NEW h \in Hosts, NEW p \in Panes, Spawn(h, p) \/ KillPane(h, p) \/ ReaderNext(h, p) PROVE \A g \in Hosts, q \in Panes : Reading(g, q)' =>
            \/ Reading(g, q) \/ Spawn(g, q) \/ (NewStart(g) /\ q \in pend[g])
            \/ \E m \in Hosts : OldRestart(m) /\ g = peer[m] /\ q \in panes[g]
  <2>1. CASE Spawn(h, p) BY ZenonT(60), <2>1 DEF Spawn
  <2>2. CASE KillPane(h, p) BY <2>2 DEF KillPane
  <2>3. CASE PollFrozen(h, p) BY <2>3 DEF PollFrozen, SetReader
  <2>4. CASE PollData(h, p) BY <2>4 DEF PollData, SetReader
  <2>5. CASE PollEof(h, p) BY <2>5 DEF PollEof, SetReader
  <2>6. CASE Ingest(h, p) BY <2>6 DEF Ingest, SetReader
  <2> QED BY <1>1, <2>1, <2>2, <2>3, <2>4, <2>5, <2>6 DEF ReaderNext
<1>2. ASSUME NEW p \in Panes, Emit(p) \/ Dies(p) PROVE \A g \in Hosts, q \in Panes : Reading(g, q)' =>
            \/ Reading(g, q) \/ Spawn(g, q) \/ (NewStart(g) /\ q \in pend[g])
            \/ \E m \in Hosts : OldRestart(m) /\ g = peer[m] /\ q \in panes[g]
  <2>1. CASE Emit(p) BY <2>1 DEF Emit
  <2>2. CASE Dies(p) BY <2>2 DEF Dies
  <2> QED BY <1>2, <2>1, <2>2
<1>3. ASSUME NEW n \in Hosts, OldNext(n) PROVE \A g \in Hosts, q \in Panes : Reading(g, q)' =>
            \/ Reading(g, q) \/ Spawn(g, q) \/ (NewStart(g) /\ q \in pend[g])
            \/ \E m \in Hosts : OldRestart(m) /\ g = peer[m] /\ q \in panes[g]
  <2>1. CASE OldBegin(n) BY <2>1 DEF OldBegin
  <2>2. CASE OldFreeze(n) BY <2>2 DEF OldFreeze
  <2>3. CASE OldSend(n) BY <2>3 DEF OldSend, ReadersStopped
  <2>4. CASE OldBail(n) BY <2>4 DEF OldBail, HandTo
  <2>5. CASE OldReadAck(n) BY <2>5 DEF OldReadAck, HandTo
  <2>6. CASE OldRelease(n) BY <2>6 DEF OldRelease
  <2>7. CASE OldReleaseFails(n) BY <2>7 DEF OldReleaseFails, HandTo
  <2>8. CASE OldUnfreeze(n) BY <2>8 DEF OldUnfreeze, HandTo
  <2>9. CASE OldRestart(n) BY <2>9, RestartReads
  <2>10. CASE OldAbort(n) BY <2>10 DEF OldAbort, HandTo
  <2>11. CASE OldStop(n) BY <2>11 DEF OldStop, Stopped
  <2> QED BY <1>3, <2>1, <2>2, <2>3, <2>4, <2>5, <2>6, <2>7, <2>8, <2>9, <2>10, <2>11 DEF OldNext
<1>4. ASSUME NEW n \in Hosts, NewNext(n) \/ NewFail(n) \/ Connect(n) PROVE \A g \in Hosts, q \in Panes : Reading(g, q)' =>
            \/ Reading(g, q) \/ Spawn(g, q) \/ (NewStart(g) /\ q \in pend[g])
            \/ \E m \in Hosts : OldRestart(m) /\ g = peer[m] /\ q \in panes[g]
  <2>1. CASE Bind(n) BY <2>1 DEF Bind, PcTo
  <2>2. CASE NewAck(n) BY <2>2 DEF NewAck, PcTo
  <2>3. CASE NewGiveUp(n) BY <2>3 DEF NewGiveUp, PcTo
  <2>4. CASE Quit(n) BY <2>4 DEF Quit, Gone, PcTo
  <2>5. CASE NewStart(n)
    <3>1. \A g \in Hosts : g # n => reader'[g] = reader[g] BY <2>5 DEF NewStart
    <3>2. \A g \in Hosts, q \in Panes :
            reader'[g][q] = reader[g][q] \/ reader'[g][q] = "none" \/ (g = n /\ q \in pend[g])
      BY <2>5, StartReads
    <3> QED BY <2>5, <3>1, <3>2
  <2>6. CASE NewRename(n) BY <2>6 DEF NewRename, PcTo
  <2>7. CASE NewRenameFails(n) BY <2>7 DEF NewRenameFails, PcTo
  <2>8. CASE NewFail(n) BY <2>8 DEF NewFail, PcTo
  <2>9. CASE Connect(n) BY <2>9 DEF Connect, PcTo, MayStart, Quiet, NewQuiet
  <2> QED BY <1>4, <2>1, <2>2, <2>3, <2>4, <2>5, <2>6, <2>7, <2>8, <2>9 DEF NewNext
<1>5. ASSUME NEW h \in Hosts, ServeNext(h) \/ Fresh(h) \/ Term(h) \/ Crash(h) PROVE \A g \in Hosts, q \in Panes : Reading(g, q)' =>
            \/ Reading(g, q) \/ Spawn(g, q) \/ (NewStart(g) /\ q \in pend[g])
            \/ \E m \in Hosts : OldRestart(m) /\ g = peer[m] /\ q \in panes[g]
  <2>1. CASE ServeBreak(h) BY <2>1 DEF ServeBreak, PcTo
  <2>2. CASE KillAll(h) BY <2>2 DEF KillAll, PcTo
  <2>3. CASE CheckInode(h) BY <2>3 DEF CheckInode, PcTo
  <2>4. CASE Unlink(h) BY <2>4 DEF Unlink, PcTo
  <2>5. CASE Exit(h) BY <2>5 DEF Exit, Gone, PcTo
  <2>6. CASE Fresh(h) BY <2>6 DEF Fresh, PcTo
  <2>7. CASE Term(h) BY <2>7 DEF Term, Stopped
  <2>8. CASE Crash(h) BY <2>8 DEF Crash, Gone, PcTo
  <2> QED BY <1>5, <2>1, <2>2, <2>3, <2>4, <2>5, <2>6, <2>7, <2>8 DEF ServeNext
<1> QED BY <1>1, <1>2, <1>3, <1>4, <1>5 DEF Next

LEMMA NextIOneKeeper ==
  ASSUME Lasting, ControlInv, Screens, Next PROVE IOneKeeper'
<1> SUFFICES ASSUME NEW q \in Panes, NEW g \in Hosts, NEW h \in Hosts, Keeps(g, q)', Keeps(h, q)'
             PROVE  g = h
  BY DEF IOneKeeper
<1> USE HandoffAssumption DEF ControlInv, OneReaderInv, Exclusive, TypeOK
<1>1. \A f \in Hosts : Keeps(f, q)' => Keeps(f, q) \/ Spawn(f, q) \/ (NewStart(f) /\ q \in pend[f])
  BY WentForGood, KeeperBefore
<1>2. CASE Keeps(g, q) /\ Keeps(h, q) BY <1>2 DEF Screens, IOneKeeper
<1>3. ASSUME NEW e \in Hosts, NEW f \in Hosts, Spawn(e, q), Keeps(f, q)' PROVE e = f
  <2>1. q \notin panes[f] BY <1>3 DEF Spawn, IUnspawned
  <2>2. q \in panes'[f] BY <1>3 DEF Keeps
  <2> QED BY <1>3, <2>1, <2>2 DEF Spawn
<1>4. ASSUME NEW e \in Hosts, NEW f \in Hosts, NewStart(e), q \in pend[e], Keeps(f, q)' PROVE e = f
  <2>1. Succ(e) /\ hand[e] \notin {"none", "begun"}
    BY <1>4 DEF NewStart, Succ, IRel
  <2>2. CASE Keeps(f, q)
    <3>1. f = peer[e] BY <1>4, <2>1, <2>2 DEF Screens, IKeptByOld
    <3>2. Went(f)' BY <1>4, <3>1 DEF NewStart, PcTo, Went
    <3> QED BY <1>4, <3>2 DEF Keeps
  <2>3. CASE Spawn(f, q) BY <1>4, <2>3 DEF Spawn, NewStart, IUnspawned
  <2>4. CASE NewStart(f) BY <1>4, <2>4 DEF NewStart, PcTo
  <2> QED BY <1>1, <1>4, <2>2, <2>3, <2>4
<1> HIDE DEF ControlInv, OneReaderInv, Exclusive, TypeOK
<1> QED BY <1>1, <1>2, <1>3, <1>4

(* Who is handed a pane: only a new handoff adds to it. *)

LEMMA PendBefore ==
  ASSUME ControlInv, Next
  PROVE  \A m \in Hosts, q \in Panes :
            Succ(m)' /\ hand'[m] \notin {"none", "begun"} /\ q \in pend'[m] =>
              /\ Succ(m) /\ peer'[m] = peer[m]
              /\ \/ hand[m] \notin {"none", "begun"} /\ q \in pend[m]
                 \/ OldFreeze(m) /\ q \in panes[peer[m]]
<1> USE HandoffAssumption DEF OneReaderInv, Exclusive, Control, TypeOK, ControlInv, Succ
<1>1. ASSUME NEW h \in Hosts, NEW p \in Panes, Spawn(h, p) \/ KillPane(h, p) \/ ReaderNext(h, p) PROVE \A m \in Hosts, q \in Panes :
            Succ(m)' /\ hand'[m] \notin {"none", "begun"} /\ q \in pend'[m] =>
              /\ Succ(m) /\ peer'[m] = peer[m]
              /\ \/ hand[m] \notin {"none", "begun"} /\ q \in pend[m]
                 \/ OldFreeze(m) /\ q \in panes[peer[m]]
  <2>1. CASE Spawn(h, p) BY <2>1 DEF Spawn
  <2>2. CASE KillPane(h, p) BY <2>2 DEF KillPane
  <2>3. CASE PollFrozen(h, p) BY <2>3 DEF PollFrozen, SetReader
  <2>4. CASE PollData(h, p) BY <2>4 DEF PollData, SetReader
  <2>5. CASE PollEof(h, p) BY <2>5 DEF PollEof, SetReader
  <2>6. CASE Ingest(h, p) BY <2>6 DEF Ingest, SetReader
  <2> QED BY <1>1, <2>1, <2>2, <2>3, <2>4, <2>5, <2>6 DEF ReaderNext
<1>2. ASSUME NEW p \in Panes, Emit(p) \/ Dies(p) PROVE \A m \in Hosts, q \in Panes :
            Succ(m)' /\ hand'[m] \notin {"none", "begun"} /\ q \in pend'[m] =>
              /\ Succ(m) /\ peer'[m] = peer[m]
              /\ \/ hand[m] \notin {"none", "begun"} /\ q \in pend[m]
                 \/ OldFreeze(m) /\ q \in panes[peer[m]]
  <2>1. CASE Emit(p) BY <2>1 DEF Emit
  <2>2. CASE Dies(p) BY <2>2 DEF Dies
  <2> QED BY <1>2, <2>1, <2>2
<1>3. ASSUME NEW n \in Hosts, OldNext(n) PROVE \A m \in Hosts, q \in Panes :
            Succ(m)' /\ hand'[m] \notin {"none", "begun"} /\ q \in pend'[m] =>
              /\ Succ(m) /\ peer'[m] = peer[m]
              /\ \/ hand[m] \notin {"none", "begun"} /\ q \in pend[m]
                 \/ OldFreeze(m) /\ q \in panes[peer[m]]
  <2>1. CASE OldBegin(n) BY <2>1 DEF OldBegin
  <2>2. CASE OldFreeze(n) BY <2>2 DEF OldFreeze
  <2>3. CASE OldSend(n) BY <2>3 DEF OldSend, ReadersStopped
  <2>4. CASE OldBail(n) BY <2>4 DEF OldBail, HandTo
  <2>5. CASE OldReadAck(n) BY <2>5 DEF OldReadAck, HandTo
  <2>6. CASE OldRelease(n) BY <2>6 DEF OldRelease
  <2>7. CASE OldReleaseFails(n) BY <2>7 DEF OldReleaseFails, HandTo
  <2>8. CASE OldUnfreeze(n) BY <2>8 DEF OldUnfreeze, HandTo
  <2>9. CASE OldRestart(n) BY <2>9 DEF OldRestart
  <2>10. CASE OldAbort(n) BY <2>10 DEF OldAbort, HandTo
  <2>11. CASE OldStop(n) BY <2>11 DEF OldStop, Stopped
  <2> QED BY <1>3, <2>1, <2>2, <2>3, <2>4, <2>5, <2>6, <2>7, <2>8, <2>9, <2>10, <2>11 DEF OldNext
<1>4. ASSUME NEW n \in Hosts, NewNext(n) \/ NewFail(n) \/ Connect(n) PROVE \A m \in Hosts, q \in Panes :
            Succ(m)' /\ hand'[m] \notin {"none", "begun"} /\ q \in pend'[m] =>
              /\ Succ(m) /\ peer'[m] = peer[m]
              /\ \/ hand[m] \notin {"none", "begun"} /\ q \in pend[m]
                 \/ OldFreeze(m) /\ q \in panes[peer[m]]
  <2>1. CASE Bind(n) BY <2>1 DEF Bind, PcTo
  <2>2. CASE NewAck(n) BY <2>2 DEF NewAck, PcTo
  <2>3. CASE NewGiveUp(n) BY <2>3 DEF NewGiveUp, PcTo
  <2>4. CASE Quit(n) BY <2>4 DEF Quit, Gone, PcTo
  <2>5. CASE NewStart(n) BY <2>5 DEF NewStart, PcTo
  <2>6. CASE NewRename(n) BY <2>6 DEF NewRename, PcTo
  <2>7. CASE NewRenameFails(n) BY <2>7 DEF NewRenameFails, PcTo
  <2>8. CASE NewFail(n) BY <2>8 DEF NewFail, PcTo
  <2>9. CASE Connect(n) BY <2>9 DEF Connect, PcTo, MayStart, Quiet, NewQuiet, IRel, IServes
  <2> QED BY <1>4, <2>1, <2>2, <2>3, <2>4, <2>5, <2>6, <2>7, <2>8, <2>9 DEF NewNext
<1>5. ASSUME NEW h \in Hosts, ServeNext(h) \/ Fresh(h) \/ Term(h) \/ Crash(h) PROVE \A m \in Hosts, q \in Panes :
            Succ(m)' /\ hand'[m] \notin {"none", "begun"} /\ q \in pend'[m] =>
              /\ Succ(m) /\ peer'[m] = peer[m]
              /\ \/ hand[m] \notin {"none", "begun"} /\ q \in pend[m]
                 \/ OldFreeze(m) /\ q \in panes[peer[m]]
  <2>1. CASE ServeBreak(h) BY <2>1 DEF ServeBreak, PcTo
  <2>2. CASE KillAll(h) BY <2>2 DEF KillAll, PcTo
  <2>3. CASE CheckInode(h) BY <2>3 DEF CheckInode, PcTo
  <2>4. CASE Unlink(h) BY <2>4 DEF Unlink, PcTo
  <2>5. CASE Exit(h) BY <2>5 DEF Exit, Gone, PcTo
  <2>6. CASE Fresh(h) BY <2>6 DEF Fresh, PcTo
  <2>7. CASE Term(h) BY <2>7 DEF Term, Stopped
  <2>8. CASE Crash(h) BY <2>8 DEF Crash, Gone, PcTo
  <2> QED BY <1>5, <2>1, <2>2, <2>3, <2>4, <2>5, <2>6, <2>7, <2>8 DEF ServeNext
<1> QED BY <1>1, <1>2, <1>3, <1>4, <1>5 DEF Next

LEMMA OldIsKeeper ==
  ASSUME ControlInv, NEW n \in Hosts, Early(n), NEW p \in panes[peer[n]] \ signalled
  PROVE  Keeps(peer[n], p)
  BY DEF ControlInv, Control, IFirst, Early, Keeps

LEMMA NextIKeptByOld ==
  ASSUME Lasting, ControlInv, Screens, Next PROVE IKeptByOld'
<1> SUFFICES ASSUME NEW n \in Hosts, NEW g \in Hosts, NEW q \in Panes, Succ(n)',
                    hand'[n] \notin {"none", "begun"}, q \in pend'[n], Keeps(g, q)'
             PROVE  g = peer'[n]
  BY DEF IKeptByOld
<1>1. /\ Succ(n) /\ peer'[n] = peer[n]
      /\ \/ hand[n] \notin {"none", "begun"} /\ q \in pend[n]
         \/ OldFreeze(n) /\ q \in panes[peer[n]]
  BY PendBefore
<1>2. Keeps(g, q) \/ Spawn(g, q) \/ (NewStart(g) /\ q \in pend[g])
  BY WentForGood, KeeperBefore
<1> USE HandoffAssumption DEF ControlInv, OneReaderInv, Exclusive, TypeOK
<1>3. CASE Spawn(g, q)
  BY <1>1, <1>3 DEF Spawn, OldFreeze, IUnspawned
<1>4. CASE NewStart(g) /\ q \in pend[g]
  <2>1. g = n BY <1>1, <1>4 DEF NewStart, IBusy, Busy, Succ
  <2> QED BY <1>4, <2>1 DEF NewStart
<1>5. CASE Keeps(g, q) /\ OldFreeze(n) /\ q \in panes[peer[n]]
  <2>1. Early(n) BY <1>1, <1>5 DEF Early, Busy, PreCommit, OldFreeze
  <2>2. q \in panes[peer[n]] \ signalled BY <1>5 DEF Keeps
  <2>3. Keeps(peer[n], q) BY <2>1, <2>2, OldIsKeeper
  <2> QED BY <1>1, <1>5, <2>3 DEF Screens, IOneKeeper
<1>6. CASE Keeps(g, q) /\ hand[n] \notin {"none", "begun"} /\ q \in pend[n]
  BY <1>1, <1>6 DEF Screens, IKeptByOld
<1> QED BY <1>1, <1>2, <1>3, <1>4, <1>5, <1>6

LEMMA NextIKeeperReads ==
  ASSUME Lasting, ControlInv, Screens, Next PROVE IKeeperReads'
<1> SUFFICES ASSUME NEW q \in Panes, NEW g \in Hosts, NEW h \in Hosts, Keeps(g, q)', Reading(h, q)', g # h
             PROVE  FALSE
  BY DEF IKeeperReads
<1>1. Keeps(g, q) \/ Spawn(g, q) \/ (NewStart(g) /\ q \in pend[g])
  BY WentForGood, KeeperBefore
<1>2. \/ Reading(h, q) \/ Spawn(h, q) \/ (NewStart(h) /\ q \in pend[h])
      \/ \E m \in Hosts : OldRestart(m) /\ h = peer[m] /\ q \in panes[h]
  BY ReadingBefore
<1> USE HandoffAssumption DEF ControlInv, OneReaderInv, Exclusive, TypeOK
<1>3. ~Keeps(h, q)'
  BY NextIOneKeeper DEF IOneKeeper
<1>4. CASE Keeps(g, q) /\ Reading(h, q)
  BY <1>4 DEF Screens, IKeeperReads
<1>5. CASE Keeps(g, q) /\ Spawn(h, q)
  BY <1>5 DEF Keeps, Spawn, IUnspawned
<1>6. CASE Keeps(g, q) /\ NewStart(h) /\ q \in pend[h]
  <2>1. g = peer[h] BY <1>6 DEF NewStart, Succ, IRel, Screens, IKeptByOld
  <2>2. Went(g)' BY <1>6, <2>1 DEF NewStart, PcTo, Went
  <2> QED BY <2>2 DEF Keeps
<1>7. ASSUME NEW m \in Hosts, Keeps(g, q), OldRestart(m), h = peer[m], q \in panes[h] PROVE FALSE
  <2>1. Early(m) BY <1>7 DEF Early, Busy, PreCommit, OldRestart, Up, Async
  <2>2. Keeps(h, q) BY <1>7, <2>1, OldIsKeeper DEF Keeps
  <2> QED BY <1>7, <2>2 DEF Screens, IOneKeeper
<1>8. CASE Spawn(g, q)
  <2>1. ~Reading(h, q) BY <1>8 DEF Spawn, IUnspawned, Reading
  <2>2. ~Spawn(h, q) BY <1>8 DEF Spawn, IUnspawned
  <2>3. ~NewStart(h) BY <1>8 DEF Spawn, NewStart, PcTo
  <2>4. \A m \in Hosts : ~OldRestart(m) BY <1>8 DEF Spawn, OldRestart
  <2> QED BY <1>2, <2>1, <2>2, <2>3, <2>4
<1>9. CASE NewStart(g) /\ q \in pend[g]
  <2>1. ~Reading(h, q) BY <1>9 DEF NewStart, ISent, Succ
  <2>2. ~Spawn(h, q) BY <1>9 DEF Spawn, NewStart, IUnspawned
  <2>3. ~NewStart(h) BY <1>9 DEF NewStart, PcTo
  <2>4. \A m \in Hosts : ~OldRestart(m) BY <1>9 DEF NewStart, OldRestart
  <2> QED BY <1>2, <2>1, <2>2, <2>3, <2>4
<1> HIDE DEF ControlInv, OneReaderInv, Exclusive, TypeOK
<1> QED BY <1>1, <1>2, <1>4, <1>5, <1>6, <1>7, <1>8, <1>9

(* Screens change by a chunk read off the PTY or by the replay received.     *)
LEMMA ScreenBefore ==
  ASSUME ControlInv, Next
  PROVE  \A g \in Hosts, q \in Panes :
            \/ screen'[g][q] = screen[g][q] /\ rd'[q] = rd[q]
            \/ OldSend(g)
            \/ \E f \in Hosts : Ingest(f, q)
<1> USE HandoffAssumption DEF OneReaderInv, Exclusive, Control, TypeOK, ControlInv, Up
<1>1. ASSUME NEW h \in Hosts, NEW p \in Panes, Spawn(h, p) \/ KillPane(h, p) \/ ReaderNext(h, p) PROVE \A g \in Hosts, q \in Panes :
            \/ screen'[g][q] = screen[g][q] /\ rd'[q] = rd[q]
            \/ OldSend(g)
            \/ \E f \in Hosts : Ingest(f, q)
  <2>1. CASE Spawn(h, p) BY <2>1 DEF Spawn
  <2>2. CASE KillPane(h, p) BY <2>2 DEF KillPane
  <2>3. CASE PollFrozen(h, p) BY <2>3 DEF PollFrozen, SetReader
  <2>4. CASE PollData(h, p) BY <2>4 DEF PollData, SetReader
  <2>5. CASE PollEof(h, p) BY <2>5 DEF PollEof, SetReader
  <2>6. CASE Ingest(h, p) BY ZenonT(60), <2>6 DEF Ingest, SetReader
  <2> QED BY <1>1, <2>1, <2>2, <2>3, <2>4, <2>5, <2>6 DEF ReaderNext
<1>2. ASSUME NEW p \in Panes, Emit(p) \/ Dies(p) PROVE \A g \in Hosts, q \in Panes :
            \/ screen'[g][q] = screen[g][q] /\ rd'[q] = rd[q]
            \/ OldSend(g)
            \/ \E f \in Hosts : Ingest(f, q)
  <2>1. CASE Emit(p) BY <2>1 DEF Emit
  <2>2. CASE Dies(p) BY <2>2 DEF Dies
  <2> QED BY <1>2, <2>1, <2>2
<1>3. ASSUME NEW n \in Hosts, OldNext(n) PROVE \A g \in Hosts, q \in Panes :
            \/ screen'[g][q] = screen[g][q] /\ rd'[q] = rd[q]
            \/ OldSend(g)
            \/ \E f \in Hosts : Ingest(f, q)
  <2>1. CASE OldBegin(n) BY <2>1 DEF OldBegin
  <2>2. CASE OldFreeze(n) BY <2>2 DEF OldFreeze
  <2>3. CASE OldSend(n) BY <2>3 DEF OldSend, ReadersStopped
  <2>4. CASE OldBail(n) BY <2>4 DEF OldBail, HandTo
  <2>5. CASE OldReadAck(n) BY <2>5 DEF OldReadAck, HandTo
  <2>6. CASE OldRelease(n) BY <2>6 DEF OldRelease
  <2>7. CASE OldReleaseFails(n) BY <2>7 DEF OldReleaseFails, HandTo
  <2>8. CASE OldUnfreeze(n) BY <2>8 DEF OldUnfreeze, HandTo
  <2>9. CASE OldRestart(n) BY <2>9 DEF OldRestart
  <2>10. CASE OldAbort(n) BY <2>10 DEF OldAbort, HandTo
  <2>11. CASE OldStop(n) BY <2>11 DEF OldStop, Stopped
  <2> QED BY <1>3, <2>1, <2>2, <2>3, <2>4, <2>5, <2>6, <2>7, <2>8, <2>9, <2>10, <2>11 DEF OldNext
<1>4. ASSUME NEW n \in Hosts, NewNext(n) \/ NewFail(n) \/ Connect(n) PROVE \A g \in Hosts, q \in Panes :
            \/ screen'[g][q] = screen[g][q] /\ rd'[q] = rd[q]
            \/ OldSend(g)
            \/ \E f \in Hosts : Ingest(f, q)
  <2>1. CASE Bind(n) BY <2>1 DEF Bind, PcTo
  <2>2. CASE NewAck(n) BY <2>2 DEF NewAck, PcTo
  <2>3. CASE NewGiveUp(n) BY <2>3 DEF NewGiveUp, PcTo
  <2>4. CASE Quit(n) BY <2>4 DEF Quit, Gone, PcTo
  <2>5. CASE NewStart(n) BY <2>5 DEF NewStart, PcTo
  <2>6. CASE NewRename(n) BY <2>6 DEF NewRename, PcTo
  <2>7. CASE NewRenameFails(n) BY <2>7 DEF NewRenameFails, PcTo
  <2>8. CASE NewFail(n) BY <2>8 DEF NewFail, PcTo
  <2>9. CASE Connect(n) BY <2>9 DEF Connect, PcTo, MayStart, Quiet, NewQuiet
  <2> QED BY <1>4, <2>1, <2>2, <2>3, <2>4, <2>5, <2>6, <2>7, <2>8, <2>9 DEF NewNext
<1>5. ASSUME NEW h \in Hosts, ServeNext(h) \/ Fresh(h) \/ Term(h) \/ Crash(h) PROVE \A g \in Hosts, q \in Panes :
            \/ screen'[g][q] = screen[g][q] /\ rd'[q] = rd[q]
            \/ OldSend(g)
            \/ \E f \in Hosts : Ingest(f, q)
  <2>1. CASE ServeBreak(h) BY <2>1 DEF ServeBreak, PcTo
  <2>2. CASE KillAll(h) BY <2>2 DEF KillAll, PcTo
  <2>3. CASE CheckInode(h) BY <2>3 DEF CheckInode, PcTo
  <2>4. CASE Unlink(h) BY <2>4 DEF Unlink, PcTo
  <2>5. CASE Exit(h) BY <2>5 DEF Exit, Gone, PcTo
  <2>6. CASE Fresh(h) BY <2>6 DEF Fresh, PcTo
  <2>7. CASE Term(h) BY <2>7 DEF Term, Stopped
  <2>8. CASE Crash(h) BY <2>8 DEF Crash, Gone, PcTo
  <2> QED BY <1>5, <2>1, <2>2, <2>3, <2>4, <2>5, <2>6, <2>7, <2>8 DEF ServeNext
<1> QED BY <1>1, <1>2, <1>3, <1>4, <1>5 DEF Next

LEMMA NextIScreen ==
  ASSUME Lasting, ControlInv, Screens, Next PROVE IScreen'
<1> SUFFICES ASSUME NEW h \in Hosts, NEW q \in Panes, Keeps(h, q)'
             PROVE  screen'[h][q] = 1..rd'[q]
  BY DEF IScreen
<1>1. Keeps(h, q) \/ Spawn(h, q) \/ (NewStart(h) /\ q \in pend[h])
  BY WentForGood, KeeperBefore
<1>2. \/ screen'[h][q] = screen[h][q] /\ rd'[q] = rd[q]
      \/ OldSend(h)
      \/ \E f \in Hosts : Ingest(f, q)
  BY ScreenBefore
<1> USE HandoffAssumption DEF ControlInv, OneReaderInv, Exclusive, TypeOK
<1>3. CASE Spawn(h, q)
  <2>1. screen[h][q] = {} /\ rd[q] = 0
    BY <1>3 DEF Spawn, Screens, IFresh
  <2> QED BY <1>3, <2>1 DEF Spawn
<1>4. CASE NewStart(h) /\ q \in pend[h]
  <2>1. q \notin signalled BY <1>4 DEF NewStart, Keeps
  <2>2. screen[h][q] = 1..rd[q] BY <1>4, <2>1 DEF NewStart, Succ, Screens, IReplay
  <2> QED BY <1>4, <2>2 DEF NewStart
<1>5. CASE Keeps(h, q) /\ screen'[h][q] = screen[h][q] /\ rd'[q] = rd[q]
  BY <1>5 DEF Screens, IScreen
<1>6. CASE Keeps(h, q) /\ OldSend(h)
  <2>1. panes[h] = {} BY <1>6 DEF OldSend, Closed, Control, IAck, IServes, IUnspawned, NotYet, IRel
  <2> QED BY <1>6, <2>1 DEF Keeps
<1>7. ASSUME NEW f \in Hosts, Keeps(h, q), Ingest(f, q) PROVE screen'[h][q] = 1..rd'[q]
  <2>1. f = h BY <1>7 DEF Ingest, Reading, Screens, IKeeperReads
  <2>2. screen[h][q] = 1..rd[q] BY <1>7 DEF Screens, IScreen
  <2>3. screen'[h][q] = 1..rd[q] \cup {rd[q] + 1} /\ rd'[q] = rd[q] + 1 /\ rd[q] \in Nat
    BY <1>7, <2>1, <2>2 DEF Ingest, SetReader
  <2> HIDE DEF ControlInv
  <2> QED BY <2>3
<1> HIDE DEF ControlInv, OneReaderInv, Exclusive, TypeOK
<1> QED BY <1>1, <1>2, <1>3, <1>4, <1>5, <1>6, <1>7

LEMMA ReplayBefore ==
  ASSUME ControlInv, Next
  PROVE  \A m \in Hosts, q \in Panes :
            Succ(m)' /\ q \in pend'[m] \ signalled' /\ (hand'[m] \in {"sent", "releasing"} \/ m \in rel') =>
              /\ Succ(m) /\ q \in pend[m] \ signalled
              /\ hand[m] \in {"sent", "releasing"} \/ m \in rel \/ OldSend(m)
<1> USE HandoffAssumption DEF OneReaderInv, Exclusive, Control, TypeOK, ControlInv, Succ
<1>1. ASSUME NEW h \in Hosts, NEW p \in Panes, Spawn(h, p) \/ KillPane(h, p) \/ ReaderNext(h, p) PROVE \A m \in Hosts, q \in Panes :
            Succ(m)' /\ q \in pend'[m] \ signalled' /\ (hand'[m] \in {"sent", "releasing"} \/ m \in rel') =>
              /\ Succ(m) /\ q \in pend[m] \ signalled
              /\ hand[m] \in {"sent", "releasing"} \/ m \in rel \/ OldSend(m)
  <2>1. CASE Spawn(h, p) BY <2>1 DEF Spawn
  <2>2. CASE KillPane(h, p) BY <2>2 DEF KillPane
  <2>3. CASE PollFrozen(h, p) BY <2>3 DEF PollFrozen, SetReader
  <2>4. CASE PollData(h, p) BY <2>4 DEF PollData, SetReader
  <2>5. CASE PollEof(h, p) BY <2>5 DEF PollEof, SetReader
  <2>6. CASE Ingest(h, p) BY <2>6 DEF Ingest, SetReader
  <2> QED BY <1>1, <2>1, <2>2, <2>3, <2>4, <2>5, <2>6 DEF ReaderNext
<1>2. ASSUME NEW p \in Panes, Emit(p) \/ Dies(p) PROVE \A m \in Hosts, q \in Panes :
            Succ(m)' /\ q \in pend'[m] \ signalled' /\ (hand'[m] \in {"sent", "releasing"} \/ m \in rel') =>
              /\ Succ(m) /\ q \in pend[m] \ signalled
              /\ hand[m] \in {"sent", "releasing"} \/ m \in rel \/ OldSend(m)
  <2>1. CASE Emit(p) BY <2>1 DEF Emit
  <2>2. CASE Dies(p) BY <2>2 DEF Dies
  <2> QED BY <1>2, <2>1, <2>2
<1>3. ASSUME NEW n \in Hosts, OldNext(n) PROVE \A m \in Hosts, q \in Panes :
            Succ(m)' /\ q \in pend'[m] \ signalled' /\ (hand'[m] \in {"sent", "releasing"} \/ m \in rel') =>
              /\ Succ(m) /\ q \in pend[m] \ signalled
              /\ hand[m] \in {"sent", "releasing"} \/ m \in rel \/ OldSend(m)
  <2>1. CASE OldBegin(n) BY <2>1 DEF OldBegin
  <2>2. CASE OldFreeze(n) BY <2>2 DEF OldFreeze, IRel
  <2>3. CASE OldSend(n) BY ZenonT(60), <2>3 DEF OldSend, ReadersStopped
  <2>4. CASE OldBail(n) BY <2>4 DEF OldBail, HandTo
  <2>5. CASE OldReadAck(n) BY <2>5 DEF OldReadAck, HandTo
  <2>6. CASE OldRelease(n) BY <2>6 DEF OldRelease
  <2>7. CASE OldReleaseFails(n) BY <2>7 DEF OldReleaseFails, HandTo
  <2>8. CASE OldUnfreeze(n) BY <2>8 DEF OldUnfreeze, HandTo
  <2>9. CASE OldRestart(n) BY <2>9 DEF OldRestart
  <2>10. CASE OldAbort(n) BY <2>10 DEF OldAbort, HandTo
  <2>11. CASE OldStop(n) BY <2>11 DEF OldStop, Stopped
  <2> QED BY <1>3, <2>1, <2>2, <2>3, <2>4, <2>5, <2>6, <2>7, <2>8, <2>9, <2>10, <2>11 DEF OldNext
<1>4. ASSUME NEW n \in Hosts, NewNext(n) \/ NewFail(n) \/ Connect(n) PROVE \A m \in Hosts, q \in Panes :
            Succ(m)' /\ q \in pend'[m] \ signalled' /\ (hand'[m] \in {"sent", "releasing"} \/ m \in rel') =>
              /\ Succ(m) /\ q \in pend[m] \ signalled
              /\ hand[m] \in {"sent", "releasing"} \/ m \in rel \/ OldSend(m)
  <2>1. CASE Bind(n) BY <2>1 DEF Bind, PcTo
  <2>2. CASE NewAck(n) BY <2>2 DEF NewAck, PcTo
  <2>3. CASE NewGiveUp(n) BY <2>3 DEF NewGiveUp, PcTo
  <2>4. CASE Quit(n) BY <2>4 DEF Quit, Gone, PcTo
  <2>5. CASE NewStart(n) BY <2>5 DEF NewStart, PcTo
  <2>6. CASE NewRename(n) BY <2>6 DEF NewRename, PcTo
  <2>7. CASE NewRenameFails(n) BY <2>7 DEF NewRenameFails, PcTo
  <2>8. CASE NewFail(n) BY <2>8 DEF NewFail, PcTo
  <2>9. CASE Connect(n) BY <2>9 DEF Connect, PcTo, MayStart, Quiet, NewQuiet, IRel, IServes
  <2> QED BY <1>4, <2>1, <2>2, <2>3, <2>4, <2>5, <2>6, <2>7, <2>8, <2>9 DEF NewNext
<1>5. ASSUME NEW h \in Hosts, ServeNext(h) \/ Fresh(h) \/ Term(h) \/ Crash(h) PROVE \A m \in Hosts, q \in Panes :
            Succ(m)' /\ q \in pend'[m] \ signalled' /\ (hand'[m] \in {"sent", "releasing"} \/ m \in rel') =>
              /\ Succ(m) /\ q \in pend[m] \ signalled
              /\ hand[m] \in {"sent", "releasing"} \/ m \in rel \/ OldSend(m)
  <2>1. CASE ServeBreak(h) BY <2>1 DEF ServeBreak, PcTo
  <2>2. CASE KillAll(h) BY <2>2 DEF KillAll, PcTo
  <2>3. CASE CheckInode(h) BY <2>3 DEF CheckInode, PcTo
  <2>4. CASE Unlink(h) BY <2>4 DEF Unlink, PcTo
  <2>5. CASE Exit(h) BY <2>5 DEF Exit, Gone, PcTo
  <2>6. CASE Fresh(h) BY <2>6 DEF Fresh, PcTo
  <2>7. CASE Term(h) BY <2>7 DEF Term, Stopped
  <2>8. CASE Crash(h) BY <2>8 DEF Crash, Gone, PcTo
  <2> QED BY <1>5, <2>1, <2>2, <2>3, <2>4, <2>5, <2>6, <2>7, <2>8 DEF ServeNext
<1> QED BY <1>1, <1>2, <1>3, <1>4, <1>5 DEF Next

LEMMA NextIReplay ==
  ASSUME Lasting, ControlInv, Screens, Next PROVE IReplay'
<1> SUFFICES ASSUME NEW n \in Hosts, NEW q \in Panes, Succ(n)', q \in pend'[n] \ signalled',
                    hand'[n] \in {"sent", "releasing"} \/ n \in rel'
             PROVE  screen'[n][q] = 1..rd'[q]
  BY DEF IReplay
<1>1. /\ Succ(n) /\ q \in pend[n] \ signalled
      /\ hand[n] \in {"sent", "releasing"} \/ n \in rel \/ OldSend(n)
  BY ReplayBefore
<1>2. \/ screen'[n][q] = screen[n][q] /\ rd'[q] = rd[q]
      \/ OldSend(n)
      \/ \E f \in Hosts : Ingest(f, q)
  BY ScreenBefore
<1> USE HandoffAssumption DEF ControlInv, OneReaderInv, Exclusive, TypeOK
<1>3. CASE OldSend(n)
  <2>1. Early(n) BY <1>1, <1>3 DEF Early, Busy, PreCommit, OldSend
  <2>2. q \in panes[peer[n]] \ signalled BY <1>1, <1>3 DEF OldSend, Control, IPend
  <2>3. screen[peer[n]][q] = 1..rd[q] BY <2>1, <2>2, OldIsKeeper DEF Screens, IScreen
  <2> QED BY <1>1, <1>3, <2>3 DEF OldSend
<1>4. CASE ~OldSend(n) /\ screen'[n][q] = screen[n][q] /\ rd'[q] = rd[q]
  BY <1>1, <1>4 DEF Screens, IReplay
<1>5. ASSUME NEW f \in Hosts, Ingest(f, q), ~OldSend(n) PROVE FALSE
  BY <1>1, <1>5 DEF Ingest, Reading, ISent
<1> HIDE DEF ControlInv, OneReaderInv, Exclusive, TypeOK
<1> QED BY <1>1, <1>2, <1>3, <1>4, <1>5

LEMMA NextScreens == ASSUME Lasting, ScreenInv, [Next]_vars PROVE ScreenInv'
<1>1. ControlInv' BY NextControl DEF ScreenInv, Lasting
<1>2. CASE UNCHANGED vars
  BY <1>1, <1>2 DEF vars, ScreenInv, Screens, IFresh, IOneKeeper, IKeptByOld, IKeeperReads, IScreen, IReplay,
                    Keeps, Went, Up, Succ, Reading
<1>3. CASE Next
  BY <1>1, <1>3, NextIFresh, NextIOneKeeper, NextIKeptByOld, NextIKeeperReads, NextIScreen, NextIReplay
     DEF ScreenInv, Screens
<1> QED BY <1>2, <1>3

LEMMA InitScreenInv == Init => ScreenInv
  BY InitControl, InitOneReader, InitScreens DEF ScreenInv, ControlInv

(* The emulator of the host that answers for a pane has seen every byte read  *)
(* off the PTY, across upgrades, failures before the release, timeouts and    *)
(* signals (the replay of send_panes, taken once the readers stopped), as     *)
(* long as a successor that started the panes also serves.                    *)
THEOREM ScreensAreComplete ==
  ASSUME Overlap = "none", Events \cap {"rename", "crash"} = {} PROVE Spec => []ScreenComplete
<1>1. Lasting BY DEF Lasting
<1>2. Init => ScreenInv BY InitScreenInv
<1>3. ScreenInv /\ [Next]_vars => ScreenInv' BY <1>1, NextScreens
<1>4. ScreenInv => ScreenComplete
  <2> SUFFICES ASSUME ScreenInv, NEW h \in Hosts, NEW p \in Panes, Responsible(h, p)
               PROVE  screen[h][p] = 1..rd[p]
    BY DEF ScreenComplete
  <2>1. CASE p \in panes[h] /\ ~Committed(h)
    <3>1. Keeps(h, p) BY <2>1 DEF Responsible, Keeps, Went, Committed
    <3> QED BY <3>1 DEF ScreenInv, Screens, IScreen
  <2>2. CASE p \in pend[h] /\ h \in rel
    <3>1. Succ(h) BY <2>2 DEF Responsible, Up, ScreenInv, ControlInv, Control, IServes, OneReaderInv, TypeOK, PC, Async, Succ
    <3> QED BY <2>2, <3>1 DEF Responsible, ScreenInv, Screens, IReplay
  <2> QED BY <2>1, <2>2 DEF Responsible
<1> QED BY <1>2, <1>3, <1>4, PTL DEF Spec

-----------------------------------------------------------------------------
(* The protocol implements PtydOwnership: a release moves every pane of old to *)
(* its successor in one step, but for those it could not adopt.                *)

IOneAnswer == \A p \in Panes, g, h \in Hosts : Responsible(g, p) /\ Responsible(h, p) => g = h

LEMMA HandedIsSucc ==
  ASSUME ControlInv, NEW n \in Hosts, NEW p \in pend[n], Responsible(n, p) PROVE Succ(n)
  BY DEF Responsible, Up, ControlInv, Control, IServes, OneReaderInv, TypeOK, PC, Async, Succ

LEMMA OneAnswer == ScreenInv => IOneAnswer
<1> SUFFICES ASSUME ScreenInv, NEW p \in Panes, NEW g \in Hosts, NEW h \in Hosts,
                    Responsible(g, p), Responsible(h, p)
             PROVE  g = h
  BY DEF IOneAnswer
<1>1. ASSUME NEW f \in Hosts, Responsible(f, p), ~(p \in pend[f] /\ f \in rel) PROVE Keeps(f, p) /\ ~Committed(f)
  BY <1>1 DEF Responsible, Keeps, Went, Committed
<1>2. ASSUME NEW n \in Hosts, NEW f \in Hosts, Responsible(n, p), p \in pend[n], n \in rel,
             Keeps(f, p), ~Committed(f)
      PROVE  FALSE
  <2>1. Succ(n) BY <1>2, HandedIsSucc DEF ScreenInv
  <2>2. hand[n] \notin {"none", "begun"}
    BY <1>2 DEF ScreenInv, ControlInv, OneReaderInv, Exclusive, IRel
  <2>3. f = peer[n] BY <1>2, <2>1, <2>2 DEF ScreenInv, Screens, IKeptByOld
  <2> QED BY <1>2, <2>3 DEF Committed
<1>3. ASSUME p \in pend[g], p \in pend[h] PROVE g = h
  <2>1. Busy(g) /\ Busy(h) BY <1>3, HandedIsSucc DEF ScreenInv, Busy
  <2> QED BY <2>1 DEF ScreenInv, ControlInv, OneReaderInv, Exclusive, IBusy
<1>4. Keeps(g, p) /\ Keeps(h, p) => g = h BY DEF ScreenInv, Screens, IOneKeeper
<1> QED BY <1>1, <1>2, <1>3, <1>4

LEMMA UsedBySpawn ==
  ASSUME ControlInv, Next
  PROVE  \A q \in Panes :
            /\ proc[q] # "none" => proc'[q] # "none"
            /\ proc'[q] # "none" => proc[q] # "none" \/ \E g \in Hosts : Spawn(g, q)
<1> USE HandoffAssumption DEF ControlInv, OneReaderInv, TypeOK
<1>1. ASSUME NEW h \in Hosts, NEW p \in Panes, Spawn(h, p) \/ KillPane(h, p) \/ ReaderNext(h, p) PROVE \A q \in Panes :
            /\ proc[q] # "none" => proc'[q] # "none"
            /\ proc'[q] # "none" => proc[q] # "none" \/ \E g \in Hosts : Spawn(g, q)
  <2>1. CASE Spawn(h, p) BY <2>1 DEF Spawn
  <2>2. CASE KillPane(h, p) BY <2>2 DEF KillPane
  <2>3. CASE PollFrozen(h, p) BY <2>3 DEF PollFrozen, SetReader
  <2>4. CASE PollData(h, p) BY <2>4 DEF PollData, SetReader
  <2>5. CASE PollEof(h, p) BY <2>5 DEF PollEof, SetReader
  <2>6. CASE Ingest(h, p) BY <2>6 DEF Ingest, SetReader
  <2> QED BY <1>1, <2>1, <2>2, <2>3, <2>4, <2>5, <2>6 DEF ReaderNext
<1>2. ASSUME NEW p \in Panes, Emit(p) \/ Dies(p) PROVE \A q \in Panes :
            /\ proc[q] # "none" => proc'[q] # "none"
            /\ proc'[q] # "none" => proc[q] # "none" \/ \E g \in Hosts : Spawn(g, q)
  <2>1. CASE Emit(p) BY <2>1 DEF Emit
  <2>2. CASE Dies(p) BY <2>2 DEF Dies
  <2> QED BY <1>2, <2>1, <2>2
<1>3. ASSUME NEW n \in Hosts, OldNext(n) PROVE \A q \in Panes :
            /\ proc[q] # "none" => proc'[q] # "none"
            /\ proc'[q] # "none" => proc[q] # "none" \/ \E g \in Hosts : Spawn(g, q)
  <2>1. CASE OldBegin(n) BY <2>1 DEF OldBegin
  <2>2. CASE OldFreeze(n) BY <2>2 DEF OldFreeze
  <2>3. CASE OldSend(n) BY <2>3 DEF OldSend, ReadersStopped
  <2>4. CASE OldBail(n) BY <2>4 DEF OldBail, HandTo
  <2>5. CASE OldReadAck(n) BY <2>5 DEF OldReadAck, HandTo
  <2>6. CASE OldRelease(n) BY <2>6 DEF OldRelease
  <2>7. CASE OldReleaseFails(n) BY <2>7 DEF OldReleaseFails, HandTo
  <2>8. CASE OldUnfreeze(n) BY <2>8 DEF OldUnfreeze, HandTo
  <2>9. CASE OldRestart(n) BY <2>9 DEF OldRestart
  <2>10. CASE OldAbort(n) BY <2>10 DEF OldAbort, HandTo
  <2>11. CASE OldStop(n) BY <2>11 DEF OldStop, Stopped
  <2> QED BY <1>3, <2>1, <2>2, <2>3, <2>4, <2>5, <2>6, <2>7, <2>8, <2>9, <2>10, <2>11 DEF OldNext
<1>4. ASSUME NEW n \in Hosts, NewNext(n) \/ NewFail(n) \/ Connect(n) PROVE \A q \in Panes :
            /\ proc[q] # "none" => proc'[q] # "none"
            /\ proc'[q] # "none" => proc[q] # "none" \/ \E g \in Hosts : Spawn(g, q)
  <2>1. CASE Bind(n) BY <2>1 DEF Bind, PcTo
  <2>2. CASE NewAck(n) BY <2>2 DEF NewAck, PcTo
  <2>3. CASE NewGiveUp(n) BY <2>3 DEF NewGiveUp, PcTo
  <2>4. CASE Quit(n) BY <2>4 DEF Quit, Gone, PcTo
  <2>5. CASE NewStart(n) BY <2>5 DEF NewStart, PcTo
  <2>6. CASE NewRename(n) BY <2>6 DEF NewRename, PcTo
  <2>7. CASE NewRenameFails(n) BY <2>7 DEF NewRenameFails, PcTo
  <2>8. CASE NewFail(n) BY <2>8 DEF NewFail, PcTo
  <2>9. CASE Connect(n) BY <2>9 DEF Connect, PcTo, MayStart, Quiet, NewQuiet
  <2> QED BY <1>4, <2>1, <2>2, <2>3, <2>4, <2>5, <2>6, <2>7, <2>8, <2>9 DEF NewNext
<1>5. ASSUME NEW h \in Hosts, ServeNext(h) \/ Fresh(h) \/ Term(h) \/ Crash(h) PROVE \A q \in Panes :
            /\ proc[q] # "none" => proc'[q] # "none"
            /\ proc'[q] # "none" => proc[q] # "none" \/ \E g \in Hosts : Spawn(g, q)
  <2>1. CASE ServeBreak(h) BY <2>1 DEF ServeBreak, PcTo
  <2>2. CASE KillAll(h) BY <2>2 DEF KillAll, PcTo
  <2>3. CASE CheckInode(h) BY <2>3 DEF CheckInode, PcTo
  <2>4. CASE Unlink(h) BY <2>4 DEF Unlink, PcTo
  <2>5. CASE Exit(h) BY <2>5 DEF Exit, Gone, PcTo
  <2>6. CASE Fresh(h) BY <2>6 DEF Fresh, PcTo
  <2>7. CASE Term(h) BY <2>7 DEF Term, Stopped
  <2>8. CASE Crash(h) BY <2>8 DEF Crash, Gone, PcTo
  <2> QED BY <1>5, <2>1, <2>2, <2>3, <2>4, <2>5, <2>6, <2>7, <2>8 DEF ServeNext
<1> QED BY <1>1, <1>2, <1>3, <1>4, <1>5 DEF Next

LEMMA UnadoptedMoves ==
  ASSUME ControlInv, Next
  PROVE  unadopted' = unadopted \/ \E m \in Hosts : NewAck(m) \/ NewStart(m)
<1> USE DEF ControlInv, OneReaderInv, TypeOK
<1>1. ASSUME NEW h \in Hosts, NEW p \in Panes, Spawn(h, p) \/ KillPane(h, p) \/ ReaderNext(h, p) PROVE unadopted' = unadopted \/ \E m \in Hosts : NewAck(m) \/ NewStart(m)
  <2>1. CASE Spawn(h, p) BY <2>1 DEF Spawn
  <2>2. CASE KillPane(h, p) BY <2>2 DEF KillPane
  <2>3. CASE PollFrozen(h, p) BY <2>3 DEF PollFrozen, SetReader
  <2>4. CASE PollData(h, p) BY <2>4 DEF PollData, SetReader
  <2>5. CASE PollEof(h, p) BY <2>5 DEF PollEof, SetReader
  <2>6. CASE Ingest(h, p) BY <2>6 DEF Ingest, SetReader
  <2> QED BY <1>1, <2>1, <2>2, <2>3, <2>4, <2>5, <2>6 DEF ReaderNext
<1>2. ASSUME NEW p \in Panes, Emit(p) \/ Dies(p) PROVE unadopted' = unadopted \/ \E m \in Hosts : NewAck(m) \/ NewStart(m)
  <2>1. CASE Emit(p) BY <2>1 DEF Emit
  <2>2. CASE Dies(p) BY <2>2 DEF Dies
  <2> QED BY <1>2, <2>1, <2>2
<1>3. ASSUME NEW n \in Hosts, OldNext(n) PROVE unadopted' = unadopted \/ \E m \in Hosts : NewAck(m) \/ NewStart(m)
  <2>1. CASE OldBegin(n) BY <2>1 DEF OldBegin
  <2>2. CASE OldFreeze(n) BY <2>2 DEF OldFreeze
  <2>3. CASE OldSend(n) BY <2>3 DEF OldSend, ReadersStopped
  <2>4. CASE OldBail(n) BY <2>4 DEF OldBail, HandTo
  <2>5. CASE OldReadAck(n) BY <2>5 DEF OldReadAck, HandTo
  <2>6. CASE OldRelease(n) BY <2>6 DEF OldRelease
  <2>7. CASE OldReleaseFails(n) BY <2>7 DEF OldReleaseFails, HandTo
  <2>8. CASE OldUnfreeze(n) BY <2>8 DEF OldUnfreeze, HandTo
  <2>9. CASE OldRestart(n) BY <2>9 DEF OldRestart
  <2>10. CASE OldAbort(n) BY <2>10 DEF OldAbort, HandTo
  <2>11. CASE OldStop(n) BY <2>11 DEF OldStop, Stopped
  <2> QED BY <1>3, <2>1, <2>2, <2>3, <2>4, <2>5, <2>6, <2>7, <2>8, <2>9, <2>10, <2>11 DEF OldNext
<1>4. ASSUME NEW n \in Hosts, NewNext(n) \/ NewFail(n) \/ Connect(n) PROVE unadopted' = unadopted \/ \E m \in Hosts : NewAck(m) \/ NewStart(m)
  <2>1. CASE Bind(n) BY <2>1 DEF Bind, PcTo
  <2>2. CASE NewAck(n)
    BY <2>2
  <2>3. CASE NewGiveUp(n) BY <2>3 DEF NewGiveUp, PcTo
  <2>4. CASE Quit(n) BY <2>4 DEF Quit, Gone, PcTo
  <2>5. CASE NewStart(n)
    BY <2>5
  <2>6. CASE NewRename(n) BY <2>6 DEF NewRename, PcTo
  <2>7. CASE NewRenameFails(n) BY <2>7 DEF NewRenameFails, PcTo
  <2>8. CASE NewFail(n) BY <2>8 DEF NewFail, PcTo
  <2>9. CASE Connect(n) BY <2>9 DEF Connect, PcTo, MayStart, Quiet, NewQuiet
  <2> QED BY <1>4, <2>1, <2>2, <2>3, <2>4, <2>5, <2>6, <2>7, <2>8, <2>9 DEF NewNext
<1>5. ASSUME NEW h \in Hosts, ServeNext(h) \/ Fresh(h) \/ Term(h) \/ Crash(h) PROVE unadopted' = unadopted \/ \E m \in Hosts : NewAck(m) \/ NewStart(m)
  <2>1. CASE ServeBreak(h) BY <2>1 DEF ServeBreak, PcTo
  <2>2. CASE KillAll(h) BY <2>2 DEF KillAll, PcTo
  <2>3. CASE CheckInode(h) BY <2>3 DEF CheckInode, PcTo
  <2>4. CASE Unlink(h) BY <2>4 DEF Unlink, PcTo
  <2>5. CASE Exit(h) BY <2>5 DEF Exit, Gone, PcTo
  <2>6. CASE Fresh(h) BY <2>6 DEF Fresh, PcTo
  <2>7. CASE Term(h) BY <2>7 DEF Term, Stopped
  <2>8. CASE Crash(h) BY <2>8 DEF Crash, Gone, PcTo
  <2> QED BY <1>5, <2>1, <2>2, <2>3, <2>4, <2>5, <2>6, <2>7, <2>8 DEF ServeNext
<1> QED BY <1>1, <1>2, <1>3, <1>4, <1>5 DEF Next

(* Every step is one of PtydOwnership's, or leaves the owners alone. *)
LEMMA OwnershipStep ==
  ASSUME Smooth, SmoothInv, ScreenInv, IOneAnswer, IOneAnswer', [Next]_vars
  PROVE  [Ownership!ANext]_(Ownership!avars)
<1> DEFINE owner == [p \in Panes |-> Owner(p)]
           used == {p \in Panes : proc[p] # "none"}
<1>1. \A q \in Panes, h \in Hosts : Responsible(h, q) => Owner(q) = h
  BY DEF Owner, IOneAnswer
<1>2. \A q \in Panes, h \in Hosts : Responsible(h, q)' => Owner(q)' = h
  BY DEF Owner, IOneAnswer
<1>3. \A q \in Panes : (\A h \in Hosts : ~Responsible(h, q)) => Owner(q) = NoHost
  BY DEF Owner
<1>4. \A q \in Panes : (\A h \in Hosts : ~Responsible(h, q)') => Owner(q)' = NoHost
  BY DEF Owner
<1>5. ASSUME NEW q \in Panes, \A g \in Hosts : Responsible(g, q)' <=> Responsible(g, q)
      PROVE  Owner(q)' = Owner(q)
  BY <1>1, <1>2, <1>3, <1>4, <1>5
<1> USE HandoffAssumption
<1>6. CASE UNCHANGED vars
  <2>1. \A g \in Hosts, q \in Panes : Responsible(g, q)' <=> Responsible(g, q)
    BY <1>6 DEF vars, Responsible, Committed, Up
  <2>2. owner' = owner BY <1>5, <2>1
  <2>3. used' = used /\ unadopted' = unadopted BY <1>6 DEF vars
  <2> QED BY <2>2, <2>3 DEF Ownership!avars
<1> USE DEF SmoothInv, FaultInv
<1>7. CASE Next /\ ~Moving
  <2>1. \A g \in Hosts, q \in Panes : Responsible(g, q)' <=> Responsible(g, q)
    BY <1>7, SameAnswers DEF Smooth
  <2>2. owner' = owner BY <1>5, <2>1
  <2>3. used' = used BY <1>7, UsedBySpawn DEF Moving
  <2>4. CASE unadopted' = unadopted BY <2>2, <2>3, <2>4 DEF Ownership!avars
  <2>5. ASSUME NEW n \in Hosts, NewAck(n) PROVE \E S \in SUBSET Panes : Ownership!Fail(n, S)
    <3>1. PICK failed \in SUBSET pend[n] : unadopted' = [unadopted EXCEPT ![n] = @ \cup failed]
      BY <2>5 DEF NewAck
    <3>2. failed \in SUBSET Panes BY DEF ControlInv, OneReaderInv, TypeOK
    <3>3. \A q \in Panes : ~Responsible(n, q)
      BY <2>5 DEF NewAck, Responsible, ControlInv, OneReaderInv, Exclusive, IRel, IUnspawned, NotYet
    <3>4. \A q \in Panes : Owner(q) # n BY <1>1, <1>3, <3>3
    <3>5. owner' = [q \in Panes |-> IF owner[q] = n /\ q \in failed THEN NoHost ELSE owner[q]]
      BY <2>2, <3>4
    <3> QED BY <2>3, <3>1, <3>2, <3>5 DEF Ownership!Fail
  <2>6. CASE unadopted' # unadopted
    BY <1>7, <2>5, <2>6, UnadoptedMoves DEF Moving, Ownership!ANext
  <2> QED BY <2>4, <2>6
<1>8. ASSUME NEW h \in Hosts, NEW p \in Panes, Spawn(h, p) PROVE Ownership!Start(h, p)
  <2>1. \A g \in Hosts : ~Responsible(g, p)
    BY <1>8 DEF Spawn, Responsible, ControlInv, OneReaderInv, Exclusive, IUnspawned
  <2>2. Responsible(h, p)'
    <3>1. ~Committed(h)
      BY <1>8, NobodyGaveUp DEF Spawn, IGiven, Failed
    <3>2. p \notin signalled
      BY <1>8 DEF Spawn, ScreenInv, Screens, IFresh
    <3> QED BY <1>8, <3>1, <3>2 DEF Spawn, Responsible, Committed, Up, Async, ControlInv, OneReaderInv, TypeOK
  <2>3. \A g \in Hosts, q \in Panes \ {p} : Responsible(g, q)' <=> Responsible(g, q)
    BY <1>8 DEF Spawn, Responsible, Committed, Up, ControlInv, OneReaderInv, TypeOK
  <2>4. owner' = [owner EXCEPT ![p] = h]
    <3>1. Owner(p)' = h BY <1>2, <2>2
    <3>2. \A q \in Panes \ {p} : Owner(q)' = Owner(q) BY <1>5, <2>3
    <3> QED BY <3>1, <3>2
  <2>5. p \notin used /\ used' = used \cup {p}
    BY <1>8 DEF Spawn, ControlInv, OneReaderInv, TypeOK
  <2>6. unadopted' = unadopted BY <1>8 DEF Spawn
  <2> QED BY <2>4, <2>5, <2>6 DEF Ownership!Start
<1>9. ASSUME NEW h \in Hosts, NEW p \in Panes, KillPane(h, p) PROVE Ownership!Drop({p})
  <2>1. \A g \in Hosts : ~Responsible(g, p)'
    BY <1>9 DEF KillPane, Responsible
  <2>2. \A g \in Hosts, q \in Panes \ {p} : Responsible(g, q)' <=> Responsible(g, q)
    BY <1>9 DEF KillPane, Responsible, Committed, Up, ControlInv, OneReaderInv, TypeOK
  <2>3. owner' = [q \in Panes |-> IF q \in {p} THEN NoHost ELSE owner[q]]
    <3>1. Owner(p)' = NoHost BY <1>4, <2>1
    <3>2. \A q \in Panes \ {p} : Owner(q)' = Owner(q) BY <1>5, <2>2
    <3> QED BY <3>1, <3>2
  <2>4. used' = used /\ unadopted' = unadopted BY <1>9 DEF KillPane
  <2> QED BY <2>3, <2>4 DEF Ownership!Drop
<1>10. ASSUME NEW n \in Hosts, Quit(n) \/ Exit(n) PROVE UNCHANGED Ownership!avars
  <2>1. Quit(n) => n \notin rel /\ panes[n] = {}
    BY DEF Quit, ISmooth, ControlInv, Control, IServes
  <2>2. Exit(n) => Committed(n) /\ pend[n] = {}
    BY DEF Exit, ISmooth, ControlInv, Control, IServes, IStopped, OneReaderInv, TypeOK
  <2>3. \A g \in Hosts, q \in Panes : Responsible(g, q)' <=> Responsible(g, q)
    <3> USE DEF Gone, PcTo, Responsible, Committed, Up, ControlInv, OneReaderInv, TypeOK
    <3>1. CASE Quit(n) BY <2>1, <3>1 DEF Quit
    <3>2. CASE Exit(n) BY <2>2, <3>2 DEF Exit
    <3> QED BY <1>10, <3>1, <3>2
  <2>4. owner' = owner BY <1>5, <2>3
  <2>5. used' = used /\ unadopted' = unadopted BY <1>10 DEF Quit, Exit, Gone
  <2> QED BY <2>4, <2>5 DEF Ownership!avars
<1>11. ASSUME NEW h \in Hosts, KillAll(h) \/ Crash(h) PROVE FALSE
  BY <1>11 DEF KillAll, Crash, ISmooth, Smooth
<1>12. ASSUME NEW n \in Hosts, OldRelease(n)
       PROVE  Ownership!Transfer(peer[n], n) \/ UNCHANGED Ownership!avars
  <2> USE DEF ControlInv, OneReaderInv, Exclusive, Control, TypeOK
  <2>0. PICK f \in Hosts : f = peer[n] OBVIOUS
  <2>1. Succ(n) /\ n \notin rel /\ pc[n] \in {"acked", "quitting"}
    BY <1>12 DEF OldRelease, Succ, Closed, IAck, IRel
  <2>2. Early(n) BY <1>12, <2>1 DEF OldRelease, Early, Busy, PreCommit
  <2>3. panes[n] = {} BY <2>1 DEF IUnspawned, NotYet, IServes
  <2>4. peer[n] # n /\ pend[peer[n]] = {}
    BY <1>12, <2>1 DEF OldRelease, IPeer, NotYet, Up, Succ, IServes, Async, PC
  <2>5. ~Committed(peer[n])
    <3> SUFFICES ASSUME NEW m \in rel, peer[m] = peer[n] PROVE FALSE
      BY DEF Committed
    <3>1. pc[m] # "acked" BY <2>1 DEF IBusy, Busy, Succ
    <3>2. pc[m] = "starting" \/ ino[m] # NoHost BY <3>1 DEF ISmooth, IAck, IServes, Async, PC
    <3> QED BY <2>2, <3>2 DEF IFirst, Went
  <2>6. \A q \in Panes : Responsible(n, q)' <=> Responsible(peer[n], q) /\ q \notin unadopted[n]
    <3>1. \A q \in Panes : q \notin signalled =>
             (q \in pend[n] <=> q \in panes[peer[n]] /\ q \notin unadopted[n])
      BY <1>12, <2>1 DEF OldRelease, IPend, IAck
    <3>2. \A q \in Panes : Responsible(n, q)' <=> q \in pend[n] \ signalled
      BY <1>12, <2>1, <2>3 DEF OldRelease, Responsible, Up, Closed
    <3>3. \A q \in Panes : Responsible(peer[n], q) <=> q \in panes[peer[n]] \ signalled
      BY <1>12, <2>4, <2>5 DEF OldRelease, Responsible
    <3> QED BY <3>1, <3>2, <3>3
  <2>7. \A q \in Panes : ~Responsible(n, q) /\ ~Responsible(f, q)'
    BY <1>12, <2>0, <2>1, <2>3, <2>4 DEF OldRelease, Responsible, Committed
  <2>8. \A g \in Hosts \ {n, peer[n]}, q \in Panes : Responsible(g, q)' <=> Responsible(g, q)
    BY <1>12 DEF OldRelease, Responsible, Committed, Up
  <2> HIDE DEF ControlInv, OneReaderInv, Exclusive, Control, TypeOK, SmoothInv, FaultInv
  <2>9. \A q \in Panes : Owner(q)' = IF Owner(q) # peer[n] THEN Owner(q)
                                    ELSE IF q \in unadopted[n] THEN NoHost ELSE n
    <3> TAKE q \in Panes
    <3>0. Responsible(peer[n], q) => Owner(q) = peer[n] BY <1>1, <2>0
    <3>1. CASE Responsible(peer[n], q) /\ q \notin unadopted[n]
      BY <1>2, <2>6, <3>0, <3>1
    <3>3. CASE Responsible(peer[n], q) /\ q \in unadopted[n]
      <4>1. \A g \in Hosts : Responsible(g, q) => g = peer[n] BY <1>1, <3>0, <3>3
      <4>2. \A g \in Hosts : ~Responsible(g, q)' BY <2>0, <2>6, <2>7, <2>8, <3>3, <4>1
      <4> QED BY <1>4, <3>0, <3>3, <4>2
    <3>2. CASE ~Responsible(peer[n], q)
      <4>1. \A g \in Hosts : Responsible(g, q)' <=> Responsible(g, q) BY <2>0, <2>6, <2>7, <2>8, <3>2
      <4>2. Owner(q) # peer[n] BY <1>1, <1>3, <2>0, <3>2
      <4> QED BY <1>5, <4>1, <4>2
    <3> QED BY <3>1, <3>2, <3>3
  <2>10. \A q \in Panes : Owner(q) # n BY <1>1, <1>3, <2>7
  <2>11. used' = used /\ unadopted' = unadopted BY <1>12 DEF OldRelease
  <2>12. CASE \E q \in Panes : Owner(q) = peer[n]
    BY <2>4, <2>9, <2>10, <2>11, <2>12 DEF Ownership!Transfer, Ownership!Owned
  <2>13. CASE ~\E q \in Panes : Owner(q) = peer[n]
    <3>1. owner' = owner BY <2>9, <2>13
    <3> QED BY <2>11, <3>1 DEF Ownership!avars
  <2> QED BY <2>12, <2>13
<1>13. \A h \in Hosts : peer[h] \in Hosts BY DEF ControlInv, OneReaderInv, TypeOK
<1>15. ASSUME NEW n \in Hosts, NewStart(n) PROVE \E S \in SUBSET Panes : Ownership!Fail(n, S)
  <2>1. PICK failed \in SUBSET pend[n] :
          /\ unadopted' = [unadopted EXCEPT ![n] = @ \cup failed]
          /\ panes' = [panes EXCEPT ![n] = pend[n] \ failed]
    BY <1>15 DEF NewStart
  <2>2. failed \in SUBSET Panes BY DEF ControlInv, OneReaderInv, TypeOK
  <2>3. ~Committed(n) /\ panes[n] = {} /\ n \in rel /\ Up(n)
    BY <1>15, PeersServed
       DEF NewStart, Succ, Up, Committed, ControlInv, OneReaderInv, Exclusive, IUnspawned, NotYet, TypeOK
  <2>4. \A q \in Panes : Responsible(n, q)' <=> Responsible(n, q) /\ q \notin failed
    BY <1>15, <2>1, <2>3
       DEF NewStart, PcTo, Responsible, Committed, Up, ControlInv, OneReaderInv, TypeOK
  <2>5. \A g \in Hosts \ {n}, q \in Panes : Responsible(g, q)' <=> Responsible(g, q)
    BY <1>15 DEF NewStart, PcTo, Responsible, Committed, Up, ControlInv, OneReaderInv, TypeOK
  <2> HIDE DEF SmoothInv, FaultInv
  <2>6. \A q \in Panes : Owner(q)' = IF Owner(q) = n /\ q \in failed THEN NoHost ELSE Owner(q)
    <3> TAKE q \in Panes
    <3>1. CASE Responsible(n, q) /\ q \in failed
      <4>1. \A g \in Hosts : Responsible(g, q) => g = n BY <3>1 DEF IOneAnswer
      <4>2. \A g \in Hosts : ~Responsible(g, q)' BY <2>4, <2>5, <3>1, <4>1
      <4> QED BY <1>1, <1>4, <3>1, <4>2
    <3>2. CASE ~(Responsible(n, q) /\ q \in failed)
      <4>1. \A g \in Hosts : Responsible(g, q)' <=> Responsible(g, q) BY <2>4, <2>5, <3>2
      <4>2. ~(Owner(q) = n /\ q \in failed) BY <1>1, <1>3, <3>2
      <4> QED BY <1>5, <4>1, <4>2
    <3> QED BY <3>1, <3>2
  <2>7. owner' = [q \in Panes |-> IF owner[q] = n /\ q \in failed THEN NoHost ELSE owner[q]]
    BY <2>6
  <2>8. used' = used BY <1>15 DEF NewStart
  <2> QED BY <2>1, <2>2, <2>7, <2>8 DEF Ownership!Fail
<1>14. CASE Next /\ Moving
  BY <1>8, <1>9, <1>10, <1>11, <1>12, <1>13, <1>14, <1>15 DEF Moving, Ownership!ANext
<1> QED BY <1>6, <1>7, <1>14

(* An upgrade that meets no other fault than failures before the release and  *)
(* shortages keeps what PtydOwnership promises: every pane has one owner, a    *)
(* pane changes hands together with all the panes of its host that the        *)
(* successor prepared, at the release and at no other step, and a failure to  *)
(* adopt costs the successor's panes only (handoff.rs, module docs).          *)
THEOREM UpgradeImplementsOwnership ==
  ASSUME Overlap = "none", Events \subseteq {"kill", "fail", "prepare", "start", "restart"}
  PROVE  Spec => ImplementsOwnership
<1>1. Smooth /\ Lasting BY DEF Smooth, Lasting
<1>2. Spec => []SmoothInv BY <1>1, SmoothHolds
<1>3. Init => ScreenInv BY InitScreenInv
<1>4. ScreenInv /\ [Next]_vars => ScreenInv' BY <1>1, NextScreens
<1>5. ScreenInv => IOneAnswer BY OneAnswer
<1>6. SmoothInv /\ ScreenInv /\ IOneAnswer /\ IOneAnswer' /\ [Next]_vars
      => [Ownership!ANext]_(Ownership!avars)
  BY <1>1, OwnershipStep
<1>7. Init => Ownership!AInit
  BY DEF Init, Ownership!AInit, Owner, Responsible
<1> QED BY <1>2, <1>3, <1>4, <1>5, <1>6, <1>7, PTL DEF Spec, ImplementsOwnership, Ownership!ASpec
=============================================================================

---------------------------- MODULE Mailbox_proofs ----------------------------
(* What holds of the messages to one agent for any number of messages and   *)
(* turns, whatever fails and whoever types.                                  *)
EXTENDS Mailbox, SequenceTheorems, NaturalsInduction, WellFoundedInduction, TLAPS

CallPcs == {"ready", "write", "wake", "nudge", "recheck", "wakeEnter", "type", "enter",
            "verify", "retry", "ok", "failed"}
DrainPcs == {"off", "read", "mark", "print", "check", "write", "done"}
ReportPcs == {"off", "pending", "read", "write", "done"}

(* Hooks run while a turn begins or stops, and a question has its own; what  *)
(* a report is about to write follows from its event.                        *)
HooksInv ==
  /\ turn \in {"idle", "busy", "asking"} => drain = NoDrain
  /\ turn \in {"idle", "busy"} => report = NoReport
  /\ turn \in {"submitting", "stopping"} => drain.pc # "off" /\ report.pc # "off"
  /\ report.pc = "read" => report.event # "none"
  /\ report.pc = "pending" => turn = "stopping"

Typed == TypeOK /\ HooksInv

-----------------------------------------------------------------------------
(* What is on the input line, in the queue or read: sequences and ranges.    *)

LEMMA RangeOfAppend ==
  ASSUME NEW S, NEW s \in Seq(S), NEW x \in S
  PROVE  Append(s, x) \in Seq(S) /\ Range(Append(s, x)) = Range(s) \cup {x}
  <1>0. <<x>> \in Seq(S)
    OBVIOUS
  <1>1. Append(s, x) = s \o <<x>>
    BY <1>0, AppendIsConcat
  <1>2. Range(<<x>>) = {x}
    BY DEF Range
  <1>3. Range(s \o <<x>>) = Range(s) \cup Range(<<x>>)
    <2>1. \A a, b \in Seq(S) : Range(a \o b) = Range(a) \cup Range(b)
      BY RangeConcatenation
    <2>. QED  BY <1>0, <2>1
  <1>4. Append(s, x) \in Seq(S)
    OBVIOUS
  <1>. QED  BY <1>1, <1>2, <1>3, <1>4

LEMMA RangeOfEmpty == Range(<<>>) = {}
  BY DEF Range

LEMMA Tokens3 == Messages \subseteq Tokens /\ Nudge \in Tokens /\ Human \in Tokens
  BY DEF Tokens

-----------------------------------------------------------------------------
(* Types.                                                                    *)

LEMMA Records ==
  /\ NoDrain \in Drain /\ NoReport \in Report
  /\ [NoDrain EXCEPT !.pc = "read"] \in Drain
  /\ [NoReport EXCEPT !.pc = "read", !.event = "prompt"] \in Report
  /\ [NoReport EXCEPT !.pc = "read", !.event = "awaiting"] \in Report
  /\ [NoReport EXCEPT !.pc = "pending"] \in Report
  BY DEF NoDrain, NoReport, Drain, Report, Event, Activity

LEMMA GotoIs ==
  ASSUME call \in [Messages -> Call], NEW m \in Messages, NEW pc \in CallPcs, Goto(m, pc)
  PROVE  /\ call' \in [Messages -> Call]
         /\ call'[m].pc = pc /\ call'[m].after = call[m].after
         /\ \A n \in Messages \ {m} : call'[n] = call[n]
         /\ \A n \in Messages : call'[n].after = call[n].after
  BY DEF Goto, Call, CallPcs

LEMMA EnterIs ==
  ASSUME Typed, Enter
  PROVE  /\ prompt' \in Seq(Tokens) /\ queue' \in Seq(Tokens) /\ turns' \in 0..MaxTurns
         /\ turn' \in Turn /\ drain' \in Drain /\ report' \in Report
         /\ \/ UNCHANGED <<prompt, queue>>
            \/ prompt' = <<>> /\ queue' = queue \o prompt
         /\ \/ UNCHANGED <<turn, drain, report>>
            \/ /\ turn = "idle" /\ turn' = "submitting"
               /\ drain' = [NoDrain EXCEPT !.pc = "read"]
               /\ report' = [NoReport EXCEPT !.pc = "read", !.event = "prompt"]
  <1>1. queue \o prompt \in Seq(Tokens) /\ <<>> \in Seq(Tokens)
    BY DEF Typed, TypeOK
  <1>2. turn = "idle" => turns + 1 \in 0..MaxTurns
    BY BoundsAssumption DEF Enter, Typed, TypeOK
  <1>. QED  BY <1>1, <1>2, Records DEF Enter, Submitted, Typed, TypeOK, Turn

LEMMA TypedKeptByEnter ==
  ASSUME Typed, Enter, UNCHANGED <<stamped, inbox, activity, read, lost, gone, missed, typed>>, call' \in [Messages -> Call]
  PROVE  Typed'
  <1>1. TypeOK'
    BY EnterIs DEF Typed, TypeOK
  <1>2. HooksInv'
    BY EnterIs DEF Typed, HooksInv, NoDrain, NoReport
  <1>. QED  BY <1>1, <1>2 DEF Typed

LEMMA TypedKeptBySend == ASSUME Typed, NEW m \in Messages, Send(m) PROVE Typed'
  <1>0. call \in [Messages -> Call] /\ m \in Tokens /\ Nudge \in Tokens
    BY Tokens3 DEF Typed, TypeOK
  <1>1. CASE WakeEnter(m) \/ KeysEnter(m)
    <2>1. call' \in [Messages -> Call]
      BY <1>0, <1>1, GotoIs DEF WakeEnter, KeysEnter, CallPcs
    <2>. QED  BY <1>1, <2>1, TypedKeptByEnter DEF WakeEnter, KeysEnter, Rest
  <1>2. CASE SocketSend(m) \/ WakeType(m) \/ KeysType(m)
    <2>1. call' \in [Messages -> Call] /\ Append(queue, m) \in Seq(Tokens)
          /\ Append(prompt, Nudge) \in Seq(Tokens) /\ Append(prompt, m) \in Seq(Tokens)
      BY <1>0, <1>2, GotoIs DEF SocketSend, WakeType, KeysType, CallPcs, Typed, TypeOK
    <2>2. gone' \in SUBSET Messages
      BY <1>2 DEF SocketSend, WakeType, KeysType, Rest, Typed, TypeOK
    <2>. QED  BY <1>2, <2>1, <2>2 DEF SocketSend, WakeType, KeysType, Types, Rest, Typed, TypeOK, HooksInv
  <1>3. CASE InboxStamp(m)
    <2>1. {n \in Range(stamped) : call[n].pc \notin {"write", "failed"}} \in SUBSET Messages
          /\ Append(stamped, m) \in Seq(Messages)
      BY RangeOfSeq DEF Typed, TypeOK
    <2>. DEFINE after == {n \in Range(stamped) : call[n].pc \notin {"write", "failed"}}
    <2>2. call' = [call EXCEPT ![m].pc = "write", ![m].after = after]
      BY <1>3 DEF InboxStamp
    <2>. HIDE DEF after
    <2>3. call' \in [Messages -> Call]
      <3>1. after \in SUBSET Messages
        BY <2>1 DEF after
      <3>2. \A c \in Call : [c EXCEPT !.pc = "write", !.after = after] \in Call
        BY <3>1 DEF Call
      <3>. QED  BY <1>0, <2>2, <3>2
    <2>. QED  BY <1>3, <2>1, <2>3 DEF InboxStamp, Agent, Typed, TypeOK, HooksInv
  <1>4. CASE InboxWrite(m)
    <2>1. call' \in [Messages -> Call]
      BY <1>0, <1>4, GotoIs DEF InboxWrite, CallPcs
    <2>. QED  BY <1>4, <2>1 DEF InboxWrite, Agent, Typed, TypeOK, HooksInv
  <1>5. CASE KeysBegin(m) \/ WakeLook(m) \/ WakeRecheck(m)
    <2>1. \E pc \in CallPcs : Goto(m, pc)
      BY <1>5 DEF KeysBegin, WakeLook, WakeRecheck, CallPcs
    <2>2. call' \in [Messages -> Call]
      BY <1>0, <2>1, GotoIs
    <2>. QED  BY <1>5, <2>2 DEF KeysBegin, WakeLook, WakeRecheck, Rest, Agent, Typed, TypeOK, HooksInv
  <1>6. CASE KeysVerify(m)
    <2>1. call' \in [Messages -> Call]
      <3>1. CASE Goto(m, "ok") \/ Goto(m, "failed")
        BY <1>0, <3>1, GotoIs DEF CallPcs
      <3>2. CASE call[m].tries < Attempts /\ call' = [call EXCEPT ![m].pc = "retry", ![m].tries = @ + 1]
        BY <1>0, <3>2, SizeAssumption DEF Call
      <3>. QED  BY <1>6, <3>1, <3>2 DEF KeysVerify
    <2>. QED  BY <1>6, <2>1 DEF KeysVerify, Rest, Agent, Typed, TypeOK, HooksInv
  <1>. QED  BY <1>1, <1>2, <1>3, <1>4, <1>5, <1>6 DEF Send

LEMMA BatchIs == \A P \in SUBSET Messages : Batch(P) \in SUBSET P
  BY DEF Batch

LEMMA TypedKeptByDrain ==
  ASSUME Typed, DrainRead \/ DrainMark \/ DrainPrint \/ DrainCheck \/ DrainRecord \/ DrainKilled
  PROVE  Typed'
  <1>0. drain \in Drain /\ inbox \in SUBSET Messages /\ Batch(inbox) \in SUBSET Messages
    BY BatchIs DEF Typed, TypeOK
  <1>1. drain' \in Drain
    BY <1>0 DEF DrainRead, DrainMark, DrainPrint, DrainCheck, DrainRecord, DrainKilled, Drain
  <1>2. inbox' \in SUBSET Messages
    BY <1>0 DEF DrainRead, DrainMark, DrainPrint, DrainCheck, DrainRecord, DrainKilled
  <1>3. lost' \in SUBSET Messages
    BY <1>0 DEF DrainRead, DrainMark, DrainPrint, DrainCheck, DrainRecord, DrainKilled, Drain, Typed, TypeOK
  <1>4. activity' \in Activity
    BY DEF DrainRead, DrainMark, DrainPrint, DrainCheck, DrainRecord, DrainKilled, Typed, TypeOK, Activity
  <1>5. UNCHANGED <<call, stamped, prompt, queue, turn, report, read, gone, missed, typed, turns>>
    BY DEF DrainRead, DrainMark, DrainPrint, DrainCheck, DrainRecord, DrainKilled, Outer
  <1>6. drain.pc # "off" /\ drain'.pc # "off"
    BY <1>0 DEF DrainRead, DrainMark, DrainPrint, DrainCheck, DrainRecord, DrainKilled, Drain
  <1>7. TypeOK'
    BY <1>1, <1>2, <1>3, <1>4, <1>5 DEF Typed, TypeOK
  <1>. QED  BY <1>5, <1>6, <1>7 DEF Typed, HooksInv, NoDrain

LEMMA AppliedIs ==
  ASSUME NEW e \in Event \ {"none"}, NEW a \in Activity
  PROVE  /\ Applied(e, a) \in Activity
         /\ e = "stop" => Applied(e, a) # "working"
  BY DEF Applied, Event, Activity

LEMMA TypedKeptByReport == ASSUME Typed, ReportPending \/ ReportRead \/ ReportWrite \/ ReportFails PROVE Typed'
  <1>0. report \in Report /\ activity \in Activity
    BY DEF Typed, TypeOK
  <1>1. CASE ReportPending
    BY <1>0, <1>1 DEF ReportPending, Report, Event, Outer, Typed, TypeOK, HooksInv, NoReport
  <1>2. CASE ReportRead
    <2>1. Applied(report.event, activity) \in Activity
      BY <1>0, <1>2, AppliedIs DEF ReportRead, Typed, HooksInv, Report
    <2>2. report' \in Report /\ report'.pc \in {"done", "write"} /\ missed' \in BOOLEAN
      BY <1>0, <1>2, <2>1 DEF ReportRead, Report, Typed, TypeOK
    <2>. QED  BY <1>2, <2>2 DEF ReportRead, Outer, Typed, TypeOK, HooksInv, NoReport
  <1>3. CASE ReportWrite
    <2>1. report' \in Report /\ report'.pc = "done" /\ activity' \in Activity
      BY <1>0, <1>3 DEF ReportWrite, Report
    <2>2. missed' \in BOOLEAN
      BY <1>3 DEF ReportWrite
    <2>. QED  BY <1>3, <2>1, <2>2 DEF ReportWrite, Outer, Typed, TypeOK, HooksInv, NoReport
  <1>4. CASE ReportFails
    BY <1>0, <1>4 DEF ReportFails, Report, Outer, Typed, TypeOK, HooksInv, NoReport
  <1>. QED  BY <1>1, <1>2, <1>3, <1>4

LEMMA OrderedIs ==
  ASSUME Typed, NEW S \in SUBSET Messages, NEW s \in InOrder(S)
  PROVE  s \in Seq(Messages) /\ s \in Seq(Tokens) /\ Range(s) = S
  <1>1. PICK n \in 0..Len(stamped) : s \in [1..n -> S]
    BY DEF InOrder
  <1>2. Len(stamped) \in Nat
    BY DEF Typed, TypeOK
  <1>3. n \in Nat /\ s \in [1..n -> Messages]
    BY <1>1, <1>2
  <1>4. s \in Seq(Messages)
    BY <1>3
  <1>. QED  BY <1>4, Tokens3, SeqMonotonic DEF InOrder

LEMMA TypedKeptByAgent ==
  ASSUME Typed, \/ AgentPicksUp \/ TurnBegins \/ Asks \/ Answered \/ TurnEnds \/ Stops \/ Respawned
                \/ \E a \in {"working", "blocked"} : Declares(a)
  PROVE  Typed'
  <1>0. <<>> \in Seq(Tokens) /\ drain.printed \in SUBSET Messages /\ read \in Seq(Tokens) /\ queue \in Seq(Tokens)
    BY DEF Typed, TypeOK, Drain
  <1>1. ASSUME NEW text \in Seq(Tokens), Given(text) PROVE read' \in Seq(Tokens)
    <2>1. PICK s \in InOrder(drain.printed) : read' = read \o text \o s
      BY <1>1 DEF Given
    <2>2. s \in Seq(Tokens) /\ read \o text \in Seq(Tokens)
      BY <1>0, <2>1, OrderedIs
    <2>. QED  BY <2>1, <2>2
  <1>2. CASE AgentPicksUp
    <2>1. queue \o <<>> \in Seq(Tokens) /\ turns + 1 \in 0..MaxTurns
      BY <1>0, <1>2, BoundsAssumption DEF AgentPicksUp, Typed, TypeOK
    <2>2. /\ turn' = "submitting" /\ turns' = turns + 1 /\ queue' = queue \o <<>>
          /\ drain' = [NoDrain EXCEPT !.pc = "read"]
          /\ report' = [NoReport EXCEPT !.pc = "read", !.event = "prompt"]
      BY <1>2 DEF AgentPicksUp, Submitted
    <2>3. TypeOK'
      BY <1>2, <2>1, <2>2, Records DEF AgentPicksUp, Senders, Typed, TypeOK, Turn
    <2>. QED  BY <2>2, <2>3 DEF Typed, HooksInv, NoDrain, NoReport
  <1>3. CASE TurnBegins
    <2>1. read' \in Seq(Tokens)
      BY <1>0, <1>1, <1>3 DEF TurnBegins
    <2>2. TypeOK'
      BY <1>0, <1>3, <2>1, Records DEF TurnBegins, Senders, Typed, TypeOK, Turn
    <2>. QED  BY <1>3, <2>2 DEF Typed, HooksInv, TurnBegins, NoReport
  <1>4. CASE Stops
    <2>1. read' \in Seq(Tokens)
      BY <1>0, <1>1, <1>4 DEF Stops
    <2>2. TypeOK'
      BY <1>0, <1>4, <2>1, Records DEF Stops, Senders, Typed, TypeOK, Turn
    <2>. QED  BY <1>4, <2>2 DEF Typed, HooksInv, Stops, NoReport
  <1>5. CASE Asks
    BY <1>5, Records DEF Asks, Senders, Typed, TypeOK, Turn, HooksInv, NoReport
  <1>6. CASE Answered
    BY <1>6, Records DEF Answered, Senders, Typed, TypeOK, Turn, HooksInv, NoReport
  <1>7. CASE TurnEnds
    BY <1>7, Records DEF TurnEnds, Senders, Typed, TypeOK, Turn, HooksInv, NoReport, NoDrain
  <1>8. CASE \E a \in {"working", "blocked"} : Declares(a)
    BY <1>8 DEF Declares, Typed, TypeOK, Activity, HooksInv
  <1>9. CASE Respawned
    <2>1. gone' \in SUBSET Messages /\ lost' \in SUBSET Messages
      BY <1>9 DEF Respawned, Typed, TypeOK, Drain
    <2>2. activity' \in Activity /\ missed' \in BOOLEAN
      BY <1>9 DEF Respawned, Typed, TypeOK, Activity
    <2>. QED  BY <1>0, <1>9, <2>1, <2>2, Records DEF Respawned, Typed, TypeOK, Turn, HooksInv, NoDrain, NoReport
  <1>. QED  BY <1>2, <1>3, <1>4, <1>5, <1>6, <1>7, <1>8, <1>9

LEMMA TypedHolds == Spec => []Typed
  <1>1. Init => Typed
    <2>. SUFFICES ASSUME Init PROVE Typed
      OBVIOUS
    <2>1. call \in [Messages -> Call]
      BY SizeAssumption DEF Init, Call
    <2>2. missed \in BOOLEAN
      BY DEF Init
    <2>. QED
      BY <2>1, <2>2, Records, BoundsAssumption
         DEF Init, Typed, TypeOK, HooksInv, Turn, Activity, NoReport, NoDrain
  <1>2. Typed /\ [Next]_vars => Typed'
    <2>. SUFFICES ASSUME Typed, [Next]_vars PROVE Typed'
      OBVIOUS
    <2>1. CASE HumanTypes
      BY <2>1, Tokens3, BoundsAssumption DEF HumanTypes, Types, Typed, TypeOK, HooksInv
    <2>2. CASE HumanSubmits
      BY <2>2, TypedKeptByEnter DEF HumanSubmits, Typed, TypeOK
    <2>3. CASE UNCHANGED vars
      BY <2>3 DEF vars, Typed, TypeOK, HooksInv
    <2>. QED
      BY <2>1, <2>2, <2>3, TypedKeptBySend, TypedKeptByDrain, TypedKeptByReport, TypedKeptByAgent
         DEF Next, Hook, AgentStep
  <1>. QED  BY <1>1, <1>2, PTL DEF Spec

(* The senders, the hooks and the agent keep their types: in particular no   *)
(* turn begins beyond the bound, and no Enter is pressed again too often.    *)
THEOREM TypeCorrect == Spec => []TypeOK
  BY TypedHolds, PTL DEF Typed

-----------------------------------------------------------------------------
(* The stamps.  A message is stamped once, so that `Before` is an order, a    *)
(* batch is never empty, and what was sent before one of its members is in it.  *)

KeysPcs == {"enter", "verify", "retry"}
SendPcs == {"wake", "nudge", "recheck", "wakeEnter"}
Single(s) == \A i, j \in DOMAIN s : s[i] = s[j] /\ s[i] \in Messages => i = j

StampInv ==
  /\ Single(stamped)
  /\ \A m \in Messages :
       /\ call[m].pc \in {"ready", "type"} \cup KeysPcs => m \notin Range(stamped)
       /\ call[m].pc \in {"write"} \cup SendPcs => m \in Range(stamped)

LEMMA SingleAppend ==
  ASSUME NEW S, NEW s \in Seq(S), NEW x \in S, Single(s), x \notin Range(s) \/ x \notin Messages
  PROVE  Single(Append(s, x))
  <1>1. DOMAIN s = 1..Len(s) /\ Len(s) \in Nat /\ DOMAIN Append(s, x) = 1..(Len(s) + 1)
    OBVIOUS
  <1>2. \A i \in DOMAIN s : Append(s, x)[i] = s[i] /\ s[i] \in Range(s)
    BY DEF Range
  <1>3. Append(s, x)[Len(s) + 1] = x
    OBVIOUS
  <1>. QED  BY <1>1, <1>2, <1>3 DEF Single

LEMMA SingleConcat ==
  ASSUME NEW S, NEW s \in Seq(S), NEW t \in Seq(S), Single(s), Single(t),
         Range(s) \cap Range(t) \cap Messages = {}
  PROVE  Single(s \o t)
  <1>. SUFFICES ASSUME NEW i \in DOMAIN (s \o t), NEW j \in DOMAIN (s \o t),
                       (s \o t)[i] = (s \o t)[j], (s \o t)[i] \in Messages
                PROVE  i = j
    BY DEF Single
  <1>1. DOMAIN (s \o t) = 1..(Len(s) + Len(t)) /\ DOMAIN s = 1..Len(s) /\ DOMAIN t = 1..Len(t)
        /\ Len(s) \in Nat /\ Len(t) \in Nat
    OBVIOUS
  <1>2. \A k \in DOMAIN (s \o t) :
          (s \o t)[k] = IF k <= Len(s) THEN s[k] ELSE t[k - Len(s)]
    OBVIOUS
  <1>3. \A k \in DOMAIN s : s[k] \in Range(s)
    BY DEF Range
  <1>4. \A k \in DOMAIN t : t[k] \in Range(t)
    BY DEF Range
  <1>5. CASE i <= Len(s) /\ j <= Len(s)
    BY <1>1, <1>2, <1>5 DEF Single
  <1>6. CASE ~(i <= Len(s)) /\ ~(j <= Len(s))
    <2>1. i - Len(s) \in DOMAIN t /\ j - Len(s) \in DOMAIN t
      BY <1>1, <1>6
    <2>2. t[i - Len(s)] = t[j - Len(s)] /\ t[i - Len(s)] \in Messages
      BY <1>2, <1>6
    <2>3. i - Len(s) = j - Len(s)
      BY <2>1, <2>2 DEF Single
    <2>. QED  BY <1>1, <2>3
  <1>7. CASE (i <= Len(s)) # (j <= Len(s))
    BY <1>1, <1>2, <1>3, <1>4, <1>7
  <1>. QED  BY <1>5, <1>6, <1>7

LEMMA SingleEmpty == Single(<<>>)
  BY DEF Single

(* What a step of a send does to its call.                                    *)
LEMMA CallMoves ==
  ASSUME Typed, NEW m \in Messages, Send(m)
  PROVE  /\ \A n \in Messages \ {m} : call'[n] = call[n]
         /\ call'[m].pc # "ready"
         /\ call'[m].pc = "type" => call[m].pc = "ready"
         /\ call'[m].pc \in KeysPcs => KeysType(m) \/ call[m].pc \in KeysPcs
         /\ call'[m].pc = "write" => InboxStamp(m)
         /\ call'[m].pc \in SendPcs => InboxWrite(m) \/ call[m].pc \in SendPcs
         /\ call'[m].pc = "ok" => SocketSend(m) \/ call[m].pc \in KeysPcs \cup SendPcs
         /\ ~InboxStamp(m) => call'[m].after = call[m].after /\ stamped' = stamped
         /\ call'[m].pc = "failed" => call[m].pc \in {"write", "verify"}
  <1>0. call \in [Messages -> Call] /\ call[m].pc \in CallPcs
    BY DEF Typed, TypeOK, Call, CallPcs
  <1>1. CASE InboxStamp(m)
    BY <1>0, <1>1 DEF InboxStamp, KeysPcs, SendPcs
  <1>2. CASE SocketSend(m) \/ KeysBegin(m) \/ InboxWrite(m) \/ WakeLook(m) \/ WakeType(m)
    BY <1>0, <1>2, GotoIs
       DEF SocketSend, KeysBegin, InboxWrite, WakeLook, WakeType, CallPcs, KeysPcs, SendPcs, Rest
  <1>3. CASE WakeRecheck(m) \/ WakeEnter(m) \/ KeysType(m) \/ KeysEnter(m)
    BY <1>0, <1>3, GotoIs
       DEF WakeRecheck, WakeEnter, KeysType, Types, KeysEnter, CallPcs, KeysPcs, SendPcs, Rest
  <1>4. CASE KeysVerify(m)
    <2>1. CASE Goto(m, "ok") \/ Goto(m, "failed")
      BY <1>0, <1>4, <2>1, GotoIs DEF KeysVerify, CallPcs, KeysPcs, SendPcs, Rest
    <2>2. CASE call' = [call EXCEPT ![m].pc = "retry", ![m].tries = @ + 1]
      BY <1>0, <1>4, <2>2 DEF KeysVerify, KeysPcs, SendPcs, Rest, Call
    <2>. QED  BY <1>4, <2>1, <2>2 DEF KeysVerify
  <1>. QED  BY <1>1, <1>2, <1>3, <1>4 DEF Send

LEMMA OthersLeaveCall ==
  ASSUME [Next]_vars, ~\E m \in Messages : Send(m)
  PROVE  UNCHANGED <<call, stamped>>
  BY DEF Next, vars, HumanTypes, HumanSubmits, Hook, DrainRead, DrainMark, DrainPrint, DrainCheck,
         DrainRecord, DrainKilled, ReportPending, ReportRead, ReportWrite, ReportFails, Outer, AgentStep,
         AgentPicksUp, TurnBegins, Answered, TurnEnds, Stops, Asks, Respawned, Declares, Senders

LEMMA StampInvKept == ASSUME Typed, StampInv, [Next]_vars PROVE StampInv'
  <1>1. CASE ~\E m \in Messages : Send(m)
    BY <1>1, OthersLeaveCall DEF StampInv, Single
  <1>2. ASSUME NEW m \in Messages, Send(m) PROVE StampInv'
    <2>1. CASE InboxStamp(m)
      <3>1. m \notin Range(stamped) /\ stamped \in Seq(Messages) /\ stamped' = Append(stamped, m)
        BY <2>1 DEF InboxStamp, StampInv, Typed, TypeOK
      <3>2. Single(stamped)' /\ Range(stamped') = Range(stamped) \cup {m}
        BY <3>1, SingleAppend, RangeOfAppend DEF StampInv, Single
      <3>3. call'[m].pc = "write"
        BY <2>1 DEF InboxStamp, Typed, TypeOK, Call
      <3>. QED  BY <1>2, <3>2, <3>3, CallMoves DEF StampInv, KeysPcs, SendPcs
    <2>2. CASE ~InboxStamp(m)
      <3>1. stamped' = stamped
        BY <1>2, <2>2, CallMoves
      <3>2. (InboxWrite(m) => call[m].pc = "write") /\ (KeysType(m) => call[m].pc = "type")
        BY DEF InboxWrite, KeysType
      <3>. QED  BY <1>2, <2>2, <3>1, <3>2, CallMoves DEF StampInv, KeysPcs, SendPcs, Single
    <2>. QED  BY <2>1, <2>2
  <1>. QED  BY <1>1, <1>2

LEMMA BeforeIsAnOrder ==
  ASSUME Typed, Single(stamped), NEW a, NEW b \in Messages, NEW c, Before(a, b), Before(b, c)
  PROVE  Before(a, c)
  <1>1. PICK i, j \in DOMAIN stamped : i < j /\ stamped[i] = a /\ stamped[j] = b
    BY DEF Before
  <1>2. PICK k, l \in DOMAIN stamped : k < l /\ stamped[k] = b /\ stamped[l] = c
    BY DEF Before
  <1>3. j = k
    BY <1>1, <1>2 DEF Single
  <1>4. DOMAIN stamped \subseteq Nat
    BY DEF Typed, TypeOK
  <1>. QED  BY <1>1, <1>2, <1>3, <1>4 DEF Before

LEMMA FirstOfStamped ==
  ASSUME Typed, Single(stamped), NEW P \in SUBSET Messages, P # {}, P \subseteq Range(stamped)
  PROVE  \E m \in P : UpTo(m, P) = {m}
  <1>. DEFINE T == {i \in DOMAIN stamped : stamped[i] \in P}
  <1>1. T \subseteq Nat /\ T # {}
    BY DEF Range, Typed, TypeOK
  <1>2. PICK i \in T : \A k \in T : ~(<<k, i>> \in OpToRel(<, Nat))
    BY <1>1, NatLessThanWellFounded, WFMin
  <1>3. \A k \in T : ~(k < i)
    BY <1>1, <1>2 DEF OpToRel
  <1>4. ASSUME NEW n \in P, Before(n, stamped[i]) PROVE FALSE
    <2>1. PICK a, b \in DOMAIN stamped : a < b /\ stamped[a] = n /\ stamped[b] = stamped[i]
      BY <1>4 DEF Before
    <2>2. b = i /\ a \in T
      BY <2>1 DEF Single
    <2>. QED  BY <1>3, <2>1, <2>2
  <1>. QED  BY <1>4 DEF UpTo

LEMMA BatchGoesOn ==
  ASSUME Typed, Single(stamped), inbox # {}, inbox \subseteq Range(stamped)
  PROVE  /\ Batch(inbox) # {}
         /\ \A m \in Batch(inbox), n \in inbox : Before(n, m) => n \in Batch(inbox)
  <1>. DEFINE load(m) == MapThenSumSet(LAMBDA n : Size[n], UpTo(m, inbox))
              fits == {m \in inbox : \A n \in UpTo(m, inbox) : load(n) <= MaxPayload}
              first == {m \in inbox : UpTo(m, inbox) = {m}}
  <1>1. Batch(inbox) = IF fits = {} THEN first ELSE fits
    BY DEF Batch
  <1>2. inbox \in SUBSET Messages
    BY DEF Typed, TypeOK
  <1>3. first # {}
    BY <1>2, FirstOfStamped
  <1>4. ASSUME NEW m \in first, NEW n \in inbox, Before(n, m) PROVE n \in first
    BY <1>4 DEF UpTo
  <1>5. ASSUME NEW m \in fits, NEW n \in inbox, Before(n, m) PROVE n \in fits
    <2>1. UpTo(n, inbox) \subseteq UpTo(m, inbox)
      BY <1>2, <1>5, BeforeIsAnOrder DEF UpTo
    <2>. QED  BY <2>1
  <1>. HIDE DEF fits, first
  <1>. QED  BY <1>1, <1>3, <1>4, <1>5

-----------------------------------------------------------------------------
(* The hook that drains the inbox.  What it has marked it has printed, is     *)
(* about to print or has lost; a batch that was not printed is still pending.  *)

DrainInv ==
  /\ drain.pc \in {"off", "read"} => drain.batch = {} /\ drain.printed = {}
  /\ drain.pc = "mark" => drain.batch \subseteq inbox
  /\ drain.pc \in {"mark", "print"} => drain.printed = {}
  /\ drain.pc \in {"mark", "print", "check", "write"} => drain.batch # {}
  /\ drain.pc \in {"check", "write"} => drain.printed = drain.batch
  /\ drain.pc = "done" => \/ drain.printed = drain.batch
                          \/ drain.printed = {} /\ drain.batch \subseteq inbox \cup lost
  /\ drain.batch \cup inbox \cup lost \subseteq Range(stamped)

LEMMA DrainInvKept == ASSUME Typed, StampInv, DrainInv, [Next]_vars PROVE DrainInv'
  <1>0. drain \in Drain /\ Range(stamped) \subseteq Range(stamped')
    <2>1. CASE \E m \in Messages : InboxStamp(m)
      BY <2>1, RangeOfAppend DEF InboxStamp, Typed, TypeOK
    <2>2. CASE ~\E m \in Messages : InboxStamp(m)
      <3>1. \A m \in Messages : Send(m) => stamped' = stamped
        BY <2>2, CallMoves
      <3>2. stamped' = stamped
        BY <3>1, OthersLeaveCall
      <3>. QED  BY <3>2 DEF Typed, TypeOK
    <2>. QED  BY <2>1, <2>2 DEF Typed, TypeOK
  <1>1. CASE DrainRead
    <2>1. inbox # {} => Batch(inbox) # {} /\ Batch(inbox) \subseteq inbox
      BY BatchGoesOn, BatchIs DEF StampInv, DrainInv, Typed, TypeOK
    <2>. QED  BY <1>0, <1>1, <2>1 DEF DrainRead, DrainInv, Outer, Drain
  <1>2. CASE DrainMark \/ DrainPrint \/ DrainCheck \/ DrainRecord \/ DrainKilled
    BY <1>0, <1>2 DEF DrainMark, DrainPrint, DrainCheck, DrainRecord, DrainKilled, DrainInv, Outer, Drain
  <1>3. CASE ReportPending \/ ReportRead \/ ReportWrite \/ ReportFails
    BY <1>3 DEF ReportPending, ReportRead, ReportWrite, ReportFails, Outer, DrainInv
  <1>4. CASE AgentStep \/ Asks \/ \E a \in {"working", "blocked"} : Declares(a)
    BY <1>4 DEF AgentStep, AgentPicksUp, TurnBegins, Answered, TurnEnds, Stops, Asks, Respawned, Declares,
                Senders, Submitted, NoDrain, DrainInv
  <1>5. CASE HumanTypes \/ UNCHANGED vars
    BY <1>5 DEF HumanTypes, vars, DrainInv
  <1>6. ASSUME Enter, UNCHANGED <<stamped, inbox, lost>> PROVE DrainInv'
    BY <1>6, EnterIs DEF DrainInv, NoDrain
  <1>7. CASE HumanSubmits
    BY <1>6, <1>7 DEF HumanSubmits
  <1>8. ASSUME NEW m \in Messages, Send(m) PROVE DrainInv'
    <2>1. CASE WakeEnter(m) \/ KeysEnter(m)
      BY <1>6, <2>1 DEF WakeEnter, KeysEnter, Rest
    <2>2. CASE InboxWrite(m)
      <3>1. m \in Range(stamped)
        BY <2>2 DEF InboxWrite, StampInv
      <3>. QED  BY <1>0, <2>2, <3>1 DEF InboxWrite, Agent, DrainInv
    <2>3. CASE ~(WakeEnter(m) \/ KeysEnter(m) \/ InboxWrite(m))
      <3>1. UNCHANGED <<inbox, lost, drain>>
        BY <1>8, <2>3 DEF Send, SocketSend, KeysBegin, InboxStamp, WakeLook, WakeType, WakeRecheck,
                          KeysType, Types, KeysVerify, Rest, Agent
      <3>. QED  BY <1>0, <3>1 DEF DrainInv
    <2>. QED  BY <2>1, <2>2, <2>3
  <1>9. CASE Respawned
    BY <1>9 DEF Respawned, NoDrain, DrainInv, Typed, TypeOK
  <1>. QED  BY <1>1, <1>2, <1>3, <1>4, <1>5, <1>7, <1>8, <1>9 DEF Next, Hook

-----------------------------------------------------------------------------
(* Where a message is.  It moves from the inbox to a batch, from the prompt to  *)
(* the queue, and from there or from a hook to what is read, and is lost with a   *)
(* hook, an agent or a pane without input line only; so it stays somewhere.     *)

Around(m) ==
  m \in inbox \cup drain.batch \cup Range(prompt) \cup Range(queue) \cup Range(read) \cup lost \cup gone

PlacedInv ==
  \A m \in Messages : call[m].pc \in SendPcs \cup KeysPcs \cup {"ok"} => Around(m)

LEMMA GivenIs ==
  ASSUME Typed, NEW text \in Seq(Tokens), Given(text)
  PROVE  Range(read') = Range(read) \cup Range(text) \cup drain.printed
  <1>1. PICK s \in InOrder(drain.printed) : read' = read \o text \o s
    BY DEF Given
  <1>2. read \in Seq(Tokens) /\ drain.printed \in SUBSET Messages
    BY DEF Typed, TypeOK, Drain
  <1>3. s \in Seq(Tokens) /\ Range(s) = drain.printed /\ read \o text \in Seq(Tokens)
    BY <1>1, <1>2, OrderedIs
  <1>4. Range(read \o text) = Range(read) \cup Range(text)
    BY <1>2, RangeConcatenation
  <1>5. \A a, b \in Seq(Tokens) : Range(a \o b) = Range(a) \cup Range(b)
    BY RangeConcatenation
  <1>6. Range((read \o text) \o s) = Range(read \o text) \cup Range(s)
    BY <1>3, <1>5
  <1>. QED  BY <1>1, <1>3, <1>4, <1>6

LEMMA EnterMoves ==
  ASSUME Typed, Enter
  PROVE  \/ UNCHANGED <<prompt, queue>>
         \/ Range(prompt') = {} /\ Range(queue') = Range(queue) \cup Range(prompt)
  <1>1. Range(queue \o prompt) = Range(queue) \cup Range(prompt)
    BY RangeConcatenation DEF Typed, TypeOK
  <1>. QED  BY <1>1, EnterIs, RangeOfEmpty

LEMMA EnterKeepsBatch == ASSUME Typed, DrainInv, Enter PROVE drain.batch = {} \/ drain' = drain
  <1>1. CASE turn = "idle"
    BY <1>1 DEF Typed, HooksInv, NoDrain
  <1>2. CASE turn # "idle"
    BY <1>2, EnterIs
  <1>. QED  BY <1>1, <1>2

LEMMA AroundStays ==
  ASSUME Typed, DrainInv, [Next]_vars, NEW n \in Messages, Around(n)
  PROVE  Around(n)'
  <1>0. /\ drain \in Drain /\ inbox \in SUBSET Messages /\ queue \in Seq(Tokens)
        /\ prompt \in Seq(Tokens) /\ Messages \subseteq Tokens /\ Nudge \in Tokens /\ Human \in Tokens
    BY Tokens3 DEF Typed, TypeOK
  <1>1. ASSUME Enter, UNCHANGED <<inbox, read, lost, gone>> PROVE Around(n)'
    BY <1>1, EnterMoves, EnterKeepsBatch DEF Around
  <1>2. ASSUME NEW x \in Tokens, UNCHANGED <<inbox, drain, read, lost, gone>>,
               \/ prompt' = Append(prompt, x) /\ queue' = queue
               \/ queue' = Append(queue, x) /\ prompt' = prompt
        PROVE  Around(n)'
    <2>1. Range(Append(prompt, x)) = Range(prompt) \cup {x} /\ Range(Append(queue, x)) = Range(queue) \cup {x}
      BY <1>0, RangeOfAppend
    <2>. QED  BY <1>2, <2>1 DEF Around
  <1>3. ASSUME NEW m \in Messages, Send(m) PROVE Around(n)'
    <2>1. CASE WakeEnter(m) \/ KeysEnter(m)
      BY <1>1, <2>1 DEF WakeEnter, KeysEnter, Rest
    <2>2. CASE SocketSend(m) \/ WakeType(m) \/ KeysType(m)
      <3>1. CASE UNCHANGED <<prompt, queue>>
        BY <2>2, <3>1 DEF SocketSend, WakeType, KeysType, Rest, Around
      <3>2. CASE ~UNCHANGED <<prompt, queue>>
        BY <1>0, <1>2, <2>2, <3>2 DEF SocketSend, WakeType, KeysType, Types, Rest
      <3>. QED  BY <3>1, <3>2
    <2>3. CASE InboxWrite(m)
      BY <2>3 DEF InboxWrite, Agent, Around
    <2>4. CASE KeysBegin(m) \/ InboxStamp(m) \/ WakeLook(m) \/ WakeRecheck(m) \/ KeysVerify(m)
      BY <2>4 DEF KeysBegin, InboxStamp, WakeLook, WakeRecheck, KeysVerify, Rest, Agent, Around
    <2>. QED  BY <1>3, <2>1, <2>2, <2>3, <2>4 DEF Send
  <1>4. CASE HumanTypes
    BY <1>0, <1>2, <1>4 DEF HumanTypes, Types
  <1>5. CASE HumanSubmits
    BY <1>1, <1>5 DEF HumanSubmits
  <1>6. CASE DrainRead \/ DrainPrint \/ DrainCheck \/ DrainRecord \/ DrainKilled
    BY <1>0, <1>6 DEF DrainRead, DrainPrint, DrainCheck, DrainRecord, DrainKilled, Outer, Around, DrainInv, Drain
  <1>7. CASE DrainMark
    BY <1>0, <1>7 DEF DrainMark, Outer, Around, Drain
  <1>8. CASE ReportPending \/ ReportRead \/ ReportWrite \/ ReportFails
    BY <1>8 DEF ReportPending, ReportRead, ReportWrite, ReportFails, Outer, Around
  <1>9. CASE AgentPicksUp
    <2>1. queue' = queue
      BY <1>0, <1>9 DEF AgentPicksUp, Submitted
    <2>. QED  BY <1>9, <2>1 DEF AgentPicksUp, Senders, Around, Typed, HooksInv, NoDrain
  <1>10. ASSUME HooksDone, NEW text \in Seq(Tokens), Given(text), UNCHANGED Senders,
                \/ text = queue
                \/ text = <<>> /\ queue' = queue
         PROVE  Around(n)'
    <2>1. Range(read') = Range(read) \cup Range(text) \cup drain.printed
      BY <1>10, GivenIs
    <2>2. drain.batch \subseteq drain.printed \cup inbox \cup lost
      BY <1>10 DEF HooksDone, DrainInv
    <2>. QED  BY <1>10, <2>1, <2>2 DEF Senders, Around
  <1>11. CASE TurnBegins \/ Stops
    BY <1>0, <1>10, <1>11, EmptySeq DEF TurnBegins, Stops
  <1>12. CASE Asks \/ Answered \/ TurnEnds \/ (\E a \in {"working", "blocked"} : Declares(a)) \/ UNCHANGED vars
    BY <1>12 DEF Asks, Answered, TurnEnds, Declares, Senders, vars, Around, Typed, HooksInv, NoDrain
  <1>13. CASE Respawned
    BY <1>13 DEF Respawned, Around
  <1>. QED
    BY <1>3, <1>4, <1>5, <1>6, <1>7, <1>8, <1>9, <1>11, <1>12, <1>13 DEF Next, Hook, AgentStep

LEMMA PlacedInvKept ==
  ASSUME Typed, DrainInv, PlacedInv, [Next]_vars
  PROVE  PlacedInv'
  <1>. DEFINE On(m) == call[m].pc \in SendPcs \cup KeysPcs \cup {"ok"}
  <1>1. \A n \in Messages : On(n) => Around(n)'
    BY AroundStays DEF PlacedInv
  <1>2. CASE ~\E m \in Messages : Send(m)
    BY <1>1, <1>2, OthersLeaveCall DEF PlacedInv
  <1>3. ASSUME NEW m \in Messages, Send(m) PROVE PlacedInv'
    <2>1. SocketSend(m) \/ KeysType(m) \/ InboxWrite(m) => (On(m)' => Around(m)')
      <3>1. m \in Tokens /\ prompt \in Seq(Tokens) /\ queue \in Seq(Tokens)
        BY Tokens3 DEF Typed, TypeOK
      <3>2. m \in Range(Append(prompt, m)) /\ m \in Range(Append(queue, m))
        BY <3>1, RangeOfAppend
      <3>3. InboxWrite(m) => m \in inbox' \/ call'[m].pc = "failed"
        BY GotoIs DEF InboxWrite, CallPcs, Typed, TypeOK
      <3>. QED  BY <3>2, <3>3 DEF SocketSend, KeysType, Types, InboxWrite, Around, SendPcs, KeysPcs
    <2>2. On(m)' => On(m) \/ SocketSend(m) \/ KeysType(m) \/ InboxWrite(m)
      BY <1>3, CallMoves
    <2>3. \A n \in Messages \ {m} : On(n)' => On(n)
      BY <1>3, CallMoves
    <2>. QED  BY <1>1, <2>1, <2>2, <2>3 DEF PlacedInv
  <1>. QED  BY <1>2, <1>3

-----------------------------------------------------------------------------
(* A Stop.  What its hook found pending makes the turn continue: while the turn  *)
(* stops, that is still in the inbox, lost, or about to be given to the agent.  *)

MoreToCome == inbox # {} \/ lost # {} \/ drain.printed # {} \/ drain.pc = "print"

IdleInv ==
  /\ turn = "idle" => MoreToCome \/ missed \/ activity # "working"
  /\ turn = "stopping" =>
       /\ report.event = "continues" => MoreToCome
       /\ report.pc \in {"read", "write"} => report.event \in {"stop", "continues"}
       /\ report.event = "stop" /\ report.pc = "write" => report.new # "working"
       /\ report.event = "stop" /\ report.pc = "done" => MoreToCome \/ missed \/ activity # "working"
       /\ report.pc = "done" => missed \/ report.event \in {"stop", "continues"}

LEMMA MoreStays ==
  ASSUME Typed, DrainInv, MoreToCome, inbox \subseteq inbox', lost \subseteq lost',
         UNCHANGED <<drain>>
  PROVE  MoreToCome'
  BY DEF MoreToCome

LEMMA IdleInvKept == ASSUME Typed, DrainInv, IdleInv, [Next]_vars PROVE IdleInv'
  <1>0. drain \in Drain /\ report \in Report /\ activity \in Activity
    BY DEF Typed, TypeOK
  <1>1. ASSUME inbox \subseteq inbox', UNCHANGED <<turn, report, activity, lost, drain, missed>> PROVE IdleInv'
    BY <1>1, MoreStays DEF IdleInv
  <1>2. ASSUME Enter, UNCHANGED <<inbox, lost, activity, missed>> PROVE IdleInv'
    BY <1>1, <1>2, EnterIs DEF IdleInv
  <1>3. ASSUME NEW m \in Messages, Send(m) PROVE IdleInv'
    <2>1. CASE WakeEnter(m) \/ KeysEnter(m)
      BY <1>2, <2>1 DEF WakeEnter, KeysEnter, Rest
    <2>2. CASE ~(WakeEnter(m) \/ KeysEnter(m))
      BY <1>1, <1>3, <2>2
         DEF Send, SocketSend, KeysBegin, InboxStamp, InboxWrite, WakeLook, WakeType, WakeRecheck,
             KeysType, Types, KeysVerify, Rest, Agent
    <2>. QED  BY <2>1, <2>2
  <1>4. CASE DrainRead \/ DrainMark \/ DrainPrint \/ DrainCheck \/ DrainRecord \/ DrainKilled
    <2>1. UNCHANGED <<turn, report, missed>> /\ turn # "idle"
      BY <1>0, <1>4 DEF DrainRead, DrainMark, DrainPrint, DrainCheck, DrainRecord, DrainKilled, Outer,
                        Typed, HooksInv, NoDrain
    <2>2. MoreToCome => MoreToCome'
      <3>1. CASE DrainKilled
        BY <1>0, <3>1 DEF DrainKilled, DrainInv, MoreToCome, Drain
      <3>2. CASE DrainRead \/ DrainMark \/ DrainPrint \/ DrainCheck \/ DrainRecord
        BY <1>0, <3>2 DEF DrainRead, DrainMark, DrainPrint, DrainCheck, DrainRecord, DrainInv, MoreToCome, Drain
      <3>. QED  BY <1>4, <3>1, <3>2
    <2>3. activity' = activity \/ MoreToCome'
      BY <1>0, <1>4 DEF DrainRead, DrainMark, DrainPrint, DrainCheck, DrainRecord, DrainKilled,
                        DrainInv, MoreToCome, Drain
    <2>. QED  BY <2>1, <2>2, <2>3 DEF IdleInv
  <1>5. CASE ReportPending
    BY <1>0, <1>5 DEF ReportPending, Outer, IdleInv, MoreToCome, Report, Typed, HooksInv, NoReport
  <1>6. CASE ReportRead
    <2>1. report.event \in Event \ {"none"} /\ turn # "idle" /\ UNCHANGED <<turn, inbox, lost, drain, activity>>
      BY <1>0, <1>6 DEF ReportRead, Outer, Report, Typed, HooksInv, NoReport
    <2>2. /\ report'.event = report.event /\ report'.new = Applied(report.event, activity)
          /\ missed' = (missed /\ report'.new # activity)
          /\ report'.pc = IF report'.new = activity THEN "done" ELSE "write"
      BY <1>0, <1>6 DEF ReportRead, Report
    <2>3. report.event = "stop" => Applied(report.event, activity) # "working"
      BY <1>0, <2>1, AppliedIs
    <2>4. MoreToCome' = MoreToCome
      BY <2>1 DEF MoreToCome
    <2>5. report.pc = "read"
      BY <1>6 DEF ReportRead
    <2>. QED  BY <2>1, <2>2, <2>3, <2>4, <2>5 DEF IdleInv
  <1>7. CASE ReportWrite
    BY <1>0, <1>7 DEF ReportWrite, Outer, IdleInv, MoreToCome, Report, Typed, HooksInv, NoReport
  <1>8. CASE Stops
    <2>1. drain'.printed = {} /\ drain'.pc = "off"
      BY <1>8 DEF Stops, NoDrain
    <2>. QED  BY <1>8, <2>1 DEF Stops, HooksDone, Senders, IdleInv, MoreToCome, Typed, HooksInv
  <1>9. CASE TurnEnds
    BY <1>9 DEF TurnEnds, IdleInv, NoReport
  <1>13. CASE ReportFails
    BY <1>0, <1>13 DEF ReportFails, Outer, IdleInv, Report, MoreToCome, Typed, HooksInv, NoReport
  <1>14. CASE Respawned
    BY <1>14 DEF Respawned, IdleInv
  <1>10. CASE AgentPicksUp \/ TurnBegins \/ Asks \/ Answered \/ \E a \in {"working", "blocked"} : Declares(a)
    BY <1>10 DEF AgentPicksUp, TurnBegins, Asks, Answered, Declares, Submitted, IdleInv
  <1>11. CASE HumanTypes \/ UNCHANGED vars
    BY <1>1, <1>11 DEF HumanTypes, Types, vars
  <1>12. CASE HumanSubmits
    BY <1>2, <1>12 DEF HumanSubmits
  <1>. QED
    BY <1>3, <1>4, <1>5, <1>6, <1>7, <1>8, <1>9, <1>10, <1>11, <1>12, <1>13, <1>14
       DEF Next, Hook, AgentStep

-----------------------------------------------------------------------------
(* A message that has not been handed over is nowhere, and one that has went      *)
(* either through the inbox or over the lines of the agent.                     *)

OnLines(m) == m \in Range(prompt) \cup Range(queue) \cup gone

FreshInv == \A m \in Messages : call[m].pc \in {"ready", "type", "write"} => ~Around(m)

ApartInv == \A m \in Messages : OnLines(m) => m \notin Range(stamped)

LEMMA AroundComes ==
  ASSUME Typed, DrainInv, [Next]_vars, NEW n \in Messages, Around(n)', ~Around(n)
  PROVE  SocketSend(n) \/ KeysType(n) \/ (InboxWrite(n) /\ call'[n].pc = "wake")
  <1>0. /\ drain \in Drain /\ inbox \in SUBSET Messages /\ queue \in Seq(Tokens) /\ n # Nudge /\ n # Human
        /\ prompt \in Seq(Tokens) /\ Messages \subseteq Tokens /\ Nudge \in Tokens /\ Human \in Tokens
    BY Tokens3, TokenAssumption DEF Typed, TypeOK
  <1>1. ASSUME Enter, UNCHANGED <<inbox, read, lost, gone>> PROVE FALSE
    <2>1. drain'.batch \subseteq drain.batch
      BY <1>0, <1>1, EnterIs DEF NoDrain
    <2>. QED  BY <1>1, <2>1, EnterMoves DEF Around
  <1>2. ASSUME NEW x \in Tokens, UNCHANGED <<inbox, drain, read, lost, gone>>,
               \/ prompt' = Append(prompt, x) /\ queue' = queue
               \/ queue' = Append(queue, x) /\ prompt' = prompt
        PROVE  x = n
    <2>1. Range(Append(prompt, x)) = Range(prompt) \cup {x} /\ Range(Append(queue, x)) = Range(queue) \cup {x}
      BY <1>0, RangeOfAppend
    <2>2. Range(prompt') \cup Range(queue') = Range(prompt) \cup Range(queue) \cup {x}
      BY <1>2, <2>1
    <2>. QED  BY <1>2, <2>2 DEF Around
  <1>3. ASSUME NEW m \in Messages, Send(m)
        PROVE  SocketSend(n) \/ KeysType(n) \/ (InboxWrite(n) /\ call'[n].pc = "wake")
    <2>1. CASE WakeEnter(m) \/ KeysEnter(m)
      BY <1>1, <2>1 DEF WakeEnter, KeysEnter, Rest
    <2>2. CASE SocketSend(m) \/ WakeType(m) \/ KeysType(m)
      <3>1. (SocketSend(m) => SocketSend(n)) /\ (KeysType(m) => KeysType(n))
        <4>1. CASE gone' = gone
          BY <1>0, <1>2, <4>1 DEF SocketSend, KeysType, Types, Rest, Around
        <4>2. CASE gone' # gone
          BY <4>2 DEF SocketSend, KeysType, Rest, Around
        <4>. QED  BY <4>1, <4>2
      <3>2. ~WakeType(m)
        BY <1>0, <1>2 DEF WakeType, Types, Rest, Around
      <3>. QED  BY <2>2, <3>1, <3>2
    <2>3. CASE InboxWrite(m)
      <3>1. n \in inbox' /\ n \notin inbox
        BY <2>3 DEF InboxWrite, Agent, Around
      <3>2. m = n /\ Goto(m, "wake")
        BY <2>3, <3>1 DEF InboxWrite
      <3>. QED  BY <2>3, <3>2, GotoIs DEF CallPcs, Typed, TypeOK
    <2>4. CASE KeysBegin(m) \/ InboxStamp(m) \/ WakeLook(m) \/ WakeRecheck(m) \/ KeysVerify(m)
      BY <2>4 DEF KeysBegin, InboxStamp, WakeLook, WakeRecheck, KeysVerify, Rest, Agent, Around
    <2>. QED  BY <1>3, <2>1, <2>2, <2>3, <2>4 DEF Send
  <1>4. ~HumanTypes
    BY <1>0, <1>2 DEF HumanTypes, Types
  <1>5. ~HumanSubmits
    BY <1>1 DEF HumanSubmits
  <1>6. ~(DrainRead \/ DrainPrint \/ DrainCheck \/ DrainRecord \/ DrainKilled \/ DrainMark)
    BY <1>0, BatchIs
       DEF DrainRead, DrainMark, DrainPrint, DrainCheck, DrainRecord, DrainKilled, Outer, Around, Drain
  <1>7. ~(ReportPending \/ ReportRead \/ ReportWrite \/ ReportFails)
    BY DEF ReportPending, ReportRead, ReportWrite, ReportFails, Outer, Around
  <1>8. ~AgentPicksUp
    <2>1. AgentPicksUp => queue' = queue
      BY <1>0 DEF AgentPicksUp, Submitted
    <2>. QED  BY <2>1 DEF AgentPicksUp, Submitted, Senders, Around, NoDrain
  <1>9. ASSUME NEW text \in Seq(Tokens), Given(text), UNCHANGED Senders, drain' = NoDrain,
               Range(text) \subseteq Range(queue), Range(queue') \subseteq Range(queue)
        PROVE  FALSE
    <2>1. Range(read') = Range(read) \cup Range(text) \cup drain.printed
      BY <1>9, GivenIs
    <2>2. drain.printed \subseteq drain.batch
      BY <1>0 DEF DrainInv, Drain
    <2>. QED  BY <1>9, <2>1, <2>2 DEF Senders, Around, NoDrain
  <1>10. ~(TurnBegins \/ Stops)
    BY <1>0, <1>9, EmptySeq, RangeOfEmpty DEF TurnBegins, Stops
  <1>11. ~(Asks \/ Answered \/ TurnEnds \/ (\E a \in {"working", "blocked"} : Declares(a)) \/ UNCHANGED vars)
    BY DEF Asks, Answered, TurnEnds, Declares, Senders, vars, Around, NoDrain
  <1>12. ~Respawned
    BY RangeOfEmpty DEF Respawned, NoDrain, Around
  <1>. QED
    BY <1>3, <1>4, <1>5, <1>6, <1>7, <1>8, <1>10, <1>11, <1>12 DEF Next, Hook, AgentStep

LEMMA FreshInvKept ==
  ASSUME Typed, DrainInv, FreshInv, [Next]_vars
  PROVE  FreshInv'
  <1>. SUFFICES ASSUME NEW n \in Messages, call'[n].pc \in {"ready", "type", "write"}, Around(n)' PROVE FALSE
    BY DEF FreshInv
  <1>1. CASE Send(n)
    <2>1. call[n].pc = "ready"
      BY <1>1, CallMoves DEF InboxStamp
    <2>2. ~InboxWrite(n) /\ ~KeysType(n)
      BY <2>1 DEF InboxWrite, KeysType
    <2>3. ~SocketSend(n)
      BY GotoIs DEF SocketSend, CallPcs, Typed, TypeOK
    <2>. QED  BY <2>1, <2>2, <2>3, AroundComes DEF FreshInv
  <1>2. CASE ~Send(n)
    <2>1. call'[n] = call[n]
      <3>1. CASE \E m \in Messages : Send(m)
        BY <1>2, <3>1, CallMoves
      <3>2. CASE ~\E m \in Messages : Send(m)
        BY <3>2, OthersLeaveCall
      <3>. QED  BY <3>1, <3>2
    <2>. QED  BY <1>2, <2>1, AroundComes DEF FreshInv, Send
  <1>. QED  BY <1>1, <1>2

LEMMA LinesGrow ==
  ASSUME Typed, [Next]_vars, NEW n \in Messages, OnLines(n)', ~OnLines(n)
  PROVE  SocketSend(n) \/ KeysType(n)
  <1>0. /\ queue \in Seq(Tokens) /\ prompt \in Seq(Tokens) /\ n # Nudge /\ n # Human
        /\ Messages \subseteq Tokens /\ Nudge \in Tokens /\ Human \in Tokens
    BY Tokens3, TokenAssumption DEF Typed, TypeOK
  <1>1. ASSUME Enter, gone' = gone PROVE FALSE
    BY <1>1, EnterMoves DEF OnLines
  <1>2. ASSUME NEW x \in Tokens, gone' = gone,
               \/ prompt' = Append(prompt, x) /\ queue' = queue
               \/ queue' = Append(queue, x) /\ prompt' = prompt
        PROVE  x = n
    <2>1. Range(Append(prompt, x)) = Range(prompt) \cup {x} /\ Range(Append(queue, x)) = Range(queue) \cup {x}
      BY <1>0, RangeOfAppend
    <2>2. Range(prompt') \cup Range(queue') = Range(prompt) \cup Range(queue) \cup {x}
      BY <1>2, <2>1
    <2>. QED  BY <1>2, <2>2 DEF OnLines
  <1>3. ~(HumanSubmits \/ \E m \in Messages : WakeEnter(m) \/ KeysEnter(m))
    BY <1>1 DEF HumanSubmits, WakeEnter, KeysEnter, Rest
  <1>4. ~HumanTypes /\ ~\E m \in Messages : WakeType(m)
    BY <1>0, <1>2 DEF HumanTypes, WakeType, Types, Rest, OnLines
  <1>5. \A m \in Messages : SocketSend(m) \/ KeysType(m) => m = n
    BY <1>0, <1>2 DEF SocketSend, KeysType, Types, Rest, OnLines
  <1>6. ~(TurnBegins \/ AgentPicksUp \/ Stops \/ Respawned)
    <2>1. AgentPicksUp => queue' = queue
      BY <1>0 DEF AgentPicksUp, Submitted
    <2>. QED  BY <2>1, RangeOfEmpty DEF TurnBegins, AgentPicksUp, Stops, Respawned, Senders, OnLines
  <1>. QED
    BY <1>3, <1>4, <1>5, <1>6
       DEF Next, vars, Send, KeysBegin, InboxStamp, InboxWrite, WakeLook, WakeRecheck, KeysVerify, Rest,
           Agent, Hook, DrainRead, DrainMark, DrainPrint, DrainCheck, DrainRecord, DrainKilled,
           ReportPending, ReportRead, ReportWrite, ReportFails, Outer, AgentStep, Answered, TurnEnds,
           Asks, Declares, Senders, OnLines

LEMMA ApartInvKept ==
  ASSUME Typed, StampInv, FreshInv, ApartInv, [Next]_vars
  PROVE  ApartInv'
  <1>. SUFFICES ASSUME NEW n \in Messages, OnLines(n)', n \in Range(stamped') PROVE FALSE
    BY DEF ApartInv
  <1>1. n \in Range(stamped) \/ InboxStamp(n)
    <2>1. ASSUME NEW m \in Messages, InboxStamp(m) PROVE Range(stamped') = Range(stamped) \cup {m}
      BY <2>1, RangeOfAppend DEF InboxStamp, Typed, TypeOK
    <2>2. (\A m \in Messages : ~InboxStamp(m)) => stamped' = stamped
      BY CallMoves, OthersLeaveCall
    <2>. QED  BY <2>1, <2>2
  <1>2. CASE OnLines(n)
    BY <1>1, <1>2 DEF InboxStamp, FreshInv, ApartInv, OnLines, Around
  <1>3. CASE ~OnLines(n)
    <2>1. SocketSend(n) \/ KeysType(n)
      BY <1>3, LinesGrow
    <2>. QED  BY <1>1, <2>1 DEF SocketSend, KeysType, Rest, InboxStamp, StampInv
  <1>. QED  BY <1>2, <1>3

-----------------------------------------------------------------------------

Inv == StampInv /\ DrainInv /\ PlacedInv /\ IdleInv /\ FreshInv /\ ApartInv

LEMMA InvHolds == Spec => [](Typed /\ Inv)
  <1>1. Init => Inv
    <2>. SUFFICES ASSUME Init PROVE Inv
      OBVIOUS
    <2>1. \A m \in Messages : call[m].pc = "ready"
      BY DEF Init
    <2>2. stamped = <<>> /\ Range(stamped) = {}
      BY RangeOfEmpty DEF Init
    <2>3. FreshInv /\ ApartInv
      BY RangeOfEmpty DEF Init, FreshInv, ApartInv, OnLines, Around, NoDrain
    <2>. QED
      BY <2>1, <2>2, <2>3, SingleEmpty
         DEF Init, Inv, StampInv, DrainInv, PlacedInv, IdleInv, SendPcs, KeysPcs, NoDrain
  <1>2. Typed /\ Inv /\ [Next]_vars => Inv'
    BY StampInvKept, DrainInvKept, PlacedInvKept, IdleInvKept, FreshInvKept, ApartInvKept DEF Inv
  <1>. QED  BY <1>1, <1>2, TypedHolds, PTL DEF Spec

(* A message whose send has succeeded is pending, on its way or read, unless it  *)
(* was a file that went with its hook or keystrokes that went with the agent or   *)
(* nowhere: whatever transports the sends take, whichever hooks die and whatever  *)
(* cannot be marked, and whoever types in between.                            *)
THEOREM NothingIsDropped == Spec => []NothingVanishes
  <1>1. Inv => NothingVanishes
    BY DEF Inv, PlacedInv, Around, NothingVanishes, DrainInv, ApartInv, OnLines
  <1>. QED  BY <1>1, InvHolds, PTL

(* An idle agent with nothing pending and nothing lost is not shown working,   *)
(* in whichever order the two hooks of its Stop have run, unless its last report *)
(* failed; and what failed is made good by the next report that comes through.  *)
THEOREM IdleIsSeen == Spec => []IdleIsShown
  <1>1. Typed /\ Inv => IdleIsShown
    BY DEF Inv, IdleInv, MoreToCome, IdleIsShown, Typed, HooksInv, NoDrain
  <1>. QED  BY <1>1, InvHolds, PTL

-----------------------------------------------------------------------------
(* Once and in order.  What has been handed over is in one place, so it cannot    *)
(* be read twice.  Only a file that could not be marked is read again, and that   *)
(* failure is excluded here.                                                   *)

LinesInv ==
  /\ Single(prompt) /\ Single(queue) /\ Single(read)
  /\ \A m \in Messages :
       /\ m \in Range(prompt) => m \notin Range(queue) \cup Range(read) \cup Range(stamped)
       /\ m \in Range(queue) => m \notin Range(read) \cup Range(stamped)

HandedInv ==
  /\ \A m \in inbox \cup drain.batch : m \notin Range(read)
  /\ drain.pc \in {"print", "check", "write"} \/ drain.printed # {} => drain.batch \cap inbox = {}

LEMMA OrderedSingle ==
  ASSUME Typed, StampInv, NEW S \in SUBSET Messages, NEW s \in InOrder(S)
  PROVE  Single(s)
  <1>1. s \in Seq(Messages)
    BY OrderedIs
  <1>2. ASSUME NEW i \in DOMAIN s, NEW j \in DOMAIN s, i < j, s[i] = s[j], s[i] \in Messages PROVE FALSE
    <2>1. Before(s[i], s[i])
      BY <1>2 DEF InOrder
    <2>2. PICK a, b \in DOMAIN stamped : a < b /\ stamped[a] = s[i] /\ stamped[b] = s[i]
      BY <2>1 DEF Before
    <2>3. a = b
      BY <1>2, <2>2 DEF StampInv, Single
    <2>. QED  BY <2>2, <2>3 DEF Typed, TypeOK
  <1>3. DOMAIN s \subseteq Nat
    BY <1>1
  <1>4. \A i, j \in DOMAIN s : i < j \/ j < i \/ i = j
    BY <1>3
  <1>. QED  BY <1>2, <1>4 DEF Single

LEMMA LinesInvKept ==
  ASSUME Typed, StampInv, DrainInv, FreshInv, LinesInv, HandedInv, [Next]_vars
  PROVE  LinesInv'
  <1>0. /\ drain \in Drain /\ inbox \in SUBSET Messages /\ queue \in Seq(Tokens) /\ read \in Seq(Tokens)
        /\ prompt \in Seq(Tokens) /\ Messages \subseteq Tokens /\ Nudge \in Tokens /\ Human \in Tokens
        /\ Nudge \notin Messages /\ Human \notin Messages
    BY Tokens3, TokenAssumption DEF Typed, TypeOK
  <1>1. ASSUME UNCHANGED <<prompt, queue, read, stamped>> PROVE LinesInv'
    BY <1>1 DEF LinesInv, Single
  <1>2. ASSUME Enter, UNCHANGED <<read, stamped>> PROVE LinesInv'
    <2>1. CASE UNCHANGED <<prompt, queue>>
      BY <1>1, <1>2, <2>1
    <2>2. CASE prompt' = <<>> /\ queue' = queue \o prompt
      <3>1. Single(queue \o prompt)
        BY <1>0, SingleConcat DEF LinesInv
      <3>2. Single(prompt') /\ Single(queue') /\ Single(read')
        BY <1>2, <2>2, <3>1, SingleEmpty DEF LinesInv, Single
      <3>3. Range(prompt') = {} /\ Range(queue') = Range(queue) \cup Range(prompt)
        BY <1>0, <2>2, RangeConcatenation, RangeOfEmpty
      <3>. QED  BY <1>2, <3>2, <3>3 DEF LinesInv, Single
    <2>. QED  BY <1>2, <2>1, <2>2, EnterIs
  <1>3. ASSUME NEW x \in Tokens, UNCHANGED <<read, stamped>>,
               x \in Messages => ~Around(x) /\ x \notin Range(stamped),
               \/ prompt' = Append(prompt, x) /\ queue' = queue
               \/ queue' = Append(queue, x) /\ prompt' = prompt
        PROVE  LinesInv'
    <2>1. Range(Append(prompt, x)) = Range(prompt) \cup {x} /\ Range(Append(queue, x)) = Range(queue) \cup {x}
      BY <1>0, RangeOfAppend
    <2>2. x \in Messages => x \notin Range(prompt) /\ x \notin Range(queue) /\ x \notin Range(read)
      BY <1>3 DEF Around
    <2>3. Single(Append(prompt, x)) /\ Single(Append(queue, x))
      BY <1>0, <2>2, SingleAppend DEF LinesInv
    <2>4. Single(prompt') /\ Single(queue') /\ Single(read')
      BY <1>3, <2>3 DEF LinesInv
    <2>5. CASE prompt' = Append(prompt, x) /\ queue' = queue
      <3>1. Range(prompt') = Range(prompt) \cup {x}
        BY <2>1, <2>5
      <3>. QED  BY <1>3, <2>2, <2>4, <2>5, <3>1 DEF LinesInv, Single
    <2>6. CASE queue' = Append(queue, x) /\ prompt' = prompt
      <3>1. Range(queue') = Range(queue) \cup {x}
        BY <2>1, <2>6
      <3>. QED  BY <1>3, <2>2, <2>4, <2>6, <3>1 DEF LinesInv, Single
    <2>. QED  BY <1>3, <2>5, <2>6
  <1>4. ASSUME NEW text \in Seq(Tokens), Given(text), UNCHANGED <<prompt, stamped>>,
               \/ text = queue /\ queue' = <<>>
               \/ text = <<>> /\ queue' = queue
        PROVE  LinesInv'
    <2>1. PICK s \in InOrder(drain.printed) : read' = (read \o text) \o s
      BY <1>4 DEF Given
    <2>2. s \in Seq(Tokens) /\ Range(s) = drain.printed /\ drain.printed \in SUBSET Messages
      BY <1>0, <2>1, OrderedIs DEF Drain
    <2>3. Single(s)
      BY <2>1, <2>2, OrderedSingle
    <2>4. Range(text) \subseteq Range(queue) /\ Single(text)
      BY <1>4, RangeOfEmpty, SingleEmpty DEF LinesInv
    <2>5. Single(read \o text) /\ read \o text \in Seq(Tokens) /\ Range(read \o text) = Range(read) \cup Range(text)
      BY <1>0, <2>4, SingleConcat, RangeConcatenation DEF LinesInv
    <2>6. drain.printed \subseteq drain.batch /\ drain.batch \subseteq Range(stamped)
      BY <1>0 DEF DrainInv, Drain
    <2>7. Range(read \o text) \cap Range(s) \cap Messages = {}
      BY <2>2, <2>4, <2>5, <2>6 DEF LinesInv, HandedInv
    <2>8. Single(read')
      BY <2>1, <2>2, <2>3, <2>5, <2>7, SingleConcat
    <2>9. Range(read') = Range(read) \cup Range(text) \cup drain.printed
      BY <1>4, GivenIs
    <2>10. Single(prompt') /\ Single(queue')
      BY <1>4, SingleEmpty DEF LinesInv
    <2>11. CASE text = queue /\ queue' = <<>>
      <3>1. Range(queue') = {}
        BY <2>11, RangeOfEmpty
      <3>. QED  BY <1>4, <2>6, <2>8, <2>9, <2>10, <2>11, <3>1 DEF LinesInv, Single
    <2>12. CASE text = <<>> /\ queue' = queue
      <3>1. Range(read') = Range(read) \cup drain.printed
        BY <2>9, <2>12, RangeOfEmpty
      <3>. QED  BY <1>4, <2>6, <2>8, <2>10, <2>12, <3>1 DEF LinesInv, Single
    <2>. QED  BY <1>4, <2>11, <2>12
  <1>5. ASSUME NEW m \in Messages, Send(m) PROVE LinesInv'
    <2>1. CASE WakeEnter(m) \/ KeysEnter(m)
      BY <1>2, <2>1 DEF WakeEnter, KeysEnter, Rest
    <2>2. CASE SocketSend(m) \/ KeysType(m)
      <3>1. ~Around(m) /\ m \notin Range(stamped)
        BY <2>2 DEF SocketSend, KeysType, FreshInv, StampInv
      <3>. QED  BY <1>0, <1>1, <1>3, <2>2, <3>1 DEF SocketSend, KeysType, Types, Rest
    <2>3. CASE WakeType(m)
      BY <1>0, <1>1, <1>3, <2>3 DEF WakeType, Types, Rest
    <2>4. CASE InboxStamp(m)
      <3>1. ~Around(m)
        BY <2>4 DEF InboxStamp, FreshInv
      <3>2. Range(stamped') = Range(stamped) \cup {m} /\ UNCHANGED <<prompt, queue, read>>
        BY <2>4, RangeOfAppend DEF InboxStamp, Agent, Typed, TypeOK
      <3>. QED  BY <3>1, <3>2 DEF LinesInv, Around, Single
    <2>5. CASE KeysBegin(m) \/ InboxWrite(m) \/ WakeLook(m) \/ WakeRecheck(m) \/ KeysVerify(m)
      BY <1>1, <2>5 DEF KeysBegin, InboxWrite, WakeLook, WakeRecheck, KeysVerify, Rest, Agent
    <2>. QED  BY <1>5, <2>1, <2>2, <2>3, <2>4, <2>5 DEF Send
  <1>6. CASE HumanTypes
    BY <1>0, <1>3, <1>6 DEF HumanTypes, Types
  <1>7. CASE HumanSubmits
    BY <1>2, <1>7 DEF HumanSubmits
  <1>12. CASE Respawned
    BY <1>12, SingleEmpty, RangeOfEmpty DEF Respawned, LinesInv, Single
  <1>8. CASE Hook \/ DrainKilled \/ ReportFails
    BY <1>1, <1>8
       DEF Hook, DrainRead, DrainMark, DrainPrint, DrainCheck, DrainRecord, DrainKilled,
           ReportPending, ReportRead, ReportWrite, ReportFails, Outer
  <1>9. CASE TurnBegins \/ Stops
    BY <1>0, <1>4, <1>9, EmptySeq DEF TurnBegins, Stops, Senders
  <1>10. CASE AgentPicksUp
    <2>1. queue' = queue
      BY <1>0, <1>10 DEF AgentPicksUp, Submitted
    <2>. QED  BY <1>1, <1>10, <2>1 DEF AgentPicksUp, Senders
  <1>11. CASE Asks \/ Answered \/ TurnEnds \/ (\E a \in {"working", "blocked"} : Declares(a)) \/ UNCHANGED vars
    BY <1>1, <1>11 DEF Asks, Answered, TurnEnds, Declares, Senders, vars
  <1>. QED
    BY <1>5, <1>6, <1>7, <1>8, <1>9, <1>10, <1>11, <1>12 DEF Next, AgentStep

LEMMA HandedInvKept ==
  ASSUME "mark" \notin Faults, Typed, DrainInv, FreshInv, LinesInv, HandedInv, [Next]_vars
  PROVE  HandedInv'
  <1>0. /\ drain \in Drain /\ inbox \in SUBSET Messages /\ queue \in Seq(Tokens)
        /\ Batch(inbox) \subseteq inbox
    BY BatchIs DEF Typed, TypeOK
  <1>1. ASSUME UNCHANGED <<inbox, drain, read>> PROVE HandedInv'
    BY <1>1 DEF HandedInv
  <1>2. ASSUME Enter, UNCHANGED <<inbox, read>> PROVE HandedInv'
    BY <1>2, EnterIs DEF HandedInv, NoDrain
  <1>3. ASSUME NEW m \in Messages, Send(m) PROVE HandedInv'
    <2>1. CASE WakeEnter(m) \/ KeysEnter(m)
      BY <1>2, <2>1 DEF WakeEnter, KeysEnter, Rest
    <2>2. CASE InboxWrite(m)
      <3>1. ~Around(m)
        BY <2>2 DEF InboxWrite, FreshInv
      <3>. QED  BY <2>2, <3>1 DEF InboxWrite, Agent, HandedInv, Around
    <2>3. CASE ~(WakeEnter(m) \/ KeysEnter(m) \/ InboxWrite(m))
      BY <1>1, <1>3, <2>3
         DEF Send, SocketSend, KeysBegin, InboxStamp, WakeLook, WakeType, WakeRecheck,
             KeysType, Types, KeysVerify, Rest, Agent
    <2>. QED  BY <2>1, <2>2, <2>3
  <1>4. CASE DrainRead \/ DrainMark \/ DrainPrint \/ DrainCheck \/ DrainRecord \/ DrainKilled
    BY <1>0, <1>4
       DEF DrainRead, DrainMark, DrainPrint, DrainCheck, DrainRecord, DrainKilled, HandedInv,
           DrainInv, Drain
  <1>5. CASE TurnBegins \/ Stops
    <2>1. ASSUME NEW text \in Seq(Tokens), Given(text), inbox' = inbox, drain' = NoDrain,
                 Range(text) \subseteq Range(queue)
          PROVE  HandedInv'
      <3>1. Range(read') = Range(read) \cup Range(text) \cup drain.printed
        BY <2>1, GivenIs
      <3>2. \A m \in inbox : m \notin Range(text)
        BY <1>0, <2>1 DEF LinesInv, DrainInv
      <3>3. \A m \in inbox : m \notin drain.printed
        BY <1>0 DEF HandedInv, DrainInv, Drain
      <3>. QED  BY <2>1, <3>1, <3>2, <3>3 DEF HandedInv, NoDrain
    <2>. QED  BY <1>0, <1>5, <2>1, EmptySeq, RangeOfEmpty DEF TurnBegins, Stops, Senders
  <1>6. CASE AgentPicksUp \/ Asks \/ Answered \/ TurnEnds \/ Respawned
    BY <1>6 DEF AgentPicksUp, Asks, Answered, TurnEnds, Respawned, Submitted, Senders, HandedInv, NoDrain
  <1>7. CASE \/ HumanTypes \/ ReportPending \/ ReportRead \/ ReportWrite \/ ReportFails
             \/ (\E a \in {"working", "blocked"} : Declares(a)) \/ UNCHANGED vars
    BY <1>1, <1>7 DEF HumanTypes, Types, ReportPending, ReportRead, ReportWrite, ReportFails, Outer, Declares, vars
  <1>8. CASE HumanSubmits
    BY <1>2, <1>8 DEF HumanSubmits
  <1>. QED
    BY <1>3, <1>4, <1>5, <1>6, <1>7, <1>8 DEF Next, Hook, AgentStep

-----------------------------------------------------------------------------
(* What was sent before a message is pending no longer when that is read, and  *)
(* of two that are drained together both are printed, the earlier one first.    *)

OrderInv ==
  \A n \in Messages :
    /\ n \notin Range(stamped) => call[n].after = {}
    /\ \A m \in call[n].after :
         /\ Before(m, n)
         /\ m \in inbox \cup drain.batch \cup Range(read) \cup lost
         /\ m \in inbox => n \notin Range(read) /\ (n \in drain.batch => m \in drain.batch)

LEMMA BeforeStays ==
  ASSUME Typed, [Next]_vars, NEW m, NEW n, Before(m, n)
  PROVE  Before(m, n)'
  <1>1. CASE \E k \in Messages : InboxStamp(k)
    <2>1. PICK k \in Messages : stamped' = Append(stamped, k)
      BY <1>1 DEF InboxStamp
    <2>2. DOMAIN stamped \subseteq DOMAIN stamped' /\ \A i \in DOMAIN stamped : stamped'[i] = stamped[i]
      BY <2>1 DEF Typed, TypeOK
    <2>. QED  BY <2>2 DEF Before
  <1>2. CASE ~\E k \in Messages : InboxStamp(k)
    <2>1. \A k \in Messages : Send(k) => stamped' = stamped
      BY <1>2, CallMoves
    <2>2. stamped' = stamped
      BY <2>1, OthersLeaveCall
    <2>. QED  BY <2>2 DEF Before
  <1>. QED  BY <1>1, <1>2

(* What a call remembers as sent before it changes when it is stamped only.    *)
LEMMA AfterIs ==
  ASSUME Typed, [Next]_vars, NEW n \in Messages
  PROVE  \/ call'[n].after = call[n].after /\ (n \in Range(stamped) => n \in Range(stamped'))
         \/ /\ InboxStamp(n)
            /\ call'[n].after = {m \in Range(stamped) : call[m].pc \notin {"write", "failed"}}
  <1>1. CASE ~\E m \in Messages : Send(m)
    BY <1>1, OthersLeaveCall
  <1>2. ASSUME NEW m \in Messages, Send(m), m # n PROVE call'[n].after = call[n].after
    BY <1>2, CallMoves
  <1>3. ASSUME NEW m \in Messages, Send(m) PROVE Range(stamped) \subseteq Range(stamped')
    <2>1. CASE InboxStamp(m)
      BY <2>1, RangeOfAppend DEF InboxStamp, Typed, TypeOK
    <2>2. CASE ~InboxStamp(m)
      BY <1>3, <2>2, CallMoves
    <2>. QED  BY <2>1, <2>2
  <1>4. CASE Send(n) /\ ~InboxStamp(n)
    BY <1>4, CallMoves
  <1>5. CASE InboxStamp(n)
    BY <1>5 DEF InboxStamp, Typed, TypeOK, Call
  <1>. QED  BY <1>1, <1>2, <1>3, <1>4, <1>5

LEMMA InboxComes ==
  ASSUME [Next]_vars, NEW m, m \in inbox'
  PROVE  m \in inbox \/ (m \in Messages /\ call[m].pc = "write")
  BY DEF Next, vars, Send, SocketSend, KeysBegin, InboxStamp, InboxWrite, WakeLook, WakeType, WakeRecheck,
         WakeEnter, KeysType, Types, KeysEnter, KeysVerify, Rest, Agent, HumanTypes, HumanSubmits, Hook, DrainRead,
         DrainMark, DrainPrint, DrainCheck, DrainRecord, DrainKilled, ReportPending, ReportRead, ReportWrite, ReportFails,
         Outer, AgentStep, AgentPicksUp, TurnBegins, Answered, TurnEnds, Stops, Asks, Respawned, Declares, Senders

LEMMA LostStays == ASSUME [Next]_vars PROVE lost \subseteq lost'
  BY DEF Next, vars, Send, SocketSend, KeysBegin, InboxStamp, InboxWrite, WakeLook, WakeType, WakeRecheck,
         WakeEnter, KeysType, Types, KeysEnter, KeysVerify, Rest, Agent, HumanTypes, HumanSubmits, Hook, DrainRead,
         DrainMark, DrainPrint, DrainCheck, DrainRecord, DrainKilled, ReportPending, ReportRead, ReportWrite, ReportFails,
         Outer, AgentStep, AgentPicksUp, TurnBegins, Answered, TurnEnds, Stops, Asks, Respawned, Declares, Senders

LEMMA ReadGrows ==
  ASSUME Typed, [Next]_vars
  PROVE  \/ read' = read
         \/ \E text \in Seq(Tokens) : Given(text) /\ (text = queue \/ text = <<>>)
  <1>1. queue \in Seq(Tokens) /\ <<>> \in Seq(Tokens)
    BY EmptySeq DEF Typed, TypeOK
  <1>2. CASE TurnBegins \/ Stops
    BY <1>1, <1>2 DEF TurnBegins, Stops
  <1>3. CASE \E m \in Messages : Send(m)
    BY <1>3 DEF Send, SocketSend, KeysBegin, InboxStamp, InboxWrite, WakeLook, WakeType, WakeRecheck,
                WakeEnter, KeysType, KeysEnter, KeysVerify, Rest, Agent
  <1>4. CASE HumanTypes \/ HumanSubmits \/ Hook \/ DrainKilled \/ ReportFails \/ UNCHANGED vars
    BY <1>4 DEF HumanTypes, HumanSubmits, Hook, DrainRead, DrainMark, DrainPrint, DrainCheck, DrainRecord,
                DrainKilled, ReportPending, ReportRead, ReportWrite, ReportFails, Outer, vars
  <1>5. CASE \/ AgentPicksUp \/ Answered \/ TurnEnds \/ Asks \/ Respawned
             \/ \E a \in {"working", "blocked"} : Declares(a)
    BY <1>5 DEF AgentPicksUp, Answered, TurnEnds, Asks, Respawned, Declares, Senders
  <1>. QED
    BY <1>2, <1>3, <1>4, <1>5 DEF Next, AgentStep

LEMMA BatchComes ==
  ASSUME Typed, [Next]_vars
  PROVE  \/ drain'.batch \in {drain.batch, {}}
         \/ inbox # {} /\ inbox' = inbox /\ drain'.batch = Batch(inbox)
  <1>0. drain \in Drain
    BY DEF Typed, TypeOK
  <1>1. ASSUME Enter PROVE drain'.batch \in {drain.batch, {}}
    BY <1>1, EnterIs DEF NoDrain
  <1>2. CASE HumanSubmits \/ \E m \in Messages : WakeEnter(m) \/ KeysEnter(m)
    BY <1>1, <1>2 DEF HumanSubmits, WakeEnter, KeysEnter
  <1>3. CASE DrainRead
    BY <1>0, <1>3 DEF DrainRead, Drain
  <1>4. CASE DrainMark \/ DrainPrint \/ DrainCheck \/ DrainRecord \/ DrainKilled
    BY <1>0, <1>4 DEF DrainMark, DrainPrint, DrainCheck, DrainRecord, DrainKilled, Drain
  <1>5. CASE AgentPicksUp \/ TurnBegins \/ Stops \/ TurnEnds \/ Respawned
    BY <1>5 DEF AgentPicksUp, TurnBegins, Stops, TurnEnds, Respawned, Submitted, NoDrain
  <1>. QED
    BY <1>2, <1>3, <1>4, <1>5 DEF Next, vars, Send, SocketSend, KeysBegin, InboxStamp, InboxWrite,
         WakeLook, WakeType, WakeRecheck, KeysType, Types, KeysVerify, Rest, Agent, HumanTypes,
         Hook, ReportPending, ReportRead, ReportWrite, ReportFails, Outer, AgentStep, Answered, Asks, Declares, Senders

(* What is given to the agent was on the queue, where nothing stamped is, or    *)
(* is all of a batch that is no longer pending.                               *)
LEMMA GivenOnce ==
  ASSUME Typed, DrainInv, LinesInv, HandedInv, NEW text \in Seq(Tokens), Given(text),
         text = queue \/ text = <<>>,
         NEW n \in Messages, n \in Range(stamped), n \in Range(read'), n \notin Range(read)
  PROVE  n \in drain.batch /\ drain.printed = drain.batch /\ drain.batch \cap inbox = {}
  <1>1. Range(read') = Range(read) \cup Range(text) \cup drain.printed
    BY GivenIs
  <1>2. n \notin Range(text)
    BY RangeOfEmpty DEF LinesInv
  <1>3. n \in drain.printed
    BY <1>1, <1>2
  <1>. QED  BY <1>3 DEF DrainInv, HandedInv, Drain, Typed, TypeOK

LEMMA OrderInvKept ==
  ASSUME Typed, StampInv, DrainInv, PlacedInv, FreshInv, ApartInv, LinesInv, HandedInv, OrderInv,
         [Next]_vars, LinesInv', ApartInv'
  PROVE  OrderInv'
  <1>. SUFFICES ASSUME NEW n \in Messages
                PROVE  /\ n \notin Range(stamped') => call'[n].after = {}
                       /\ \A m \in call'[n].after :
                            /\ Before(m, n)'
                            /\ m \in inbox' \cup drain'.batch \cup Range(read') \cup lost'
                            /\ m \in inbox' => n \notin Range(read') /\ (n \in drain'.batch => m \in drain'.batch)
    BY DEF OrderInv
  <1>0. \A k \in Messages : call[k] \in Call
    BY DEF Typed, TypeOK
  <1>1. CASE /\ InboxStamp(n)
             /\ call'[n].after = {m \in Range(stamped) : call[m].pc \notin {"write", "failed"}}
    <2>1. stamped \in Seq(Messages) /\ stamped' = Append(stamped, n) /\ UNCHANGED <<inbox, drain, read, lost>>
      BY <1>1 DEF InboxStamp, Agent, Typed, TypeOK
    <2>2. Range(stamped) \subseteq Messages /\ n \in Range(stamped')
      BY <2>1, RangeOfAppend, RangeOfSeq
    <2>3. ~Around(n)
      BY <1>1 DEF InboxStamp, FreshInv
    <2>4. ASSUME NEW m \in Range(stamped) PROVE Before(m, n)'
      <3>1. PICK i \in DOMAIN stamped : stamped[i] = m
        BY DEF Range
      <3>2. /\ i \in DOMAIN stamped' /\ Len(stamped) + 1 \in DOMAIN stamped' /\ i < Len(stamped) + 1
            /\ stamped'[i] = m /\ stamped'[Len(stamped) + 1] = n
        BY <2>1, <3>1
      <3>. QED  BY <3>2 DEF Before
    <2>5. ASSUME NEW m \in Range(stamped), call[m].pc \notin {"write", "failed"}
          PROVE  m \in inbox \cup drain.batch \cup Range(read) \cup lost
      <3>1. m \in Messages /\ call[m].pc \in SendPcs \cup {"ok"}
        BY <1>0, <2>2, <2>5 DEF StampInv, SendPcs, KeysPcs, Call
      <3>2. Around(m) /\ m \notin Range(prompt) /\ m \notin Range(queue)
        BY <2>5, <3>1 DEF PlacedInv, LinesInv
      <3>3. m \notin gone
        BY <3>1 DEF ApartInv, OnLines
      <3>. QED  BY <3>2, <3>3 DEF Around
    <2>. QED  BY <1>1, <2>1, <2>2, <2>3, <2>4, <2>5 DEF Around
  <1>2. CASE call'[n].after = call[n].after /\ (n \in Range(stamped) => n \in Range(stamped'))
    <2>1. n \notin Range(stamped') => call'[n].after = {}
      BY <1>2 DEF OrderInv
    <2>. SUFFICES ASSUME NEW m \in call[n].after
                  PROVE  /\ Before(m, n)'
                         /\ m \in inbox' \cup drain'.batch \cup Range(read') \cup lost'
                         /\ m \in inbox' => n \notin Range(read') /\ (n \in drain'.batch => m \in drain'.batch)
      BY <1>2, <2>1
    <2>2. /\ Before(m, n) /\ n \in Range(stamped) /\ m \in Messages
          /\ m \in inbox \cup drain.batch \cup Range(read) \cup lost
          /\ m \in inbox => n \notin Range(read) /\ (n \in drain.batch => m \in drain.batch)
      BY <1>0 DEF OrderInv, Call
    <2>3. Before(m, n)'
      BY <2>2, BeforeStays
    <2>4. m \in Range(stamped') /\ Around(m)'
      BY <2>2, <2>3, AroundStays DEF Around, Before, Range
    <2>5. m \in inbox' \cup drain'.batch \cup Range(read') \cup lost'
      BY <2>2, <2>4 DEF Around, LinesInv, ApartInv, OnLines
    <2>6. ASSUME m \in inbox' PROVE n \notin Range(read') /\ (n \in drain'.batch => m \in drain'.batch)
      <3>1. m \in inbox
        BY <2>2, <2>6, InboxComes DEF FreshInv, Around
      <3>2. n \notin Range(read')
        BY <2>2, <3>1, ReadGrows, GivenOnce
      <3>3. inbox # {} /\ n \in Batch(inbox) => m \in Batch(inbox)
        BY <2>2, <3>1, BatchGoesOn DEF StampInv, DrainInv
      <3>. QED  BY <2>2, <3>1, <3>2, <3>3, BatchComes
    <2>. QED  BY <2>3, <2>5, <2>6
  <1>. QED  BY <1>1, <1>2, AfterIs

LEMMA SendOrderStays ==
  ASSUME Typed, StampInv, DrainInv, FreshInv, LinesInv, HandedInv, OrderInv, SendOrderKept, [Next]_vars
  PROVE  SendOrderKept'
  <1>. SUFFICES ASSUME NEW n \in Messages, n \in Range(read'), NEW m \in call'[n].after \ lost'
                PROVE  \E i, j \in DOMAIN read' : read'[i] = m /\ read'[j] = n /\ i <= j
    BY DEF SendOrderKept
  <1>0. read \in Seq(Tokens) /\ queue \in Seq(Tokens) /\ drain.printed \in SUBSET Messages
        /\ \A k \in Messages : call[k] \in Call
    BY DEF Typed, TypeOK, Drain
  <1>1. m \in call[n].after /\ m \in Messages /\ m \notin lost
    <2>1. ~InboxStamp(n)
      <3>1. InboxStamp(n) => ~Around(n) /\ read' = read
        BY DEF InboxStamp, FreshInv
      <3>. QED  BY <3>1 DEF Around
    <2>2. m \in call[n].after
      BY <2>1, AfterIs
    <2>. QED  BY <1>0, <2>2, LostStays DEF Call
  <1>2. n \in Range(stamped) /\ Before(m, n) /\ m \in inbox \cup drain.batch \cup Range(read)
        /\ (m \in inbox => n \notin Range(read) /\ (n \in drain.batch => m \in drain.batch))
    BY <1>1 DEF OrderInv
  <1>3. CASE read' = read
    BY <1>1, <1>3 DEF SendOrderKept
  <1>4. ASSUME NEW text \in Seq(Tokens), Given(text), text = queue \/ text = <<>>
        PROVE  \E i, j \in DOMAIN read' : read'[i] = m /\ read'[j] = n /\ i <= j
    <2>1. PICK s \in InOrder(drain.printed) : read' = (read \o text) \o s
      BY <1>4 DEF Given
    <2>2. s \in Seq(Tokens) /\ Range(s) = drain.printed
      BY <1>0, <2>1, OrderedIs
    <2>. DEFINE l == Len(read) + Len(text)
    <2>3. l \in Nat /\ Len(s) \in Nat /\ Len(read) \in Nat /\ Len(read) <= l
      BY <1>0, <2>2
    <2>4. \A i \in DOMAIN read : i \in DOMAIN read' /\ read'[i] = read[i] /\ i \in Nat /\ i <= l
      BY <1>0, <2>1, <2>2
    <2>5. \A i \in DOMAIN s : l + i \in DOMAIN read' /\ read'[l + i] = s[i] /\ i \in Nat \ {0}
      BY <1>0, <2>1, <2>2
    <2>. HIDE DEF l
    <2>6. CASE n \in Range(read)
      <3>1. PICK i, j \in DOMAIN read : read[i] = m /\ read[j] = n /\ i <= j
        BY <1>1, <2>6 DEF SendOrderKept
      <3>. QED  BY <2>4, <3>1
    <2>7. CASE n \notin Range(read)
      <3>1. n \in drain.batch /\ drain.printed = drain.batch /\ drain.batch \cap inbox = {}
        BY <1>2, <1>4, <2>7, GivenOnce
      <3>2. PICK j \in DOMAIN s : s[j] = n
        BY <2>2, <3>1 DEF Range
      <3>3. CASE m \in Range(read)
        <4>1. PICK i \in DOMAIN read : read[i] = m
          BY <3>3 DEF Range
        <4>2. i <= l + j
          BY <2>3, <2>4, <2>5, <3>2, <4>1
        <4>. QED  BY <2>4, <2>5, <3>2, <4>1, <4>2
      <3>4. CASE m \notin Range(read)
        <4>1. m \in drain.printed
          BY <1>2, <3>1, <3>4
        <4>2. PICK i \in DOMAIN s : s[i] = m
          BY <2>2, <4>1 DEF Range
        <4>3. ~(j < i)
          <5>1. j < i => Before(n, m)
            BY <3>2, <4>2 DEF InOrder
          <5>2. Before(n, m) => Before(m, m)
            BY <1>2, BeforeIsAnOrder DEF StampInv
          <5>3. ~Before(m, m)
            BY <1>1 DEF Before, StampInv, Single, Typed, TypeOK
          <5>. QED  BY <5>1, <5>2, <5>3
        <4>4. l + i <= l + j
          BY <2>3, <2>5, <3>2, <4>2, <4>3
        <4>. QED  BY <2>5, <3>2, <4>2, <4>4
      <3>. QED  BY <3>3, <3>4
    <2>. QED  BY <2>6, <2>7
  <1>. QED  BY <1>3, <1>4, ReadGrows

ReadInv == LinesInv /\ HandedInv /\ OrderInv /\ SendOrderKept

(* Where every file that is drained can be marked, the agent reads a message    *)
(* once, whichever transports its send takes and however often Enter is pressed;  *)
(* and never before what had been sent to its inbox earlier.                  *)
THEOREM ReadsAreInOrder == ASSUME "mark" \notin Faults PROVE Spec => []ReadInOrder
  <1>1. Init => ReadInv
    <2>. SUFFICES ASSUME Init PROVE ReadInv
      OBVIOUS
    <2>1. \A m \in Messages : call[m].after = {}
      BY DEF Init
    <2>. QED
      BY <2>1, SingleEmpty, RangeOfEmpty
         DEF Init, ReadInv, LinesInv, HandedInv, OrderInv, SendOrderKept, NoDrain
  <1>2. Typed /\ Inv /\ ReadInv /\ [Next]_vars => ReadInv'
    BY ApartInvKept, LinesInvKept, HandedInvKept, OrderInvKept, SendOrderStays DEF Inv, ReadInv
  <1>3. ReadInv => ReadInOrder
    BY DEF ReadInv, LinesInv, Single, ReadInOrder, ReadOnce
  <1>. QED  BY <1>1, <1>2, <1>3, InvHolds, PTL DEF Spec

-----------------------------------------------------------------------------
(* A report that found the agent blocked has nothing to write, and nobody       *)
(* declares Blocked while a report is under way.                             *)

BlockedInv == report.pc = "write" => report.event \in {"prompt", "continues"} \/ activity # "blocked"

LEMMA BlockedInvKept == ASSUME Typed, BlockedInv, [Next]_vars PROVE BlockedInv'
  <1>0. report \in Report /\ activity \in Activity
    BY DEF Typed, TypeOK
  <1>1. ASSUME Enter, UNCHANGED activity PROVE BlockedInv'
    BY <1>1, EnterIs DEF BlockedInv, NoReport
  <1>2. CASE HumanSubmits \/ \E m \in Messages : WakeEnter(m) \/ KeysEnter(m)
    BY <1>1, <1>2 DEF HumanSubmits, WakeEnter, KeysEnter, Rest
  <1>3. CASE ReportPending \/ ReportWrite \/ ReportFails
    BY <1>0, <1>3 DEF ReportPending, ReportWrite, ReportFails, Report, BlockedInv
  <1>4. CASE ReportRead
    <2>1. report.event # "none" /\ report' =
            [report EXCEPT !.pc = IF Applied(report.event, activity) = activity THEN "done" ELSE "write",
                           !.new = Applied(report.event, activity)] /\ activity' = activity
      BY <1>4 DEF ReportRead, Typed, HooksInv
    <2>2. report.event \in {"stop", "awaiting"} /\ activity = "blocked"
            => Applied(report.event, activity) = activity
      BY DEF Applied
    <2>. QED  BY <1>0, <2>1, <2>2 DEF BlockedInv, Report, Event
  <1>5. CASE \E a \in {"working", "blocked"} : Declares(a)
    BY <1>5 DEF Declares, Typed, HooksInv, NoReport, BlockedInv
  <1>6. CASE DrainRecord
    BY <1>6 DEF DrainRecord, BlockedInv, Outer
  <1>7. CASE DrainRead \/ DrainMark \/ DrainPrint \/ DrainCheck \/ DrainKilled
    BY <1>7 DEF DrainRead, DrainMark, DrainPrint, DrainCheck, DrainKilled, BlockedInv, Outer
  <1>8. CASE AgentPicksUp \/ TurnBegins \/ Answered \/ TurnEnds \/ Stops \/ Asks \/ Respawned
    <2>1. AgentPicksUp \/ Asks => report'.pc = "read"
      BY DEF AgentPicksUp, Asks, Submitted, NoReport
    <2>2. TurnBegins \/ Answered \/ Stops \/ Respawned => report'.pc = "off"
      BY DEF TurnBegins, Answered, Stops, Respawned, NoReport
    <2>3. TurnEnds => report'.pc = "pending"
      BY DEF TurnEnds, NoReport
    <2>. QED  BY <1>8, <2>1, <2>2, <2>3 DEF BlockedInv
  <1>9. CASE HumanTypes \/ UNCHANGED vars
    BY <1>9 DEF HumanTypes, Types, vars, BlockedInv
  <1>10. ASSUME NEW m \in Messages, Send(m), ~(WakeEnter(m) \/ KeysEnter(m)) PROVE BlockedInv'
    BY <1>10 DEF Send, SocketSend, KeysBegin, InboxStamp, InboxWrite, WakeLook, WakeType, WakeRecheck,
                 KeysType, Types, KeysVerify, Rest, Agent, BlockedInv
  <1>. QED
    BY <1>2, <1>3, <1>4, <1>5, <1>6, <1>7, <1>8, <1>9, <1>10 DEF Next, Hook, AgentStep

(* Once declared, Blocked is cleared by the agent's own word, by the report of  *)
(* a turn that begins or continues, by the drain that makes it continue, or by a  *)
(* respawn; by no report of a Stop or of a question, even if that had read       *)
(* another state.                                                              *)
THEOREM BlockedIsKept == Spec => BlockedStays
  <1>1. Init => BlockedInv
    BY DEF Init, BlockedInv, NoReport
  <1>2. Typed /\ BlockedInv /\ [Next]_vars => BlockedInv'
    BY BlockedInvKept
  <1>3. Typed /\ BlockedInv /\ [Next]_vars =>
          [activity = "blocked" /\ activity' # "blocked" =>
             \/ turn = "busy"
             \/ report.event \in {"prompt", "continues"}
             \/ drain.pc = "write"
             \/ activity' = "unknown"]_vars
    BY DEF Next, vars, Send, SocketSend, KeysBegin, InboxStamp, InboxWrite, WakeLook, WakeType, WakeRecheck,
         WakeEnter, KeysType, Types, KeysEnter, KeysVerify, Rest, Agent, HumanTypes, HumanSubmits, Hook, DrainRead,
         DrainMark, DrainPrint, DrainCheck, DrainRecord, DrainKilled, ReportPending, ReportRead, ReportWrite, ReportFails,
         Outer, AgentStep, AgentPicksUp, TurnBegins, Answered, TurnEnds, Stops, Asks, Respawned, Declares, Senders,
         BlockedInv
  <1>. QED  BY <1>1, <1>2, <1>3, TypedHolds, PTL DEF Spec, BlockedStays

=============================================================================

------------------------------- MODULE Mailbox -------------------------------
(* Messages to the agent of one session, and what the agent reports of itself.  *)
(*                                                                             *)
(* `ninox send` and the poller hand a message over by the session's socket, by   *)
(* a file in its inbox, or as keystrokes.  The agent's hooks drain the inbox at  *)
(* the end of a turn and at a prompt; other hooks, run by the agent at the same  *)
(* time, keep the activity column of its row.                                   *)
(*                                                                             *)
(* A message is its own text.  The input line of the agent is the sequence of    *)
(* what was typed at it since it was last empty; a step of a sender is one call  *)
(* of tmux or ptyd.  The agent runs the hooks of an event at the same time and   *)
(* goes on when all of them have ended.  A pane may show no input line (the TUI  *)
(* boots, a dialog is open): what is typed then goes nowhere, and looking there   *)
(* finds nothing.                                                              *)
EXTENDS Naturals, Sequences, Functions, FiniteSetsExt

CONSTANTS
  Messages,
  Mechanisms,  \* settings a send may find: "socket", "inbox", "keystrokes"
  Size,        \* the length of each message
  MaxPayload,  \* MAX_HOOK_PAYLOAD_CHARS, in the unit of Size
  Attempts,    \* SEND_VERIFY_ATTEMPTS
  MaxTurns,    \* bound: turns of the agent
  Nudge,       \* IDLE_WAKE_NUDGE
  Human,       \* what a person types
  Faults,      \* what may fail: "write", "mark", "kill", "swallow", "screen", "store", "die"
  People       \* whether a person types, and how often they start

ASSUME SizeAssumption ==
  Size \in [Messages -> Nat \ {0}] /\ MaxPayload \in Nat \ {0} /\ Attempts \in Nat
ASSUME BoundsAssumption == MaxTurns \in Nat /\ People \in Nat
ASSUME MechanismAssumption == Mechanisms \subseteq {"socket", "inbox", "keystrokes"}
ASSUME TokenAssumption == Nudge \notin Messages \cup {Human} /\ Human \notin Messages

VARIABLES
  call,      \* deliver_message of each message
  stamped,   \* messages in the order of `sent_at`
  inbox,     \* files not yet marked delivered
  prompt,    \* the agent's input line
  queue,     \* what the agent has accepted for its next turn
  turn,      \* what the agent is doing
  drain,     \* `ninox inbox drain-stop` or `drain-prompt`
  report,    \* `ninox worker-status hook-...`
  activity,  \* the activity column
  read,      \* what the agent has been given, in order
  lost,      \* messages whose hook was killed between mark and print
  gone,      \* messages typed where no input line was, or accepted by an agent that died
  missed,    \* whether what the agent came to was last not written (a report failed)
  typed,     \* times a person has begun to type
  turns      \* turns begun

vars == <<call, stamped, inbox, prompt, queue, turn, drain, report, activity, read,
          lost, gone, missed, typed, turns>>

Tokens == Messages \cup {Nudge, Human}
\* `after`: messages whose files were in place when this one was stamped.
Call == [pc : {"ready", "write", "wake", "nudge", "recheck", "wakeEnter", "type", "enter",
               "verify", "retry", "ok", "failed"},
         tries : 0..Attempts, after : SUBSET Messages]
Turn == {"idle", "busy", "stopping", "submitting", "asking"}
Drain == [pc : {"off", "read", "mark", "print", "check", "write", "done"},
          batch : SUBSET Messages, printed : SUBSET Messages]
Activity == {"unknown", "working", "idle", "blocked", "awaiting"}
Event == {"none", "prompt", "continues", "stop", "awaiting"}
Report == [pc : {"off", "pending", "read", "write", "done"}, event : Event, new : Activity]

NoDrain == [pc |-> "off", batch |-> {}, printed |-> {}]
NoReport == [pc |-> "off", event |-> "none", new |-> "unknown"]

Init ==
  /\ call = [m \in Messages |-> [pc |-> "ready", tries |-> 0, after |-> {}]]
  /\ stamped = <<>> /\ inbox = {}
  /\ prompt = <<>> /\ queue = <<>> /\ turn = "idle"
  /\ drain = NoDrain /\ report = NoReport
  /\ activity = "unknown"
  /\ read = <<>> /\ lost = {} /\ gone = {} /\ missed = FALSE /\ typed = 0 /\ turns = 0

Goto(m, pc) == call' = [call EXCEPT ![m].pc = pc]

-----------------------------------------------------------------------------
(* The inbox.  Pending files are read in the order of their stamps.             *)

Before(m, n) == \E i, j \in DOMAIN stamped : i < j /\ stamped[i] = m /\ stamped[j] = n
UpTo(m, pending) == {n \in pending : n = m \/ Before(n, m)}

\* Mutant of Batch: a message too long for the payload is passed over.
BatchSkips(pending) ==
  LET fits == {m \in pending : Size[m] <= MaxPayload} IN IF fits = {} THEN pending ELSE fits
(* `drain_batch`: the longest prefix that fits, or the first message, cut.      *)
Batch(pending) ==
  LET load(m) == MapThenSumSet(LAMBDA n : Size[n], UpTo(m, pending))
      fits == {m \in pending : \A n \in UpTo(m, pending) : load(n) <= MaxPayload}
      first == {m \in pending : UpTo(m, pending) = {m}}
  IN  IF fits = {} THEN first ELSE fits

\* The order in which messages are printed: the one such sequence.
InOrder(S) == {s \in UNION {[1..n -> S] : n \in 0..Len(stamped)} :
                 /\ Range(s) = S
                 /\ \A i, j \in DOMAIN s : i < j => Before(s[i], s[j])}

-----------------------------------------------------------------------------
(* The agent's input line.  What is entered while a turn runs waits for the      *)
(* next.  An Enter too soon after a paste is swallowed, and everything is by a    *)
(* pane without an input line; a question always hides it.                      *)

Covered == turn = "asking" \/ "screen" \in Faults
Types(text) == turn # "asking" /\ prompt' = Append(prompt, text)

Submitted(text) ==
  IF turn = "idle"
  THEN /\ turn' = "submitting" /\ turns' = turns + 1 /\ queue' = queue \o text
       /\ drain' = [NoDrain EXCEPT !.pc = "read"]
       /\ report' = [NoReport EXCEPT !.pc = "read", !.event = "prompt"]
  ELSE /\ queue' = queue \o text
       /\ UNCHANGED <<turn, turns, drain, report>>

Enter ==
  /\ turn = "idle" => turns < MaxTurns
  /\ \/ /\ prompt # <<>> /\ turn # "asking"
        /\ prompt' = <<>> /\ Submitted(prompt)
     \/ /\ prompt = <<>> \/ "swallow" \in Faults \/ Covered
        /\ UNCHANGED <<prompt, queue, turn, turns, drain, report>>

\* The person at the keyboard.
HumanTypes ==
  /\ typed < People /\ Human \notin Range(prompt)
  /\ Types(Human) /\ typed' = typed + 1
  /\ UNCHANGED <<call, stamped, inbox, queue, turn, drain, report, activity, read, lost, gone,
                 missed, turns>>
HumanSubmits ==
  /\ Human \in Range(prompt)
  /\ Enter
  /\ UNCHANGED <<call, stamped, inbox, activity, read, lost, gone, missed, typed>>

-----------------------------------------------------------------------------
(* deliver_message.                                                            *)

Rest == <<stamped, inbox, activity, read, lost, gone, missed, typed>>
Agent == <<prompt, queue, turn, drain, report, turns>>

\* Mutant of SocketSend: an error after the frame was written falls back as well.
SocketSendAgain(m) ==
  /\ call[m].pc = "ready" /\ "socket" \in Mechanisms
  /\ queue' = Append(queue, m) /\ call' = [call EXCEPT ![m].pc = "type"]
  /\ UNCHANGED <<Rest, prompt, turn, drain, report, turns>>
\* The frame is written to the agent's socket.
SocketSend(m) ==
  /\ call[m].pc = "ready" /\ "socket" \in Mechanisms
  /\ queue' = Append(queue, m) /\ Goto(m, "ok")
  /\ UNCHANGED <<Rest, prompt, turn, drain, report, turns>>

(* The keyboard is the setting, or there is no socket, it does not answer, or    *)
(* the frame is too large for it; or the agent cannot drain an inbox.            *)
KeysBegin(m) ==
  /\ call[m].pc = "ready"
  /\ Goto(m, "type")
  /\ UNCHANGED <<Rest, Agent>>

\* The file gets its id and time; it is in place with the rename.
InboxStamp(m) ==
  /\ call[m].pc = "ready" /\ "inbox" \in Mechanisms
  /\ stamped' = Append(stamped, m)
  /\ call' = [call EXCEPT ![m].pc = "write",
                ![m].after = {n \in Range(stamped) : call[n].pc \notin {"write", "failed"}}]
  /\ UNCHANGED <<inbox, activity, read, lost, gone, missed, typed, Agent>>
InboxWrite(m) ==
  /\ call[m].pc = "write"
  /\ \/ inbox' = inbox \cup {m} /\ Goto(m, "wake")
     \/ "write" \in Faults /\ Goto(m, "failed") /\ UNCHANGED inbox
  /\ UNCHANGED <<stamped, activity, read, lost, gone, missed, typed, Agent>>

(* `wake_idle_session`.  A line that holds the nudge alone is taken for one      *)
(* left over; where no line is to be seen nothing is typed or entered.           *)
\* Mutant of WakeLook: the line is cleared before the nudge.
WakeLookClears(m) ==
  /\ call[m].pc = "wake" /\ turn # "asking"
  /\ prompt' = <<>> /\ Goto(m, "nudge")
  /\ UNCHANGED <<Rest, queue, turn, drain, report, turns>>
WakeLook(m) ==
  /\ call[m].pc = "wake"
  /\ \/ turn # "asking" /\ prompt = <<>> /\ Goto(m, "nudge")
     \/ turn # "asking" /\ prompt = <<Nudge>> /\ Goto(m, "wakeEnter")
     \/ (prompt \notin {<<>>, <<Nudge>>} \/ Covered) /\ Goto(m, "ok")
  /\ UNCHANGED <<Rest, Agent>>
WakeType(m) ==
  /\ call[m].pc = "nudge"
  /\ Types(Nudge) \/ (Covered /\ UNCHANGED prompt)
  /\ Goto(m, "recheck")
  /\ UNCHANGED <<Rest, queue, turn, drain, report, turns>>
WakeRecheck(m) ==
  /\ call[m].pc = "recheck"
  /\ \/ turn # "asking" /\ prompt = <<Nudge>> /\ Goto(m, "wakeEnter")
     \/ (prompt # <<Nudge>> \/ Covered) /\ Goto(m, "ok")
  /\ UNCHANGED <<Rest, Agent>>
WakeEnter(m) ==
  /\ call[m].pc = "wakeEnter"
  /\ Enter /\ Goto(m, "ok")
  /\ UNCHANGED Rest

(* `send_keys`: type, Enter, and Enter again while the message is seen at the    *)
(* prompt.  A pane without an input line swallows it, and nothing seen counts     *)
(* as submitted.                                                               *)
KeysType(m) ==
  /\ call[m].pc = "type"
  /\ \/ Types(m) /\ UNCHANGED gone
     \/ Covered /\ gone' = gone \cup {m} /\ UNCHANGED prompt
  /\ Goto(m, "enter")
  /\ UNCHANGED <<stamped, inbox, activity, read, lost, missed, typed, queue, turn, drain, report, turns>>
\* Mutant of KeysEnter: a retry types the message again.
KeysEnterRetypes(m) ==
  \/ call[m].pc = "enter" /\ Enter /\ Goto(m, "verify") /\ UNCHANGED Rest
  \/ /\ call[m].pc = "retry" /\ Types(m) /\ Goto(m, "enter")
     /\ UNCHANGED <<Rest, queue, turn, drain, report, turns>>
KeysEnter(m) ==
  /\ call[m].pc \in {"enter", "retry"}
  /\ Enter /\ Goto(m, "verify")
  /\ UNCHANGED Rest
Stuck(m) == turn # "asking" /\ prompt # <<>> /\ Head(prompt) = m
\* Mutant of KeysVerify: the attempts are counted one too late.
KeysVerifyOneMore(m) ==
  /\ call[m].pc = "verify"
  /\ call' = [call EXCEPT ![m].pc = IF Stuck(m) THEN "retry" ELSE "ok",
                          ![m].tries = IF Stuck(m) THEN @ + 1 ELSE @]
  /\ UNCHANGED <<Rest, Agent>>
KeysVerify(m) ==
  /\ call[m].pc = "verify"
  /\ \/ (~Stuck(m) \/ Covered) /\ Goto(m, "ok")
     \/ /\ Stuck(m) /\ call[m].tries < Attempts
        /\ call' = [call EXCEPT ![m].pc = "retry", ![m].tries = @ + 1]
     \/ Stuck(m) /\ call[m].tries = Attempts /\ Goto(m, "failed")
  /\ UNCHANGED <<Rest, Agent>>

Send(m) ==
  \/ SocketSend(m) \/ KeysBegin(m) \/ InboxStamp(m) \/ InboxWrite(m)
  \/ WakeLook(m) \/ WakeType(m) \/ WakeRecheck(m) \/ WakeEnter(m)
  \/ KeysType(m) \/ KeysEnter(m) \/ KeysVerify(m)

-----------------------------------------------------------------------------
(* The hooks.                                                                  *)

Outer == <<call, stamped, prompt, queue, turn, gone, typed, turns>>

DrainRead ==
  /\ drain.pc = "read"
  /\ drain' = IF inbox = {} THEN [drain EXCEPT !.pc = "done"]
              ELSE [drain EXCEPT !.pc = "mark", !.batch = Batch(inbox)]
  /\ UNCHANGED <<Outer, inbox, report, activity, read, lost, missed>>

\* Mutant of DrainMark: what was not in the batch is marked too.
DrainMarkAll ==
  /\ drain.pc = "mark"
  /\ inbox' = {}
  /\ drain' = [drain EXCEPT !.pc = "print"]
  /\ UNCHANGED <<Outer, report, activity, read, lost, missed>>
\* The batch is marked delivered; a rename that fails is only warned about.
DrainMark ==
  /\ drain.pc = "mark"
  /\ \/ inbox' = inbox \ drain.batch
     \/ "mark" \in Faults /\ \E S \in SUBSET drain.batch : inbox' = inbox \ S
  /\ drain' = [drain EXCEPT !.pc = "print"]
  /\ UNCHANGED <<Outer, report, activity, read, lost, missed>>

\* What is printed at a Stop makes the turn continue, and that is then recorded.
DrainPrint ==
  /\ drain.pc = "print"
  /\ drain' = [drain EXCEPT !.pc = IF turn = "stopping" THEN "check" ELSE "done",
                            !.printed = drain.batch]
  /\ UNCHANGED <<Outer, inbox, report, activity, read, lost, missed>>
DrainCheck ==
  /\ drain.pc = "check"
  /\ drain' = [drain EXCEPT !.pc = IF activity = "working" THEN "done" ELSE "write"]
  /\ UNCHANGED <<Outer, inbox, report, activity, read, lost, missed>>
DrainRecord ==
  /\ drain.pc = "write"
  /\ activity' = "working" /\ drain' = [drain EXCEPT !.pc = "done"]
  /\ UNCHANGED <<Outer, inbox, report, read, lost, missed>>

DrainKilled ==
  /\ "kill" \in Faults /\ drain.pc \notin {"off", "done"}
  /\ drain' = [drain EXCEPT !.pc = "done"]
  /\ lost' = lost \cup IF drain.pc = "print" THEN drain.batch \ inbox ELSE {}
  /\ UNCHANGED <<Outer, inbox, report, activity, read, missed>>

(* `apply_activity`: the state an event leads to, from the one that was read.    *)
Applied(event, a) ==
  CASE event \in {"prompt", "continues"} -> "working"
    [] event = "stop" -> IF a = "blocked" THEN a ELSE "idle"
    [] event = "awaiting" -> IF a = "blocked" THEN a ELSE "awaiting"

\* Mutant of ReportPending: delivered files count as pending.
ReportPendingAll ==
  /\ report.pc = "pending"
  /\ report' = [report EXCEPT !.pc = "read",
                  !.event = IF stamped = <<>> THEN "stop" ELSE "continues"]
  /\ UNCHANGED <<Outer, inbox, drain, activity, read, lost, missed>>
\* Whether the turn will continue is asked of the inbox.
ReportPending ==
  /\ report.pc = "pending"
  /\ report' = [report EXCEPT !.pc = "read",
                  !.event = IF inbox = {} THEN "stop" ELSE "continues"]
  /\ UNCHANGED <<Outer, inbox, drain, activity, read, lost, missed>>
ReportRead ==
  /\ report.pc = "read"
  /\ LET new == Applied(report.event, activity) IN
       /\ report' = [report EXCEPT !.pc = IF new = activity THEN "done" ELSE "write", !.new = new]
       /\ missed' = (missed /\ new # activity)
  /\ UNCHANGED <<Outer, inbox, drain, activity, read, lost>>
ReportWrite ==
  /\ report.pc = "write"
  /\ activity' = report.new /\ report' = [report EXCEPT !.pc = "done"]
  /\ missed' = FALSE
  /\ UNCHANGED <<Outer, inbox, drain, read, lost>>

(* The store cannot be opened, read or written, the payload is of no known shape, *)
(* or the agent kills the hook: nothing is written, and nobody writes it later.    *)
ReportFails ==
  /\ Faults \cap {"store", "kill"} # {} /\ report.pc \notin {"off", "done"}
  /\ report' = [report EXCEPT !.pc = "done"] /\ missed' = TRUE
  /\ UNCHANGED <<Outer, inbox, drain, activity, read, lost>>

Hook ==
  \/ DrainRead \/ DrainMark \/ DrainPrint \/ DrainCheck \/ DrainRecord
  \/ ReportPending \/ ReportRead \/ ReportWrite

-----------------------------------------------------------------------------
(* The agent.                                                                  *)

HooksDone == drain.pc \in {"off", "done"} /\ report.pc \in {"off", "done"}
Senders == <<call, stamped, inbox, prompt, activity, lost, gone, missed, typed>>
\* What the agent is given: what was queued, and what the hook has printed.
Given(text) == \E s \in InOrder(drain.printed) : read' = read \o text \o s

\* A frame or an entered line that waits starts a turn of an idle agent.
AgentPicksUp ==
  /\ turn = "idle" /\ queue # <<>> /\ turns < MaxTurns
  /\ Submitted(<<>>)
  /\ UNCHANGED <<Senders, read>>

TurnBegins ==
  /\ turn = "submitting" /\ HooksDone
  /\ turn' = "busy"
  /\ Given(queue)
  /\ queue' = <<>> /\ drain' = NoDrain /\ report' = NoReport
  /\ UNCHANGED <<Senders, turns>>

\* A tool call that asks for permission or input; the agent waits for the hook.
Asks ==
  /\ turn = "busy"
  /\ turn' = "asking" /\ report' = [NoReport EXCEPT !.pc = "read", !.event = "awaiting"]
  /\ UNCHANGED <<Senders, read, queue, drain, turns>>
Answered ==
  /\ turn = "asking" /\ HooksDone
  /\ turn' = "busy" /\ report' = NoReport
  /\ UNCHANGED <<Senders, read, queue, drain, turns>>

\* `ninox worker-status`, called by the agent.
Declares(a) ==
  /\ turn = "busy" /\ a # activity
  /\ activity' = a
  /\ UNCHANGED <<call, stamped, inbox, prompt, lost, gone, missed, typed, read, queue, turn, drain,
                 report, turns>>

TurnEnds ==
  /\ turn = "busy"
  /\ turn' = "stopping"
  /\ drain' = [NoDrain EXCEPT !.pc = "read"]
  /\ report' = [NoReport EXCEPT !.pc = "pending"]
  /\ UNCHANGED <<Senders, read, queue, turns>>
Stops ==
  /\ turn = "stopping" /\ HooksDone
  /\ turn' = IF drain.printed = {} THEN "idle" ELSE "busy"
  /\ Given(<<>>)
  /\ drain' = NoDrain /\ report' = NoReport
  /\ UNCHANGED <<Senders, queue, turns>>

(* The agent dies, its hooks with it, and the session is respawned: a new agent,   *)
(* whose activity is unknown unless the row cannot be written.                   *)
Respawned ==
  /\ "die" \in Faults
  /\ prompt' = <<>> /\ queue' = <<>> /\ turn' = "idle"
  /\ drain' = NoDrain /\ report' = NoReport
  /\ gone' = gone \cup (Messages \cap (Range(prompt) \cup Range(queue)))
  /\ lost' = lost \cup (drain.batch \ inbox)
  /\ \/ activity' = "unknown" /\ missed' = FALSE
     \/ "store" \in Faults /\ missed' = TRUE /\ UNCHANGED activity
  /\ UNCHANGED <<call, stamped, inbox, read, typed, turns>>

AgentStep == AgentPicksUp \/ TurnBegins \/ Answered \/ TurnEnds \/ Stops

Next ==
  \/ \E m \in Messages : Send(m)
  \/ HumanTypes \/ HumanSubmits
  \/ Hook \/ DrainKilled \/ ReportFails
  \/ AgentStep \/ Asks \/ Respawned
  \/ \E a \in {"working", "blocked"} : Declares(a)

Spec == Init /\ [][Next]_vars

(* The agent and its hooks are scheduled, and so is a send.                     *)
FairSpec ==
  /\ Spec
  /\ WF_vars(Hook) /\ WF_vars(AgentPicksUp) /\ WF_vars(TurnBegins)
  /\ WF_vars(Answered) /\ SF_vars(TurnEnds) /\ WF_vars(Stops)
  /\ \A m \in Messages : WF_vars(Send(m))

-----------------------------------------------------------------------------
(* Properties.                                                                 *)

\* The variables have their types.
TypeOK ==
  /\ call \in [Messages -> Call]
  /\ stamped \in Seq(Messages) /\ inbox \in SUBSET Messages
  /\ prompt \in Seq(Tokens) /\ queue \in Seq(Tokens)
  /\ turn \in Turn /\ drain \in Drain /\ report \in Report /\ activity \in Activity
  /\ read \in Seq(Tokens) /\ lost \in SUBSET Messages
  /\ gone \in SUBSET Messages /\ missed \in BOOLEAN
  /\ typed \in 0..People /\ turns \in 0..MaxTurns

\* A message whose send succeeded is on its way, has been read, or met one of two
\* ends: a file went with a hook killed between mark and print; keystrokes or a
\* frame went to a pane without input line or an agent that died.  What does not
\* fit in one payload stays pending (deliver_message, drain_batch, drain_for_stop).
NothingVanishes ==
  \A m \in Messages : call[m].pc = "ok" =>
    \/ m \in inbox \cup drain.batch \cup Range(prompt) \cup Range(queue) \cup Range(read)
    \/ m \in lost /\ m \in Range(stamped)
    \/ m \in gone /\ m \notin Range(stamped)

\* Delivery is at-most-once, whichever transport a send falls back to and however
\* often Enter is pressed again; unless a file cannot be marked.
ReadOnce ==
  \A i, j \in DOMAIN read : read[i] = read[j] /\ read[i] \in Messages => i = j

\* A message sent through the inbox after another had been is not read before it.
SendOrderKept ==
  \A n \in Messages : n \in Range(read) =>
    \A m \in call[n].after \ lost :
      \E i, j \in DOMAIN read : read[i] = m /\ read[j] = n /\ i <= j

\* What an agent reads it reads once, and in the order of the sends.
ReadInOrder == ReadOnce /\ SendOrderKept

\* An idle agent with nothing pending is not shown working, unless the last report
\* of its activity failed: one that comes through later makes up for it.
IdleIsShown ==
  (turn = "idle" /\ inbox = {} /\ lost = {} /\ ~missed) => activity # "working"

\* The activity hooks of a Stop and the drain may end in either order: an agent
\* that was given messages at its Stop is not shown idle.
WorkIsShown ==
  turn = "busy" => activity # "idle"

\* A declared Blocked is cleared by no hook but that of a new turn, or a respawn.
BlockedStays ==
  [][activity = "blocked" /\ activity' # "blocked" =>
       \/ turn = "busy"
       \/ report.event \in {"prompt", "continues"}
       \/ drain.pc = "write"
       \/ activity' = "unknown"]_vars

\* Where nobody types, what wakers leave at the prompt is what the next of them
\* takes for a left-over nudge and submits.
NudgeNeverWedges ==
  (prompt # <<>> /\ Range(prompt) = {Nudge}
    /\ \A m \in Messages : call[m].pc \notin {"recheck", "wakeEnter", "enter", "retry"})
    => prompt = <<Nudge>>

\* A send that reports that the message was never seen is right.
ErrorMeansUnread == \A m \in Messages : call[m].pc = "failed" => m \notin Range(read)

\* A nudge never submits what a person is typing.
NudgeSparesHuman ==
  [][(Human \in Range(prompt) /\ Human \notin Range(prompt')) =>
       ~\E m \in Messages : WakeEnter(m)]_vars

\* A message that waits in the inbox while a turn runs is given to the agent.
DrainedAtStop ==
  \A m \in Messages : (m \in inbox /\ turn = "busy") ~> (m \in Range(read))
=============================================================================

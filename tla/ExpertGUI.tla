------------------------------ MODULE ExpertGUI -------------------------------
(***************************************************************************)
(* The window of the expert (ExpertGUI/mainwindow.cpp): every command of   *)
(* the server behind a button, what the server answers shown in labels,    *)
(* its questions asked in a dialog, and the watchdog (CheckExistence) to   *)
(* kill and to start the server.                                           *)
(*                                                                         *)
(* A slot is an action; one that runs exec() ends in an action of its own. *)
(* readTcpData runs exec() too: what arrives meanwhile is not signalled,   *)
(* and waits in the socket for the next thing that arrives.                *)
(***************************************************************************)
EXTENDS SequencesExt, FiniteSetsExt, ServerStream, CheckExistence

CONSTANTS
  Reported,     \* the drivers of this instance
  Names,        \* the parameters: "MaxVel", "AnalogOutput0" or another
  Checks,       \* the association checks: among "drv", "par" and "encode"
  Findings,     \* what the position check may find: 0, -1, -2 or a status_state
  MaxClicks,    \* bound: slots the user calls
  MaxStream,    \* bound: answers under way to the window
  Typed         \* the lines the user types himself

Window == "window"

ASSUME WindowAssumption == Window \in Clients
ASSUME ReportAssumption == Reported \subseteq 1 .. 14 /\ Findings \subseteq Int
ASSUME NameAssumption   == IsFiniteSet(Names)
ASSUME CheckAssumption  == Checks \subseteq {"drv", "par", "encode"}
ASSUME BoundAssumption  == MaxClicks \in Nat /\ MaxStream \in Nat \ {0}

VARIABLES
  label_status, label_statusAll,     \* which of the three connections are "OK"
  label_Accepted,                    \* ..., label_Accepted_Par, ..._Encode
  InternalStatus,                    \* InternalSerialNumberStatus, ...
  LabelPositionStatus, LabelStatusDriver,
  LineEdit,        \* the fields of each driver that are not empty
  checkBox,        \* the drivers checked
  modal,           \* the dialogs whose exec() is running, the last in front
  socket,          \* the connection with the server: closed, open or broken
  existence,       \* the connection with the watchdog
  stream,          \* what the server has sent and the window has not read
  unsignalled,     \* how much of it came while readTcpData was waiting
  written,         \* the lines on their way to the server
  clicks,
  answers,         \* what the server has still to send to the window
  question,        \* the check that waits for an answer
  verified, linked, loaded,    \* its GeneralStatus, its programmer, its encoder values
  finding          \* what its position check finds

labels == <<label_status, label_statusAll, label_Accepted, InternalStatus,
            LabelPositionStatus, LabelStatusDriver, LineEdit>>
window == <<labels, checkBox, modal, clicks>>
wires  == <<socket, existence, stream, unsignalled>>
server == <<answers, question, verified, linked, loaded, finding>>
vars   == <<window, wires, written, server, watchdog>>

\* A line, and whether its sender is still there to hear the answer.
Line(name, drivers) == [name |-> name, drivers |-> drivers, heard |-> TRUE]
Dialog(kind, of) == [kind |-> kind, of |-> of]

\* An answer that has no label.
Other == [kind |-> "other"]

\* MainWindow::MainWindow, and the texts of mainwindow.ui.
Init ==
  /\ WatchdogInit
  /\ label_status = [i \in 1 .. 3 |-> FALSE] /\ label_statusAll = FALSE
  /\ label_Accepted = [k \in Checks |-> FALSE]
  /\ InternalStatus = [k \in Checks |-> FALSE]
  /\ LabelPositionStatus = [d \in Reported |-> "Disconnected"]
  /\ LabelStatusDriver = [d \in Reported |-> FALSE]
  /\ LineEdit = [d \in Reported |-> {}] /\ checkBox = {}
  /\ modal = <<>> /\ clicks = 0
  /\ socket = "closed" /\ existence = "closed" /\ stream = <<>> /\ unsignalled = 0
  /\ written = <<>> /\ answers = <<>> /\ question = "none"
  /\ verified = [k \in Checks |-> FALSE] /\ linked = FALSE /\ loaded = FALSE
  /\ finding \in [Reported -> Findings]

------------------------------------------------------------------------------
(* The labels. *)

\* CheckGeneralStatus.
General(status) == \A i \in 1 .. 3 : status[i]

Labelled(i, okay) ==
  label_status' = [label_status EXCEPT ![i] = okay]

PositionText(status) ==
  CASE status = 0  -> "Okay"
    [] status = -1 -> "Position mismatch"
    [] status = -2 -> "Disconnected"
    [] OTHER       -> "Invalid state"

\* The loop of readTcpData over the lines of a text: what each changes, and
\* whether the slot goes on to CheckGeneralStatus.
ShowConnect(text) ==
  /\ IF text.okay THEN Labelled(3, TRUE) ELSE UNCHANGED label_status
  /\ UNCHANGED <<InternalStatus, LabelPositionStatus, LabelStatusDriver, LineEdit>>

ShowWelcome ==
  /\ Labelled(2, TRUE)
  /\ UNCHANGED <<InternalStatus, LabelPositionStatus, LabelStatusDriver, LineEdit>>

ShowPosition_OkayOnly(text) ==
  /\ LabelPositionStatus' = IF text.status # 0 THEN LabelPositionStatus
                            ELSE [LabelPositionStatus EXCEPT ![text.drv] = PositionText(0)]
  /\ UNCHANGED <<label_status, InternalStatus, LabelStatusDriver, LineEdit>>
ShowPosition(text) ==
  /\ LabelPositionStatus' = [LabelPositionStatus EXCEPT ![text.drv] = PositionText(text.status)]
  /\ UNCHANGED <<label_status, InternalStatus, LabelStatusDriver, LineEdit>>

ShowInternal(text) ==
  /\ InternalStatus' = [InternalStatus EXCEPT ![text.check] = text.okay]
  /\ UNCHANGED <<label_status, LabelPositionStatus, LabelStatusDriver, LineEdit>>

\* The field the user sets the parameter with is overwritten, too.
ShowParameter(text) ==
  /\ LabelStatusDriver' = [LabelStatusDriver EXCEPT ![text.drv] = text.okay]
  /\ LineEdit' = [LineEdit EXCEPT ![text.drv] = @ \cup {text.name}]
  /\ UNCHANGED <<label_status, InternalStatus, LabelPositionStatus>>

ShowMovement(text) ==
  /\ LabelStatusDriver' = [LabelStatusDriver EXCEPT ![text.drv] = text.okay]
  /\ UNCHANGED <<label_status, InternalStatus, LabelPositionStatus, LineEdit>>

ShowNothing ==
  UNCHANGED <<label_status, InternalStatus, LabelPositionStatus, LabelStatusDriver, LineEdit>>

Show(text) ==
  CASE text.kind = "connect"  -> ShowConnect(text)
    [] text.kind = "welcome"  -> ShowWelcome
    [] text.kind = "position" -> ShowPosition(text)
    [] text.kind = "internal" -> ShowInternal(text)
    [] text.kind = "getpar"   -> ShowParameter(text)
    [] text.kind = "getmov"   -> ShowMovement(text)
    [] OTHER                  -> ShowNothing

\* After "M" comes another chain of "if", whose "else" ends the slot.
GoesOn(text) == text.kind # "getpar" \/ text.name # "MaxVel"

CheckGeneralStatus(goesOn) ==
  label_statusAll' = IF goesOn THEN General(label_status') ELSE label_statusAll

\* A dialog comes in front of one that is open, and has to be closed before it.
Opens(dialog) == modal' = Append(modal, dialog)
Closes == modal' = Front(modal)
InFront(kinds) == modal # <<>> /\ Last(modal).kind \in kinds

Asking == InFront({"question", "warning"})

\* readTcpData on the first k parts.  A question, and the warning of a check
\* without encoder values, is asked before the labels are looked at.
readTcpData(k) ==
  LET text == TextOf(SubSeq(stream, 1, k))
      kind == IF text = Unread THEN "none" ELSE text.kind
  IN  /\ ~Asking /\ k \in unsignalled + 1 .. Len(stream)
      /\ stream' = Rest(stream, k) /\ unsignalled' = 0
      /\ IF kind \in {"question", "warning"}
           THEN /\ Opens(Dialog(kind, IF kind = "question" THEN {text.check} ELSE {}))
                /\ UNCHANGED labels
           ELSE /\ IF kind = "none" THEN ShowNothing ELSE Show(text)
                /\ CheckGeneralStatus(kind = "none" \/ GoesOn(text))
                /\ UNCHANGED <<label_Accepted, modal>>
      /\ UNCHANGED <<checkBox, clicks, socket, existence, written, server, watchdog>>

Read == \E k \in 1 .. Len(stream) : readTcpData(k)

\* What arrives while a dialog of readTcpData is open is not signalled.
Arrives ==
  /\ Asking /\ unsignalled < Len(stream)
  /\ unsignalled' = Len(stream)
  /\ UNCHANGED <<window, socket, existence, stream, written, server, watchdog>>

\* The rest of readTcpData, when the question has been answered.  A window
\* that has lost the server answers into the void.
Answered(accepted) ==
  /\ InFront({"question"}) /\ Closes
  /\ label_Accepted' =
       [k \in Checks |-> IF k \in Last(modal).of THEN accepted ELSE label_Accepted[k]]
  /\ written' = IF socket = "open" THEN Append(written, Line(IF accepted THEN "y" ELSE "n", {}))
                ELSE written
  /\ ShowNothing /\ CheckGeneralStatus(TRUE)
  /\ UNCHANGED <<checkBox, clicks, wires, server, watchdog>>

Warned ==
  /\ InFront({"warning"}) /\ Closes
  /\ ShowNothing /\ CheckGeneralStatus(TRUE)
  /\ UNCHANGED <<label_Accepted, checkBox, clicks, wires, written, server, watchdog>>

------------------------------------------------------------------------------
(* The connections. *)

\* The window has no connection any more, whoever ended it: what is unread is
\* lost, and nobody hears the answers to the lines under way.
Disconnected_StreamKept ==
  /\ socket' = "closed" /\ unsignalled' = 0 /\ answers' = <<>> /\ UNCHANGED stream
  /\ written' = [i \in DOMAIN written |-> [written[i] EXCEPT !.heard = FALSE]]
Disconnected_NotClosed ==
  /\ stream' = <<>> /\ unsignalled' = 0 /\ answers' = <<>> /\ UNCHANGED socket
  /\ written' = [i \in DOMAIN written |-> [written[i] EXCEPT !.heard = FALSE]]
Disconnected ==
  /\ socket' = "closed" /\ stream' = <<>> /\ unsignalled' = 0 /\ answers' = <<>>
  /\ written' = [i \in DOMAIN written |-> [written[i] EXCEPT !.heard = FALSE]]

Unlabelled(i) == Labelled(i, FALSE) /\ CheckGeneralStatus(TRUE)

OtherLabels == <<label_Accepted, InternalStatus, LabelPositionStatus, LabelStatusDriver, LineEdit>>
OfServer == <<question, verified, linked, loaded, finding>>

\* The end of the connection is noticed when all that arrived before it has
\* been read, or is kept from being read.
Errore ==
  /\ socket = "broken" /\ unsignalled = Len(stream)
  /\ Unlabelled(2) /\ Disconnected
  /\ UNCHANGED <<OtherLabels, checkBox, modal, clicks, existence, OfServer, watchdog>>

Errore_existence ==
  /\ existence = "open" /\ existence' = "closed"
  /\ Unlabelled(1)
  /\ UNCHANGED <<OtherLabels, checkBox, modal, clicks, socket, stream, unsignalled, written,
                 server, watchdog>>

Free == modal = <<>>

Click == Free /\ clicks < MaxClicks /\ clicks' = clicks + 1

on_ConnectToServerButton ==
  /\ Click
  /\ IF socket # "closed" THEN UNCHANGED <<labels, wires, watchdog>>
     ELSE IF port \in Pids
       THEN /\ Accepts(Window) /\ socket' = "open"
            /\ stream' = SendBlock(<<>>, [kind |-> "welcome"])
            /\ UNCHANGED <<labels, existence, unsignalled>>
       ELSE /\ Unlabelled(2)
            /\ UNCHANGED <<OtherLabels, wires, watchdog>>
  /\ UNCHANGED <<checkBox, modal, written, server>>

on_DisconnectToServerButton ==
  /\ Click
  /\ Unlabelled(2) /\ Disconnected /\ Leaves(Window)
  /\ UNCHANGED <<OtherLabels, checkBox, modal, existence, OfServer>>

\* The label does not wait for CheckGeneralStatus.
on_ConnectExistence ==
  /\ Click
  /\ \/ /\ existence' = "open" /\ Labelled(1, TRUE) /\ UNCHANGED label_statusAll
     \/ /\ existence = "closed" /\ Unlabelled(1) /\ UNCHANGED existence
  /\ UNCHANGED <<OtherLabels, checkBox, modal, socket, stream, unsignalled, written, server,
                 watchdog>>

on_DisconnectExistence ==
  /\ Click
  /\ existence' = "closed" /\ Unlabelled(1)
  /\ UNCHANGED <<OtherLabels, checkBox, modal, socket, stream, unsignalled, written, server,
                 watchdog>>

\* on_CheckExistence, on_NewProcess_CollSoft.
ToWatchdog(line) ==
  /\ Click
  /\ IF existence = "open" THEN Requests(line) ELSE UNCHANGED watchdog
  /\ UNCHANGED <<labels, checkBox, modal, wires, written, server>>

\* The window leaves the server before it has it killed.
on_KillProcess_CollSoft ==
  /\ Click
  /\ Unlabelled(2) /\ Disconnected
  /\ IF existence = "open"
       THEN RequestsAndLeaves("kill_process", Window) ELSE Leaves(Window)
  /\ UNCHANGED <<OtherLabels, checkBox, modal, existence, OfServer>>

------------------------------------------------------------------------------
(* The buttons that write a line. *)

Write(line) ==
  /\ Click
  /\ written' = IF socket = "open" THEN Append(written, line) ELSE written
  /\ UNCHANGED <<labels, checkBox, modal, wires, server, watchdog>>

on_CommandStringButton == \E name \in Typed : Write(Line(name, {}))
on_ConnectProgrammer == Write(Line("connect", {}))
on_CheckAssoc(check) == Write(Line(check, {}))
on_CheckInternalStatus == Write(Line("check_internal_status", {}))

\* What the server answers to these is printed, and changes no label.
Printed == Line("printed", {})
on_ReadLog == Write(Printed)
on_ReadActualEncoderValue == Write(Printed)
on_DeviceListButton == Write(Printed)

\* So is the answer to this one, but the server has its encoder values then.
on_LoadEncoderFromFileButton == Write(Line("load_encoder_from_file", {}))

on_GetAllParameter == Write(Line("get_all_parameter", Reported))
on_GetParameterDriver(d) == Write(Line("get_par", {d}))
on_GetParameterMov(d) == Write(Line("get_mov_par", {d}))
on_CheckPositionButton(d) == Write(Line("check_position", {d}))
on_Homing(d) == Write(Line("homing", {d}))
on_MoveTo(d) == Write(Line("move_to", {d}))
on_Homing_all == Write(Line("homing_mult", checkBox))

\* A warning that has nothing to do with readTcpData: it is left out.
on_SetParameterDriver(d) == LineEdit[d] = Names /\ Write(Line("set_par", {d}))

\* The user types into all the fields of a driver.
Types(d) ==
  /\ Click /\ LineEdit' = [LineEdit EXCEPT ![d] = Names]
  /\ UNCHANGED <<label_status, label_statusAll, label_Accepted, InternalStatus,
                 LabelPositionStatus, LabelStatusDriver, checkBox, modal, wires, written,
                 server, watchdog>>

on_checkBox_all ==
  /\ Click /\ checkBox' \in {{}, Reported}
  /\ UNCHANGED <<labels, modal, wires, written, server, watchdog>>

\* on_MoveTo_all, on_SetParameterDriver_all: what is to be done is shown...
Confirms(name) ==
  /\ Click /\ Opens(Dialog(name, checkBox))
  /\ UNCHANGED <<labels, checkBox, wires, written, server, watchdog>>

on_MoveTo_all == Confirms("moveto_mult")
on_SetParameterDriver_all == Confirms("setmult_par")

\* ... and if the user agrees the boxes are looked at again.
Confirmed(agreed) ==
  /\ InFront({"moveto_mult", "setmult_par"}) /\ Closes
  /\ written' = IF agreed /\ socket = "open"
                  THEN Append(written, Line(Last(modal).kind, checkBox)) ELSE written
  /\ UNCHANGED <<labels, checkBox, clicks, wires, server, watchdog>>

------------------------------------------------------------------------------
(* The server, as far as the window sees it: external. *)

Up == port \in Pids

\* The command thread writes the next answer when it has slept SLEEPTCP.
Room == Len(stream) - (IF Asking THEN 0 ELSE unsignalled) + 2 <= 2 * MaxStream

InternalOf(check, okay) == [kind |-> "internal", check |-> check, okay |-> okay]

\* Without a programmer the position check finds nothing.
Position(d) ==
  [kind |-> "position", drv |-> d, status |-> IF linked THEN finding[d] ELSE -2]

Settings(drivers, okay) ==
  { [kind |-> "getpar", drv |-> d, name |-> n, okay |-> okay] : d \in drivers, n \in Names }
Motions(drivers, okay) ==
  { [kind |-> "getmov", drv |-> d, okay |-> okay] : d \in drivers }
Positions(drivers) == { Position(d) : d \in drivers }

\* The answers a line may have.  A check without encoder values warns first.
Replies(line) ==
  CASE line.name \in {"get_par", "set_par", "setmult_par"} ->
         { SetToSeq(Settings(line.drivers, okay)) : okay \in BOOLEAN }
    [] line.name \in {"get_mov_par", "homing", "homing_mult", "move_to", "moveto_mult"} ->
         { SetToSeq(Motions(line.drivers, okay)) : okay \in BOOLEAN }
    [] line.name = "get_all_parameter" ->
         { SetToSeq(Motions(line.drivers, okay)) \o SetToSeq(Settings(line.drivers, okay))
             \o SetToSeq(Positions(line.drivers)) : okay \in BOOLEAN }
    [] line.name = "check_position" ->
         { IF linked /\ ~loaded THEN <<[kind |-> "warning"], Position(d)>> ELSE <<Position(d)>> :
             d \in line.drivers }
    [] line.name = "check_internal_status" ->
         { SetToSeq({ InternalOf(k, verified[k]) : k \in Checks }) }
    [] line.name = "connect" ->
         { <<[kind |-> "connect", okay |-> okay]>> : okay \in BOOLEAN }
    [] OTHER -> {<<Other>>}

Heard(line, texts) == IF line.heard THEN texts ELSE <<>>

ServerTakes ==
  /\ Up /\ question = "none" /\ answers = <<>> /\ written # <<>>
  /\ written' = Tail(written)
  /\ LET line == Head(written)
     IN  IF line.name \in Checks
           THEN /\ question' = line.name /\ UNCHANGED <<linked, loaded>>
                /\ answers' = Heard(line, <<[kind |-> "question", check |-> line.name]>>)
           ELSE \E texts \in Replies(line) :
                  /\ answers' = Heard(line, texts)
                  /\ linked' = IF line.name = "connect" THEN Head(texts).okay ELSE linked
                  /\ loaded' \in IF line.name = "load_encoder_from_file" THEN BOOLEAN
                                 ELSE {loaded}
                  /\ UNCHANGED question
  /\ UNCHANGED <<window, wires, verified, finding, watchdog>>

\* The open question ends with a yes or a no, of whatever client, or by itself.
QuestionEnds(accepted) ==
  /\ verified' = [verified EXCEPT ![question] = accepted]
  /\ question' = "none"
  /\ answers' = IF socket = "open" THEN <<InternalOf(question, accepted)>> ELSE <<>>
  /\ UNCHANGED <<window, wires, linked, loaded, finding, watchdog>>

ServerHears ==
  /\ Up /\ question # "none" /\ answers = <<>> /\ written # <<>>
  /\ written' = Tail(written)
  /\ IF Head(written).name \in {"y", "n"} THEN QuestionEnds(Head(written).name = "y")
     ELSE UNCHANGED <<window, wires, server, watchdog>>

ServerGivesUp ==
  /\ Up /\ question # "none" /\ answers = <<>>
  /\ QuestionEnds(FALSE) /\ UNCHANGED written

AnotherAnswers ==
  /\ Up /\ question # "none" /\ answers = <<>>
  /\ \E accepted \in BOOLEAN : QuestionEnds(accepted)
  /\ UNCHANGED written

ServerSends ==
  /\ answers # <<>> /\ socket = "open" /\ Room
  /\ stream' = SendBlock(stream, Head(answers)) /\ answers' = Tail(answers)
  /\ UNCHANGED <<window, socket, existence, unsignalled, written, OfServer, watchdog>>

\* The periodic check tells all clients, when there is a programmer and a table
\* of encoder values to check with.
Reports(d) ==
  /\ Up /\ linked /\ loaded
  /\ socket = "open" /\ question = "none" /\ answers = <<>> /\ Room
  /\ stream' = SendBlock(stream, [kind |-> "position", drv |-> d, status |-> finding[d]])
  /\ UNCHANGED <<window, socket, existence, unsignalled, written, server, watchdog>>

\* Another client connects the programmer or loads the table, or fails to.
AnotherClient ==
  /\ Up /\ question = "none" /\ answers = <<>>
  /\ linked' \in BOOLEAN /\ loaded' \in BOOLEAN
  /\ UNCHANGED <<window, wires, written, answers, question, verified, finding, watchdog>>

\* Everything but the files is gone with the process.
ServerDies(p) ==
  /\ Dies(p)
  /\ IF port = p
       THEN /\ socket' = IF socket = "open" THEN "broken" ELSE socket
            /\ written' = <<>> /\ answers' = <<>> /\ question' = "none"
            /\ verified' = [k \in Checks |-> FALSE] /\ linked' = FALSE /\ loaded' = FALSE
       ELSE UNCHANGED <<socket, written, answers, question, verified, linked, loaded>>
  /\ UNCHANGED <<window, existence, stream, unsignalled, finding>>

\* What the window has no part in.
Others ==
  /\ \/ \E w \in Loops : Loop(w)
     \/ \E p \in Pids : execl(p) \/ Starts(p) \/ Binds(p)
     \/ LingeringEnds
     \/ \E c \in Clients \ {Window} :
          \/ Accepts(c) \/ (c \in connected /\ Leaves(c))
          \/ \E line \in {"kill_process", "new_process"} : Requests(line)
  /\ UNCHANGED <<window, wires, written, server>>

Next ==
  \/ Read \/ Arrives \/ Errore \/ Errore_existence
  \/ (\E accepted \in BOOLEAN : Answered(accepted)) \/ Warned
  \/ on_ConnectToServerButton \/ on_DisconnectToServerButton
  \/ on_ConnectExistence \/ on_DisconnectExistence
  \/ ToWatchdog("check_process") \/ ToWatchdog("new_process") \/ on_KillProcess_CollSoft
  \/ on_CommandStringButton \/ on_ConnectProgrammer
  \/ \E k \in Checks : on_CheckAssoc(k)
  \/ on_ReadLog \/ on_CheckInternalStatus
  \/ on_LoadEncoderFromFileButton \/ on_ReadActualEncoderValue
  \/ on_DeviceListButton \/ on_GetAllParameter
  \/ \E d \in Reported :
       \/ on_GetParameterDriver(d) \/ on_GetParameterMov(d) \/ on_CheckPositionButton(d)
       \/ on_Homing(d) \/ on_MoveTo(d) \/ on_SetParameterDriver(d) \/ Types(d)
       \/ Reports(d)
  \/ on_checkBox_all \/ on_Homing_all \/ on_MoveTo_all \/ on_SetParameterDriver_all
  \/ \E agreed \in BOOLEAN : Confirmed(agreed)
  \/ ServerTakes \/ ServerHears \/ ServerGivesUp \/ AnotherAnswers \/ ServerSends
  \/ AnotherClient
  \/ \E p \in Pids : ServerDies(p)
  \/ Others

Spec == Init /\ [][Next]_vars

\* The event loop goes on, and again and again reads all that was sent.  The
\* server goes on with its lines, gives a question up in the end, and while it
\* has its programmer and its table reports each driver again and again, also
\* while nothing else is under way (SLEEPTCP).
EventLoop ==
  WF_vars(readTcpData(Len(stream))) /\ WF_vars(Arrives) /\ WF_vars(Errore)
Server ==
  /\ WF_vars(ServerTakes) /\ WF_vars(ServerHears) /\ WF_vars(ServerSends)
  /\ SF_vars(ServerGivesUp)
  /\ \A d \in Reported : SF_vars(Reports(d)) /\ SF_vars(stream = <<>> /\ Reports(d))
\* The loop of the watchdog goes on, and what is killed dies.
WatchdogLoop ==
  /\ \A w \in Loops : WF_vars(Loop(w) /\ UNCHANGED <<window, wires, written, server>>)
  /\ \A p \in Pids : WF_vars(process[p] = "killed" /\ ServerDies(p))
FairSpec == Spec /\ EventLoop /\ Server
FairWatchdog == Spec /\ WatchdogLoop

------------------------------------------------------------------------------
(* Properties. *)

\* The variables hold what they are meant to hold (mainwindow.h).
TypeOK ==
  /\ WatchdogTypeOK
  /\ label_status \in [1 .. 3 -> BOOLEAN] /\ label_statusAll \in BOOLEAN
  /\ label_Accepted \in [Checks -> BOOLEAN] /\ InternalStatus \in [Checks -> BOOLEAN]
  /\ LabelPositionStatus \in
       [Reported -> {"Okay", "Position mismatch", "Disconnected", "Invalid state"}]
  /\ LabelStatusDriver \in [Reported -> BOOLEAN] /\ LineEdit \in [Reported -> SUBSET Names]
  /\ checkBox \subseteq Reported
  /\ Len(modal) <= 2
  /\ \A i \in DOMAIN modal :
       modal[i].kind \in {"question", "warning", "moveto_mult", "setmult_par"}
  /\ socket \in {"closed", "open", "broken"} /\ existence \in {"closed", "open"}
  /\ Len(stream) <= 4 * MaxStream /\ unsignalled \in 0 .. Len(stream)
  /\ Len(written) <= MaxClicks /\ clicks \in 0 .. MaxClicks
  /\ question \in Checks \cup {"none"} /\ verified \in [Checks -> BOOLEAN]
  /\ linked \in BOOLEAN /\ loaded \in BOOLEAN /\ finding \in [Reported -> Findings]
  /\ (socket = "open" <=> Window \in connected)

\* The server is only shown as connected while there is a connection, or one
\* whose end the window cannot have noticed: the welcome of a connection that
\* is over is never read (readTcpData, Errore, on_KillProcess_CollSoft).
WelcomeMeansConnection == label_status[2] => socket # "closed"

\* While the connection lasts, the server has its programmer and its table of
\* encoder values, and no dialog is open, the label of a driver comes to say
\* what the position check finds, also after a dialog has kept answers from
\* being signalled and when answers are read together.  Without programmer or
\* table nothing is reported (Main.c:1018) and the label stays as it was.
LabelsFollow ==
  \A d \in Reported, s \in Findings :
    <>[](socket = "open" /\ linked /\ loaded /\ modal = <<>> /\ finding[d] = s)
      => <>[](LabelPositionStatus[d] = PositionText(s))

\* A server that the watchdog forked and says it has killed is over: nothing
\* is left of the process, and it does not hold the port (kill, waitpid).
KilledMeansGone ==
  answer.text = "killed" /\ parent[answer.pid] = answer.by
    => process[answer.pid] = "gone" /\ port # answer.pid

\* Whatever is sent to the watchdog it comes to an end with it, and so does a
\* copy of the watchdog (the loop of MainExistence.c).
EveryRequestEnds ==
  \A w \in Loops : command[w] # <<>> ~> (Runs(w) => doing[w] = Idle /\ command[w] = <<>>)
==============================================================================

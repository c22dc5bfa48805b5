---------------------------- MODULE UserGUIProofs -----------------------------
(***************************************************************************)
(* Proofs about the window of the ordinary user, for any slits, statuses,  *)
(* distances, number of clicks and of answers under way: nothing moves     *)
(* without a login, and no login is without its green lock.                *)
(***************************************************************************)
EXTENDS UserGUI, TLAPS

------------------------------------------------------------------------------
(* The stack of dialogs. *)

\* A dialog opened on an empty stack is alone on it.
LEMMA Alone ==
  ASSUME NEW d
  PROVE  Append(<<>>, d) = <<d>>
OBVIOUS

\* When the only dialog is closed there is none.
LEMMA ClosedIsFree ==
  ASSUME NEW d, NEW e, modal = <<e>>, Closes(d)
  PROVE  d = e /\ modal' = <<>>
<1>1. Last(<<e>>) = e
  BY DEF Last
<1>2. Front(<<e>>) = <<>>
  BY DEF Front
<1> QED BY <1>1, <1>2 DEF Closes

------------------------------------------------------------------------------
(* The invariant: there is at most one dialog; while it is a confirmation  *)
(* the user of its tab is logged in, while it is a login he is not.        *)

Granted(d) ==
  /\ d.kind \in {"homing", "start"} => enabled[d.tab]
  /\ d.kind = "user" => ~enabled[d.tab]

OneDialog == modal = <<>> \/ \E d : modal = <<d>> /\ Granted(d)

LocksOK == enabled \in [Tabs -> BOOLEAN] /\ lock \in [Tabs -> {"red", "green"}]

IInv == LocksOK /\ EnabledMeansGreen /\ OneDialog

\* Nothing but logins and dialogs disturbs it.
LEMMA Undisturbed ==
  ASSUME IInv, UNCHANGED <<enabled, lock, modal>>
  PROVE  IInv'
BY DEF IInv, LocksOK, EnabledMeansGreen, OneDialog, Granted

\* A dialog closed leaves none, whatever it does to the logins.
LEMMA Closing ==
  ASSUME IInv, NEW d, Closes(d)
  PROVE  OneDialog' /\ Granted(d)
<1>1. modal # <<>>
  BY DEF Closes
<1>2. PICK e : modal = <<e>> /\ Granted(e)
  BY <1>1 DEF IInv, OneDialog
<1>3. d = e /\ modal' = <<>>
  BY <1>2, ClosedIsFree
<1> QED BY <1>2, <1>3 DEF OneDialog

\* One that leaves the logins alone keeps the invariant.
LEMMA ClosingOnly ==
  ASSUME IInv, NEW d, Closes(d), UNCHANGED <<enabled, lock>>
  PROVE  IInv'
<1>1. OneDialog'
  BY Closing
<1>2. LocksOK' /\ EnabledMeansGreen'
  BY DEF IInv, LocksOK, EnabledMeansGreen
<1> QED BY <1>1, <1>2 DEF IInv

\* A dialog is only opened when there is none.
LEMMA Opening ==
  ASSUME IInv, Free, NEW kind, NEW tab, Opens(Dialog(kind, tab)),
         LocksOK', EnabledMeansGreen',
         kind \in {"homing", "start"} => enabled'[tab],
         kind = "user" => ~enabled'[tab]
  PROVE  IInv'
<1>1. modal' = <<Dialog(kind, tab)>>
  BY Alone DEF Free, Opens
<1>2. Granted(Dialog(kind, tab))'
  BY DEF Granted, Dialog
<1> QED BY <1>1, <1>2 DEF IInv, OneDialog

\* The window opens without a dialog and without a login.
LEMMA Start == Init => IInv
BY DEF Init, IInv, LocksOK, EnabledMeansGreen, OneDialog

\* The slots of a tab.
LEMMA TabStep ==
  ASSUME IInv, NEW t \in Tabs,
         \/ on_EnableUserGUI_Button(t) \/ EnableAccepted(t) \/ EnableRejected(t)
         \/ on_ExpertModeButton(t) \/ ExpertClosed(t)
         \/ on_EnableUpdateButton(t)
         \/ on_HomingButton(t) \/ on_StartButton(t)
         \/ HomingConfirmed(t) \/ StartConfirmed(t) \/ NotConfirmed(t)
  PROVE  IInv'
<1>0. LocksOK /\ EnabledMeansGreen
  BY DEF IInv
<1>1. CASE on_EnableUserGUI_Button(t)
  <2>1. /\ Free /\ Opens(Dialog("user", t)) /\ lock' = lock
        /\ enabled' = [enabled EXCEPT ![t] = FALSE]
    BY <1>1 DEF on_EnableUserGUI_Button, Click, Forgotten
  <2>2. LocksOK' /\ EnabledMeansGreen' /\ ~enabled'[t]
    BY <1>0, <2>1 DEF LocksOK, EnabledMeansGreen
  <2> QED BY <2>1, <2>2, Opening
<1>2. CASE EnableAccepted(t)
  <2>1. PICK value \in Authentications :
          /\ lock' = [lock EXCEPT ![t] = IF value = 1 THEN "green" ELSE "red"]
          /\ enabled' = [enabled EXCEPT ![t] = value = 1 \/ enabled[t]]
    BY <1>2 DEF EnableAccepted
  <2>2. OneDialog' /\ Granted(Dialog("user", t))
    BY <1>2, Closing DEF EnableAccepted
  <2>3. ~enabled[t]
    BY <2>2 DEF Granted, Dialog
  <2>4. LocksOK'
    BY <1>0, <2>1 DEF LocksOK
  <2>5. ASSUME NEW u \in Tabs, enabled'[u] PROVE lock'[u] = "green"
    <3>1. CASE u = t
      <4>1. value = 1
        BY <1>0, <2>1, <2>3, <2>5, <3>1 DEF LocksOK
      <4> QED BY <1>0, <2>1, <3>1, <4>1 DEF LocksOK
    <3>2. CASE u # t
      BY <1>0, <2>1, <2>5, <3>2 DEF LocksOK, EnabledMeansGreen
    <3> QED BY <3>1, <3>2
  <2> QED BY <2>2, <2>4, <2>5 DEF IInv, EnabledMeansGreen
<1>3. CASE EnableRejected(t)
  BY <1>3, ClosingOnly DEF EnableRejected
<1>4. CASE on_ExpertModeButton(t)
  <2>1. Free /\ UNCHANGED <<enabled, lock>> /\ Opens(Dialog("expert", t))
    BY <1>4 DEF on_ExpertModeButton, Click
  <2>2. LocksOK' /\ EnabledMeansGreen'
    BY <1>0, <2>1 DEF LocksOK, EnabledMeansGreen
  <2> QED BY <2>1, <2>2, Opening
<1>5. CASE ExpertClosed(t)
  BY <1>5, ClosingOnly DEF ExpertClosed
<1>6. CASE on_EnableUpdateButton(t)
  BY <1>6, Undisturbed DEF on_EnableUpdateButton
<1>7. ASSUME NEW slot \in {"homing", "start"}, Asks(t, slot) PROVE IInv'
  <2>1. CASE enabled[t]
    <3>1. /\ Free /\ UNCHANGED <<enabled, lock>> /\ Opens(Dialog(slot, t))
      BY <1>7, <2>1 DEF Asks, Click
    <3>2. LocksOK' /\ EnabledMeansGreen' /\ enabled'[t]
      BY <1>0, <2>1, <3>1 DEF LocksOK, EnabledMeansGreen
    <3>3. slot # "user"
      BY <1>7
    <3> QED BY <3>1, <3>2, <3>3, Opening
  <2>2. CASE ~enabled[t]
    BY <1>7, <2>2, Undisturbed DEF Asks
  <2> QED BY <2>1, <2>2
<1>8. ASSUME NEW slot, NEW lines, Confirmed(t, slot, lines) PROVE IInv'
  BY <1>8, ClosingOnly DEF Confirmed
<1>9. CASE NotConfirmed(t)
  BY <1>9, ClosingOnly DEF NotConfirmed, Refused
<1> QED
  BY <1>1, <1>2, <1>3, <1>4, <1>5, <1>6, <1>7, <1>8, <1>9
     DEF on_HomingButton, on_StartButton, HomingConfirmed, StartConfirmed

\* Every step keeps the invariant.
LEMMA Step ==
  ASSUME IInv, [Next]_vars
  PROVE  IInv'
<1>1. CASE Read \/ error_tcp
  BY <1>1, Undisturbed DEF Read, readTcpData, error_tcp, user
<1>2. ASSUME NEW t \in Tabs,
             \/ on_EnableUserGUI_Button(t) \/ EnableAccepted(t) \/ EnableRejected(t)
             \/ on_ExpertModeButton(t) \/ ExpertClosed(t)
             \/ on_EnableUpdateButton(t)
             \/ on_HomingButton(t) \/ on_StartButton(t)
             \/ HomingConfirmed(t) \/ StartConfirmed(t) \/ NotConfirmed(t)
      PROVE  IInv'
  BY <1>2, TabStep
<1>3. CASE on_checkBox_all_clicked \/ \E d \in Reported : on_checkBox(d)
  BY <1>3, Undisturbed DEF on_checkBox_all_clicked, on_checkBox
<1>4. CASE on_actionConnect_triggered
  BY <1>4, Undisturbed DEF on_actionConnect_triggered
<1>5. CASE \E d \in Reported :
             Reports(d) \/ get_all_parameter(d) \/ \E s \in Statuses : Changes(d, s)
  BY <1>5, Undisturbed DEF Reports, get_all_parameter, Answers, Changes, user
<1>6. CASE Answers(Other) \/ AnotherClient \/ ServerStops \/ ServerStarts
  BY <1>6, Undisturbed DEF Answers, AnotherClient, ServerStops, ServerStarts, user
<1>7. CASE UNCHANGED vars
  BY <1>7, Undisturbed DEF vars, user
<1> QED BY <1>1, <1>2, <1>3, <1>4, <1>5, <1>6, <1>7 DEF Next

------------------------------------------------------------------------------
(* The properties. *)

\* What a step that writes lines for a movement is: a confirmation.
LEMMA OnlyConfirmed ==
  ASSUME [Next]_vars, written' # written, written'.slot \in {"homing", "start"}
  PROVE  \E t \in Tabs, slot \in {"homing", "start"} :
           (\E lines : Confirmed(t, slot, lines)) /\ written'.tab = t
<1>1. written' # NothingWritten
  BY DEF NothingWritten
<1>2. ~Click
  BY <1>1 DEF Click
<1>3. ~ \E t \in Tabs : on_EnableUpdateButton(t)
  BY <1>1 DEF on_EnableUpdateButton, Writes
<1>4. ~ (Read \/ error_tcp)
  BY DEF Read, readTcpData, error_tcp, user
<1>5. ~ \E t \in Tabs :
          \/ on_EnableUserGUI_Button(t) \/ EnableAccepted(t) \/ EnableRejected(t)
          \/ on_ExpertModeButton(t) \/ ExpertClosed(t)
          \/ on_HomingButton(t) \/ on_StartButton(t) \/ NotConfirmed(t)
  BY <1>2 DEF on_EnableUserGUI_Button, EnableAccepted, EnableRejected,
       on_ExpertModeButton, ExpertClosed, on_HomingButton, on_StartButton, Asks,
       NotConfirmed, Refused
<1>6. ~ (on_checkBox_all_clicked \/ \E d \in Reported : on_checkBox(d))
  BY <1>2 DEF on_checkBox_all_clicked, on_checkBox
<1>7. ~ on_actionConnect_triggered
  BY <1>2 DEF on_actionConnect_triggered
<1>8. ~ \E d \in Reported :
          Reports(d) \/ get_all_parameter(d) \/ \E s \in Statuses : Changes(d, s)
  BY DEF Reports, get_all_parameter, Answers, Changes, user
<1>9. ~ \/ Answers(Other) \/ AnotherClient \/ ServerStops \/ ServerStarts
        \/ UNCHANGED vars
  BY DEF Answers, AnotherClient, ServerStops, ServerStarts, vars, user
<1>10. PICK t \in Tabs : HomingConfirmed(t) \/ StartConfirmed(t)
  BY <1>3, <1>4, <1>5, <1>6, <1>7, <1>8, <1>9 DEF Next
<1>11. PICK slot \in {"homing", "start"} : \E lines : Confirmed(t, slot, lines)
  BY <1>10 DEF HomingConfirmed, StartConfirmed
<1>12. written'.tab = t
  BY <1>11 DEF Confirmed, Writes
<1> QED BY <1>11, <1>12

\* Lines that move a slit are only written for a tab whose user is logged in
\* (on_StartButton_1 to 3, on_HomingButton_1 to 3).
THEOREM LoginIsNeeded == Spec => NothingMovesWithoutALogin
<1>1. ASSUME IInv, [Next]_vars
      PROVE  [written'.slot \in {"homing", "start"} /\ written' # written
                => enabled[written'.tab]]_vars
  <2> SUFFICES ASSUME written'.slot \in {"homing", "start"}, written' # written
               PROVE  enabled[written'.tab]
    OBVIOUS
  <2>1. PICK t \in Tabs, slot \in {"homing", "start"} :
          (\E lines : Confirmed(t, slot, lines)) /\ written'.tab = t
    BY <1>1, OnlyConfirmed
  <2>2. Closes(Dialog(slot, t))
    BY <2>1 DEF Confirmed
  <2>3. Granted(Dialog(slot, t))
    BY <1>1, <2>2, Closing
  <2> QED BY <2>1, <2>3 DEF Granted, Dialog
<1> QED BY <1>1, Start, Step, PTL DEF Spec, NothingMovesWithoutALogin

\* A tab that obeys its user shows a green lock: no wrong password and no
\* dialog given up leaves a red lock on a tab that still moves slits
\* (on_EnableUserGUI_Button_1 to 3).
THEOREM LoginIsShown == Spec => []EnabledMeansGreen
<1>1. IInv => EnabledMeansGreen
  BY DEF IInv
<1>2. IInv /\ [Next]_vars => IInv'
  BY Step
<1> QED BY <1>1, <1>2, Start, PTL DEF Spec

------------------------------------------------------------------------------
(* Types. *)

\* What is read of a piece of the stream: an answer of the server, or nothing.
LEMMA TextIsAnswer ==
  ASSUME stream \in Seq(Texts \cup {Padding}), NEW k \in 1 .. Len(stream)
  PROVE  /\ TextOf(SubSeq(stream, 1, k)) \in Texts \cup {Unread}
         /\ Rest(stream, k) \in Seq(Texts \cup {Padding})
         /\ Len(Rest(stream, k)) <= Len(stream)
<1>1. Head(SubSeq(stream, 1, k)) = stream[1]
  OBVIOUS
<1>2. stream[1] \in Texts \cup {Padding}
  OBVIOUS
<1>3. TextOf(SubSeq(stream, 1, k)) \in Texts \cup {Unread}
  BY <1>1, <1>2 DEF TextOf
<1>4. /\ SubSeq(stream, k + 1, Len(stream)) \in Seq(Texts \cup {Padding})
      /\ Len(SubSeq(stream, k + 1, Len(stream))) <= Len(stream)
  OBVIOUS
<1> QED BY <1>3, <1>4 DEF Rest

\* An answer sent keeps the stream one of answers.
LEMMA SentIsStream ==
  ASSUME NEW text \in Texts, NEW s \in Seq(Texts \cup {Padding})
  PROVE  /\ SendBlock(s, text) \in Seq(Texts \cup {Padding})
         /\ Len(SendBlock(s, text)) = Len(s) + 2
<1>1. /\ <<text, Padding>> \in Seq(Texts \cup {Padding})
      /\ Len(<<text, Padding>>) = 2
  OBVIOUS
<1> QED BY <1>1 DEF SendBlock

\* The leds and figures that are shown, whatever status was read.
LEMMA ShownIsColoured ==
  ASSUME led \in [Sleds -> Colours], figure \in [Figures -> Colours],
         prevalent_color \in [0 .. 13 -> Statuses \cup {-2}],
         NEW drv, NEW status \in Statuses \cup {-2}, Show(drv, status)
  PROVE  /\ led' \in [Sleds -> Colours] /\ figure' \in [Figures -> Colours]
         /\ prevalent_color' \in [0 .. 13 -> Statuses \cup {-2}]
<1>1. \A x : Colour(x) \in Colours
  BY DEF Colour, Colours
<1>2. led' \in [Sleds -> Colours]
  BY <1>1 DEF Show
<1>3. prevalent_color' \in [0 .. 13 -> Statuses \cup {-2}]
  BY DEF Show, Recorded
<1>4. \A f \in Figures : CheckPrevalentColor(prevalent_color')[f] \in Colours
  BY <1>1 DEF CheckPrevalentColor
<1>5. figure' \in [Figures -> Colours]
  BY <1>4 DEF Show, CheckPrevalentColor
<1> QED BY <1>2, <1>3, <1>5

\* Dialogs opened and closed leave a sequence of dialogs.
Dialogs == [kind : {"user", "expert", "homing", "start"}, tab : Tabs]

LEMMA OpensDialogs ==
  ASSUME modal \in Seq(Dialogs), NEW kind \in {"user", "expert", "homing", "start"},
         NEW t \in Tabs, Opens(Dialog(kind, t))
  PROVE  modal' \in Seq(Dialogs)
<1>1. Dialog(kind, t) \in Dialogs
  BY DEF Dialog, Dialogs
<1> QED BY <1>1 DEF Opens

LEMMA ClosesDialogs ==
  ASSUME modal \in Seq(Dialogs), NEW d, Closes(d)
  PROVE  modal' \in Seq(Dialogs)
<1>1. Len(modal) - 1 \in Nat
  BY DEF Closes
<1>2. SubSeq(modal, 1, Len(modal) - 1) \in Seq(Dialogs)
  BY <1>1
<1> QED BY <1>2 DEF Closes, Front

\* The state but for display, stream and dialogs, and the part a slot of a
\* tab leaves alone.
WindowOK ==
  /\ enabled \in [Tabs -> BOOLEAN] /\ lock \in [Tabs -> {"red", "green"}]
  /\ checkBox \subseteq Sleds /\ modal \in Seq(Dialogs)
  /\ experts \in BOOLEAN
  /\ clicks \in 0 .. MaxClicks

DisplayOK ==
  /\ led \in [Sleds -> Colours] /\ figure \in [Figures -> Colours]
  /\ prevalent_color \in [0 .. 13 -> Statuses \cup {-2}]

ServerOK ==
  /\ socket \in {"closed", "open", "broken"}
  /\ stream \in Seq(Texts \cup {Padding}) /\ Len(stream) <= 2 * MaxStream
  /\ up \in BOOLEAN /\ linked \in BOOLEAN /\ loaded \in BOOLEAN
  /\ verdict \in [Reported -> Statuses]

LEMMA TypeParts ==
  /\ TypeOK <=> WindowOK /\ DisplayOK /\ ServerOK
  /\ TypeOK' <=> WindowOK' /\ DisplayOK' /\ ServerOK'
BY DEF TypeOK, WindowOK, DisplayOK, ServerOK, Dialogs

LEMMA WindowSame ==
  ASSUME WindowOK, UNCHANGED user
  PROVE  WindowOK'
BY DEF WindowOK, user

LEMMA DisplaySame ==
  ASSUME DisplayOK, UNCHANGED display
  PROVE  DisplayOK'
BY DEF DisplayOK, display

LEMMA ServerSame ==
  ASSUME ServerOK, UNCHANGED <<server, socket, stream>>
  PROVE  ServerOK'
BY DEF ServerOK, server

\* A click is counted.
LEMMA Clicked ==
  ASSUME clicks \in 0 .. MaxClicks, Click
  PROVE  clicks' \in 0 .. MaxClicks
BY BoundAssumption DEF Click

LEMMA TypeInit == Init => TypeOK
<1> SUFFICES ASSUME Init PROVE TypeOK
  OBVIOUS
<1>1. WindowOK
  <2>1. /\ enabled \in [Tabs -> BOOLEAN] /\ lock \in [Tabs -> {"red", "green"}]
        /\ checkBox \subseteq Sleds /\ experts \in BOOLEAN
    BY DEF Init
  <2>2. modal \in Seq(Dialogs)
    BY DEF Init
  <2>3. clicks \in 0 .. MaxClicks
    BY BoundAssumption DEF Init
  <2> QED BY <2>1, <2>2, <2>3 DEF WindowOK
<1>2. DisplayOK
  BY DEF Init, DisplayOK, Colours
<1>3. ServerOK
  <2>1. stream = <<>>
    BY DEF Init
  <2>2. stream \in Seq(Texts \cup {Padding}) /\ Len(stream) <= 2 * MaxStream
    BY <2>1, BoundAssumption
  <2> QED BY <2>2 DEF Init, ServerOK
<1> QED BY <1>1, <1>2, <1>3, TypeParts

\* What the user does to the window.
LEMMA TypeTab ==
  ASSUME WindowOK, NEW t \in Tabs,
         \/ on_EnableUserGUI_Button(t) \/ EnableAccepted(t) \/ EnableRejected(t)
         \/ on_ExpertModeButton(t) \/ ExpertClosed(t)
         \/ on_EnableUpdateButton(t)
         \/ on_HomingButton(t) \/ on_StartButton(t)
         \/ HomingConfirmed(t) \/ StartConfirmed(t) \/ NotConfirmed(t)
  PROVE  WindowOK' /\ UNCHANGED <<display, socket, stream, server>>
<1> USE DEF WindowOK
<1>1. CASE on_EnableUserGUI_Button(t)
  BY <1>1, Clicked, OpensDialogs DEF on_EnableUserGUI_Button, Forgotten
<1>2. CASE EnableAccepted(t)
  <2>1. PICK value \in Authentications :
          /\ lock' = [lock EXCEPT ![t] = IF value = 1 THEN "green" ELSE "red"]
          /\ enabled' = [enabled EXCEPT ![t] = value = 1 \/ enabled[t]]
    BY <1>2 DEF EnableAccepted
  <2>2. lock' \in [Tabs -> {"red", "green"}] /\ enabled' \in [Tabs -> BOOLEAN]
    BY <2>1
  <2> QED BY <1>2, <2>2, ClosesDialogs DEF EnableAccepted
<1>3. CASE EnableRejected(t)
  BY <1>3, ClosesDialogs DEF EnableRejected
<1>4. CASE on_ExpertModeButton(t)
  BY <1>4, Clicked, OpensDialogs DEF on_ExpertModeButton
<1>5. CASE ExpertClosed(t)
  BY <1>5, ClosesDialogs DEF ExpertClosed
<1>6. CASE on_EnableUpdateButton(t)
  BY <1>6, BoundAssumption DEF on_EnableUpdateButton
<1>7. ASSUME NEW slot \in {"homing", "start"}, Asks(t, slot)
      PROVE  WindowOK' /\ UNCHANGED <<display, socket, stream, server>>
  BY <1>7, Clicked, OpensDialogs DEF Asks
<1>8. ASSUME NEW slot, NEW lines, Confirmed(t, slot, lines)
      PROVE  WindowOK' /\ UNCHANGED <<display, socket, stream, server>>
  BY <1>8, ClosesDialogs DEF Confirmed
<1>9. CASE NotConfirmed(t)
  BY <1>9, ClosesDialogs DEF NotConfirmed, Refused
<1> QED
  BY <1>1, <1>2, <1>3, <1>4, <1>5, <1>6, <1>7, <1>8, <1>9
     DEF on_HomingButton, on_StartButton, HomingConfirmed, StartConfirmed

LEMMA TypeBoxes ==
  ASSUME WindowOK, on_checkBox_all_clicked \/ \E d \in Reported : on_checkBox(d)
  PROVE  WindowOK' /\ UNCHANGED <<display, socket, stream, server>>
<1>1. CASE on_checkBox_all_clicked
  BY <1>1, Clicked DEF WindowOK, on_checkBox_all_clicked
<1>2. CASE \E d \in Reported : on_checkBox(d)
  BY <1>2, Clicked, ReportAssumption DEF WindowOK, on_checkBox
<1> QED BY <1>1, <1>2

\* What the user does to the connection.
LEMMA TypeConnect ==
  ASSUME WindowOK, ServerOK, on_actionConnect_triggered
  PROVE  WindowOK' /\ UNCHANGED display /\ ServerOK'
<1>1. PICK welcome_1 \in BOOLEAN, welcome_2 \in BOOLEAN, okay \in BOOLEAN, link \in BOOLEAN :
        AutomaticSetting(up /\ welcome_1, up /\ welcome_2, okay, link)
  BY DEF on_actionConnect_triggered
<1>2. linked' \in BOOLEAN /\ loaded' \in BOOLEAN
  BY <1>1 DEF AutomaticSetting, ServerOK
<1>3. WindowOK'
  BY <1>2, Clicked DEF WindowOK, on_actionConnect_triggered
<1>4. CASE up /\ socket = "closed"
  <2>1. socket' = "open" /\ stream' = SendBlock(<<>>, Other)
    BY <1>4 DEF on_actionConnect_triggered
  <2>2. Other \in Texts /\ <<>> \in Seq(Texts \cup {Padding}) /\ Len(<<>>) = 0
    BY DEF Texts
  <2>3. /\ SendBlock(<<>>, Other) \in Seq(Texts \cup {Padding})
        /\ Len(SendBlock(<<>>, Other)) = 0 + 2
    BY <2>2, SentIsStream, Zenon
  <2>4. stream' \in Seq(Texts \cup {Padding}) /\ Len(stream') <= 2 * MaxStream
    <3>1. stream' \in Seq(Texts \cup {Padding}) /\ Len(stream') = 0 + 2
      BY <2>1, <2>3, Zenon
    <3>2. 2 <= 2 * MaxStream
      BY BoundAssumption
    <3> QED BY <3>1, <3>2
  <2> QED BY <1>2, <1>3, <2>1, <2>4 DEF ServerOK, on_actionConnect_triggered
<1>5. CASE ~(up /\ socket = "closed")
  BY <1>2, <1>3, <1>5 DEF ServerOK, on_actionConnect_triggered
<1> QED BY <1>4, <1>5

\* What the window reads.
LEMMA TypeRead ==
  ASSUME WindowOK, DisplayOK, ServerOK, Read \/ error_tcp
  PROVE  WindowOK' /\ DisplayOK' /\ ServerOK'
<1>1. CASE error_tcp
  <2>1. UNCHANGED <<display, user, stream, server>> /\ socket' = "closed"
    BY <1>1 DEF error_tcp
  <2> QED BY <2>1, WindowSame, DisplaySame DEF ServerOK, server
<1>2. ASSUME NEW k \in 1 .. Len(stream), readTcpData(k)
      PROVE  WindowOK' /\ DisplayOK' /\ ServerOK'
  <2> DEFINE text == TextOf(SubSeq(stream, 1, k))
  <2>1. /\ text \in Texts \cup {Unread}
        /\ stream' \in Seq(Texts \cup {Padding}) /\ Len(stream') <= Len(stream)
    BY <1>2, TextIsAnswer DEF readTcpData, ServerOK
  <2>2. UNCHANGED <<user, socket, server>>
    BY <1>2 DEF readTcpData
  <2>3. ServerOK'
    <3>1. Len(stream) \in Nat /\ Len(stream') \in Nat
      BY <2>1 DEF ServerOK
    <3>2. Len(stream') <= 2 * MaxStream
      BY <2>1, <3>1, BoundAssumption DEF ServerOK
    <3> QED BY <2>1, <2>2, <3>2 DEF ServerOK, server
  <2>4. CASE text \notin {Unread, Other} /\ text.drv \in Sleds
    <3>1. text \in [drv : Reported, status : Statuses \cup {-2}]
      BY <2>1, <2>4 DEF Texts
    <3>2. Show(text.drv, text.status) /\ text.status \in Statuses \cup {-2}
      BY <1>2, <2>4, <3>1 DEF readTcpData
    <3>3. DisplayOK'
      BY <3>2, ShownIsColoured DEF DisplayOK
    <3> QED BY <2>2, <2>3, <3>3, WindowSame
  <2>5. CASE ~(text \notin {Unread, Other} /\ text.drv \in Sleds)
    <3>1. UNCHANGED display
      BY <1>2, <2>5 DEF readTcpData
    <3> QED BY <2>2, <2>3, <3>1, WindowSame, DisplaySame
  <2> QED BY <2>4, <2>5
<1> QED BY <1>1, <1>2 DEF Read

\* What the server does.
LEMMA TypeServer ==
  ASSUME WindowOK, DisplayOK, ServerOK,
         \/ \E d \in Reported :
              Reports(d) \/ get_all_parameter(d) \/ \E s \in Statuses : Changes(d, s)
         \/ Answers(Other) \/ AnotherClient \/ ServerStops \/ ServerStarts
  PROVE  WindowOK' /\ DisplayOK' /\ ServerOK'
<1>1. ASSUME NEW text \in Texts, Answers(text)
      PROVE  WindowOK' /\ DisplayOK' /\ ServerOK'
  <2>1. /\ stream' = SendBlock(stream, text) /\ Len(stream) + 2 <= 2 * MaxStream
        /\ UNCHANGED <<display, user, socket, server>>
    BY <1>1 DEF Answers
  <2>2. stream' \in Seq(Texts \cup {Padding}) /\ Len(stream') <= 2 * MaxStream
    BY <2>1, SentIsStream DEF ServerOK
  <2> QED BY <2>1, <2>2, WindowSame, DisplaySame DEF ServerOK, server
<1>2. ASSUME NEW d \in Reported, Reports(d)
      PROVE  WindowOK' /\ DisplayOK' /\ ServerOK'
  <2>1. [drv |-> d, status |-> verdict[d]] \in Texts
    BY DEF ServerOK, Texts
  <2> QED BY <1>1, <1>2, <2>1 DEF Reports
<1>3. ASSUME NEW d \in Reported, NEW s \in Statuses, Changes(d, s)
      PROVE  WindowOK' /\ DisplayOK' /\ ServerOK'
  <2>1. verdict' \in [Reported -> Statuses]
    BY <1>3 DEF Changes, ServerOK
  <2> QED BY <1>3, <2>1, WindowSame, DisplaySame DEF Changes, ServerOK
<1>4. CASE ServerStops
  BY <1>4, WindowSame, DisplaySame DEF ServerStops, ServerOK
<1>5. CASE ServerStarts
  BY <1>5, WindowSame, DisplaySame DEF ServerStarts, ServerOK
<1>6. CASE AnotherClient
  BY <1>6, WindowSame, DisplaySame DEF AnotherClient, ServerOK
<1>7. ASSUME NEW d \in Reported, get_all_parameter(d)
      PROVE  WindowOK' /\ DisplayOK' /\ ServerOK'
  <2> DEFINE status == IF linked THEN verdict[d] ELSE -2
  <2>1. status \in Statuses \cup {-2}
    BY DEF ServerOK
  <2>2. [drv |-> d, status |-> status] \in Texts
    BY <2>1 DEF Texts
  <2> QED BY <1>1, <1>7, <2>2 DEF get_all_parameter
<1>8. Other \in Texts
  BY DEF Texts
<1> QED BY <1>1, <1>2, <1>3, <1>4, <1>5, <1>6, <1>7, <1>8

\* Every step keeps the types.
LEMMA TypeStep ==
  ASSUME TypeOK, [Next]_vars
  PROVE  TypeOK'
<1>1. WindowOK /\ DisplayOK /\ ServerOK
  BY TypeParts
<1>2. CASE Read \/ error_tcp
  BY <1>1, <1>2, TypeRead, TypeParts
<1>3. ASSUME NEW t \in Tabs,
             \/ on_EnableUserGUI_Button(t) \/ EnableAccepted(t) \/ EnableRejected(t)
             \/ on_ExpertModeButton(t) \/ ExpertClosed(t)
             \/ on_EnableUpdateButton(t)
             \/ on_HomingButton(t) \/ on_StartButton(t)
             \/ HomingConfirmed(t) \/ StartConfirmed(t) \/ NotConfirmed(t)
      PROVE  TypeOK'
  BY <1>1, <1>3, TypeTab, DisplaySame, ServerSame, TypeParts
<1>4. CASE on_checkBox_all_clicked \/ \E d \in Reported : on_checkBox(d)
  BY <1>1, <1>4, TypeBoxes, DisplaySame, ServerSame, TypeParts
<1>5. CASE on_actionConnect_triggered
  BY <1>1, <1>5, TypeConnect, DisplaySame, TypeParts
<1>6. CASE \/ \E d \in Reported :
                Reports(d) \/ get_all_parameter(d) \/ \E s \in Statuses : Changes(d, s)
           \/ Answers(Other) \/ AnotherClient \/ ServerStops \/ ServerStarts
  BY <1>1, <1>6, TypeServer, TypeParts
<1>7. CASE UNCHANGED vars
  BY <1>1, <1>7, WindowSame, DisplaySame, ServerSame, TypeParts DEF vars
<1> QED BY <1>2, <1>3, <1>4, <1>5, <1>6, <1>7 DEF Next

\* The variables of the window hold what they are meant to hold, however many
\* slits there are reported and whatever is typed.
THEOREM TypeCorrect == Spec => []TypeOK
<1> QED BY TypeInit, TypeStep, PTL DEF Spec
==============================================================================

------------------------------- MODULE UserGUI --------------------------------
(***************************************************************************)
(* The window of the ordinary user (UserGUI/mainwindow.cpp): three tabs    *)
(* that move the slits, each behind a login and a confirmation, and the    *)
(* leds and figures that show what the server says of each slit.           *)
(*                                                                         *)
(* A slot is an action.  A slot that opens a dialog runs the event loop in *)
(* exec(): what it had read before is used when the dialog is closed,      *)
(* which is an action of its own, and the answers of the server are shown  *)
(* in between.  The server and the LDAP directory are external.            *)
(***************************************************************************)
EXTENDS Integers, Sequences, FiniteSets, FiniteSetsExt, SequencesExt, ServerStream

CONSTANTS
  Reported,    \* the slits whose status the server reports in this instance
  Statuses,    \* what it may say of one: 0, -1, -2 or a status_state
  Distances,   \* what the user may type for an opening, in microns
  Spreads,     \* 120000 times the tangent of the angle the user may type
  MaxClicks,   \* bound: slots the user calls
  MaxStream,   \* bound: answers under way to the window
  Other        \* any answer of the server that is not a status

Sleds == 1 .. 14
Figures == 1 .. 4
Tabs == {"octagonal", "asymmetric", "singular"}

ASSUME ReportAssumption == Reported \subseteq Sleds /\ Statuses \subseteq Int
ASSUME InputAssumption  == Distances \subseteq Nat /\ Spreads \subseteq Nat
ASSUME BoundAssumption  == MaxClicks \in Nat /\ MaxStream \in Nat \ {0}

VARIABLES
  led, figure, prevalent_color,    \* what is shown of the slits
  enabled, lock,                   \* enabled_octagonal, ...; LockIcon_1, ...
  checkBox,        \* the slits checked in the singular tab
  modal,           \* the dialogs whose exec() is running, the last on top
  experts,         \* an ExpertGUI has been started
  socket,          \* _pSocket: closed, open or broken
  stream,          \* what the server has sent and the window has not read
  written,         \* the lines the last slot wrote
  clicks,
  up, linked, loaded, verdict      \* the server, and what it finds of each slit

display == <<led, figure, prevalent_color>>
user    == <<enabled, lock, checkBox, modal, experts, written, clicks>>
server  == <<up, linked, loaded, verdict>>
vars    == <<display, user, socket, stream, server>>

NothingWritten == [tab |-> "none", slot |-> "none", lines |-> <<>>]

\* MainWindow::MainWindow and the pixmaps of mainwindow.ui.
Init ==
  /\ led = [d \in Sleds |-> "red"] /\ figure = [f \in Figures |-> "red"]
  /\ prevalent_color = [i \in 0 .. 13 |-> -2]
  /\ enabled = [t \in Tabs |-> FALSE] /\ lock = [t \in Tabs |-> "red"]
  /\ checkBox = {} /\ modal = <<>> /\ experts = FALSE
  /\ socket = "closed" /\ stream = <<>> /\ written = NothingWritten /\ clicks = 0
  /\ up = TRUE /\ linked = FALSE /\ loaded = FALSE
  /\ verdict \in [Reported -> Statuses]

------------------------------------------------------------------------------
(* The display. *)

Colour_NoElse(status) ==
  CASE status = 0 -> "green" [] status = -1 -> "yellow" [] OTHER -> "none"

Colour(status) ==
  CASE status = 0 -> "green" [] status = -1 -> "yellow" [] OTHER -> "red"

\* The entries of prevalent_color a figure sums up: the slits are numbered from
\* one, the array from zero.
Entries(f) == (4 * f - 4 .. 4 * f - 1) \cap 0 .. 13

\* The worst of the entries, where a positive status counts as 0.  A value
\* below -2 leaves the figure as it is.
CheckPrevalentColor(colours) ==
  [f \in Figures |->
     LET color == Min({0} \cup { colours[i] : i \in Entries(f) })
     IN  IF color \in -2 .. 0 THEN Colour(color) ELSE figure[f]]

\* The entry of a slit has the number of the slit, though the array begins
\* at 0: what is recorded for slit 14 falls behind its end.
Recorded(drv, status) ==
  [i \in 0 .. 13 |-> IF i = drv THEN status ELSE prevalent_color[i]]

Show_GreenOnly(drv, status) ==
  /\ led' = [led EXCEPT ![drv] = IF status = 0 THEN "green" ELSE led[drv]]
  /\ prevalent_color' = Recorded(drv, status)
  /\ figure' = CheckPrevalentColor(prevalent_color')

Show(drv, status) ==
  /\ led' = [led EXCEPT ![drv] = Colour(status)]
  /\ prevalent_color' = Recorded(drv, status)
  /\ figure' = CheckPrevalentColor(prevalent_color')

\* A status of a slit that does not exist ends the slot.
readTcpData(k) ==
  /\ k \in 1 .. Len(stream)
  /\ LET text == TextOf(SubSeq(stream, 1, k))
     IN  IF text \notin {Unread, Other} /\ text.drv \in Sleds
           THEN Show(text.drv, text.status)
           ELSE UNCHANGED display
  /\ stream' = Rest(stream, k)
  /\ UNCHANGED <<user, socket, server>>

Read == \E k \in 1 .. Len(stream) : readTcpData(k)

\* The connection is lost, and with it nothing that is shown.
error_tcp ==
  /\ socket = "broken" /\ stream = <<>>
  /\ socket' = "closed"
  /\ UNCHANGED <<display, user, stream, server>>

------------------------------------------------------------------------------
(* The user.  A modal dialog keeps him from everything but itself. *)

Free_Always == TRUE
Free == modal = <<>>

Click ==
  /\ Free /\ clicks < MaxClicks
  /\ clicks' = clicks + 1
  /\ written' = NothingWritten

Opens(dialog) == modal' = Append(modal, dialog)
Closes(dialog) == modal # <<>> /\ Last(modal) = dialog /\ modal' = Front(modal)

Dialog(kind, tab) == [kind |-> kind, tab |-> tab]

\* What is written on a socket that is not open is lost, without a word.
Writes(tab, slot, lines) ==
  written' = [tab |-> tab, slot |-> slot,
              lines |-> IF socket = "closed" THEN <<>> ELSE lines]

Line(name, drivers, steps) == [name |-> name, drivers |-> drivers, steps |-> steps]

\* ldap_authentication: -1 when the directory cannot be asked, or the entry
\* has no password; 0 for an unknown user or another password.
ldap_authentication(reached, known, password) ==
  IF ~reached \/ (known /\ password = "none") THEN -1
  ELSE IF known /\ password = "same" THEN 1 ELSE 0

\* on_buttonBox_accepted, which knows one user without the directory.
Authentications ==
  {1} \cup { ldap_authentication(r, k, p) :
               r \in BOOLEAN, k \in BOOLEAN, p \in {"none", "same", "other"} }

Forgotten_Never(tab) == enabled

Forgotten(tab) == [enabled EXCEPT ![tab] = FALSE]

on_EnableUserGUI_Button(tab) ==
  /\ Click
  /\ enabled' = Forgotten(tab)
  /\ Opens(Dialog("user", tab))
  /\ UNCHANGED <<display, lock, checkBox, experts, socket, stream, server>>

EnableAccepted(tab) ==
  /\ Closes(Dialog("user", tab))
  /\ \E value \in Authentications :
       /\ lock' = [lock EXCEPT ![tab] = IF value = 1 THEN "green" ELSE "red"]
       /\ enabled' = [enabled EXCEPT ![tab] = value = 1 \/ enabled[tab]]
  /\ UNCHANGED <<display, checkBox, experts, socket, stream, written, clicks, server>>

\* The lock goes on showing what it showed before.
EnableRejected(tab) ==
  /\ Closes(Dialog("user", tab))
  /\ UNCHANGED <<display, enabled, lock, checkBox, experts, socket, stream,
                 written, clicks, server>>

on_ExpertModeButton(tab) ==
  /\ Click
  /\ Opens(Dialog("expert", tab))
  /\ UNCHANGED <<display, enabled, lock, checkBox, experts, socket, stream, server>>

ExpertClosed(tab) ==
  /\ Closes(Dialog("expert", tab))
  /\ \E accepted \in BOOLEAN, value \in Authentications :
       experts' = (experts \/ (accepted /\ value = 1))
  /\ UNCHANGED <<display, enabled, lock, checkBox, socket, stream, written,
                 clicks, server>>

on_EnableUpdateButton(tab) ==
  /\ Free /\ clicks < MaxClicks /\ clicks' = clicks + 1
  /\ IF enabled[tab]
       THEN Writes(tab, "update", <<Line("get_all_parameter", {}, 0)>>)
       ELSE written' = NothingWritten
  /\ UNCHANGED <<display, enabled, lock, checkBox, modal, experts, socket,
                 stream, server>>

on_checkBox_all_clicked ==
  /\ Click
  /\ checkBox' \in {{}, Sleds}
  /\ UNCHANGED <<display, enabled, lock, modal, experts, socket, stream, server>>

\* A box by itself: the toolkit's own doing.
on_checkBox(drv) ==
  /\ Click
  /\ checkBox' = IF drv \in checkBox THEN checkBox \ {drv} ELSE checkBox \cup {drv}
  /\ UNCHANGED <<display, enabled, lock, modal, experts, socket, stream, server>>

------------------------------------------------------------------------------
(* Homing and movements. *)

\* on_HomingButton_1, 2 and 3, on_StartButton_1, 2 and 3: the confirmation.
Asks(tab, slot) ==
  /\ Click
  /\ IF enabled[tab] THEN Opens(Dialog(slot, tab)) ELSE UNCHANGED modal
  /\ UNCHANGED <<display, enabled, lock, checkBox, experts, socket, stream, server>>

Refused(tab, slot) ==
  /\ Closes(Dialog(slot, tab))
  /\ UNCHANGED <<display, enabled, lock, checkBox, experts, socket, stream,
                 written, clicks, server>>

Confirmed(tab, slot, lines) ==
  /\ Closes(Dialog(slot, tab))
  /\ Writes(tab, slot, lines)
  /\ UNCHANGED <<display, enabled, lock, checkBox, experts, socket, stream,
                 clicks, server>>

InOrder(sleds) == SelectSeq([d \in Sleds |-> d], LAMBDA d : d \in sleds)

\* qRound of a distance in microns times SLED_CONVERSION, 12.8 for every slit.
Steps(micron) == (128 * micron + 5) \div 10
MAX_OPENING_MICRON == 30000

move_to(drv, micron) == Line("move_to", {drv}, Steps(micron))

HomingLines(tab) ==
  IF tab = "singular"
    THEN [i \in 1 .. Cardinality(checkBox) |-> Line("homing", {InOrder(checkBox)[i]}, 0)]
    ELSE <<Line("homing_mult", Sleds, 0)>>

\* Three octagons of four slits, each opened as far as the angle demands.
on_StartButton_1(first, spread) ==
  LET distance == <<first, first + spread, first + 3 * spread>>
  IN  [d \in 1 .. 12 |-> move_to(d, distance[(d + 3) \div 4])]

\* The slits at 45 degrees as far as they go, then the eight of the fields
\* AY, AX, BY, BX, CY, CX, DY and DX.
on_StartButton_2(micron) ==
  LET wide   == <<2, 4, 6, 8, 10, 12>>
      fields == <<1, 3, 5, 7, 10, 12, 13, 14>>
  IN  [i \in 1 .. 6 |-> move_to(wide[i], MAX_OPENING_MICRON)]
        \o [i \in 1 .. 8 |-> move_to(fields[i], micron)]

on_StartButton_3(micron) ==
  [i \in 1 .. Cardinality(checkBox) |-> move_to(InOrder(checkBox)[i], micron)]

StartLines(tab) ==
  CASE tab = "octagonal"  -> { on_StartButton_1(x, y) : x \in Distances, y \in Spreads }
    [] tab = "asymmetric" -> { on_StartButton_2(x) : x \in Distances }
    [] OTHER              -> { on_StartButton_3(x) : x \in Distances }

on_HomingButton(tab) == Asks(tab, "homing")
on_StartButton(tab)  == Asks(tab, "start")
HomingConfirmed(tab) == Confirmed(tab, "homing", HomingLines(tab))
StartConfirmed(tab)  == \E lines \in StartLines(tab) : Confirmed(tab, "start", lines)
NotConfirmed(tab)    == \E slot \in {"homing", "start"} : Refused(tab, slot)

------------------------------------------------------------------------------
(* The connection. *)

\* Two conversations with the server, each on a socket of its own.  The
\* second is held whatever the first was answered, for the test of status_1
\* is an assignment.  Both start with the server's welcome.  What the dialog
\* at the end says is left out.
AutomaticSetting(welcome_1, welcome_2, okay, link) ==
  /\ linked' = IF welcome_1 THEN link ELSE linked
  /\ loaded' = IF welcome_2 THEN okay ELSE loaded

on_actionConnect_triggered ==
  /\ Click
  /\ \E welcome_1, welcome_2, okay, link \in BOOLEAN :
       AutomaticSetting(up /\ welcome_1, up /\ welcome_2, okay, link)
  /\ IF up /\ socket = "closed"
       THEN socket' = "open" /\ stream' = SendBlock(<<>>, Other)
       ELSE UNCHANGED <<socket, stream>>
  /\ UNCHANGED <<display, enabled, lock, checkBox, modal, experts, up, verdict>>

------------------------------------------------------------------------------
(* The server: external but for what it reports of the slits.  What it     *)
(* finds of a slit may change at any time.                                 *)

Answers(text) ==
  /\ up /\ socket = "open" /\ Len(stream) + 2 <= 2 * MaxStream
  /\ stream' = SendBlock(stream, text)
  /\ UNCHANGED <<display, user, socket, server>>

\* The periodic check (CheckPositionEncoderToAll), which needs a table of
\* encoder values and a connection to the programmer.
Reports(drv) == linked /\ loaded /\ Answers([drv |-> drv, status |-> verdict[drv]])

\* The answer to get_all_parameter, with a connection and without.
Asked == written.slot = "update" /\ written.lines # <<>>

get_all_parameter(drv) ==
  Asked /\ Answers([drv |-> drv, status |-> IF linked THEN verdict[drv] ELSE -2])

Changes(drv, status) ==
  /\ verdict[drv] # status
  /\ verdict' = [verdict EXCEPT ![drv] = status]
  /\ UNCHANGED <<display, user, socket, stream, up, linked, loaded>>

\* Another client connects the programmer and loads the table, or fails to.
AnotherClient ==
  /\ up /\ linked' \in BOOLEAN /\ loaded' \in BOOLEAN
  /\ UNCHANGED <<display, user, socket, stream, up, verdict>>

ServerStops ==
  /\ up /\ up' = FALSE
  /\ linked' = FALSE /\ loaded' = FALSE
  /\ socket' = IF socket = "open" THEN "broken" ELSE socket
  /\ UNCHANGED <<display, user, stream, verdict>>

ServerStarts ==
  /\ ~up /\ up' = TRUE
  /\ UNCHANGED <<display, user, socket, stream, linked, loaded, verdict>>

Next ==
  \/ Read \/ error_tcp
  \/ \E t \in Tabs :
       \/ on_EnableUserGUI_Button(t) \/ EnableAccepted(t) \/ EnableRejected(t)
       \/ on_ExpertModeButton(t) \/ ExpertClosed(t)
       \/ on_EnableUpdateButton(t)
       \/ on_HomingButton(t) \/ on_StartButton(t)
       \/ HomingConfirmed(t) \/ StartConfirmed(t) \/ NotConfirmed(t)
  \/ on_checkBox_all_clicked \/ \E d \in Reported : on_checkBox(d)
  \/ on_actionConnect_triggered
  \/ \E d \in Reported :
       Reports(d) \/ get_all_parameter(d) \/ \E s \in Statuses : Changes(d, s)
  \/ Answers(Other) \/ AnotherClient \/ ServerStops \/ ServerStarts

Spec == Init /\ [][Next]_vars

\* The event loop goes on reading, also while a dialog is open, and again and
\* again finds all that was sent.  While the server has its connection and its
\* table it checks all slits every COUNTCHECK_LIMIT turns of its loop
\* (PositionsAreChecked of Dispatcher), and again and again it reports a slit
\* when the window has read everything: it waits SLEEPTCP after each answer.
Reading   == WF_vars(readTcpData(Len(stream)))
Reporting == \A d \in Reported : SF_vars(stream = <<>> /\ Reports(d))
FairSpec  == Spec /\ Reading /\ Reporting

------------------------------------------------------------------------------
(* Properties. *)

Texts == {Other} \cup [drv : Reported, status : Statuses \cup {-2}]
Colours == {"red", "yellow", "green"}

\* The variables hold what they are meant to hold (mainwindow.h).
TypeOK ==
  /\ led \in [Sleds -> Colours] /\ figure \in [Figures -> Colours]
  /\ prevalent_color \in [0 .. 13 -> Statuses \cup {-2}]
  /\ enabled \in [Tabs -> BOOLEAN] /\ lock \in [Tabs -> {"red", "green"}]
  /\ checkBox \subseteq Sleds
  /\ modal \in Seq([kind : {"user", "expert", "homing", "start"}, tab : Tabs])
  /\ experts \in BOOLEAN
  /\ socket \in {"closed", "open", "broken"}
  /\ stream \in Seq(Texts \cup {Padding}) /\ Len(stream) <= 2 * MaxStream
  /\ clicks \in 0 .. MaxClicks
  /\ up \in BOOLEAN /\ linked \in BOOLEAN /\ loaded \in BOOLEAN
  /\ verdict \in [Reported -> Statuses]

\* Nothing moves for a tab whose user is not logged in at the moment the
\* lines are written: the flag is read before the confirmation is shown and
\* used after it (on_StartButton, on_HomingButton), and stays true meanwhile
\* only because the confirmation is modal.
NothingMovesWithoutALogin ==
  [][ written'.slot \in {"homing", "start"} /\ written' # written
        => enabled[written'.tab] ]_vars

\* Who is logged in sees it: a tab that obeys its user shows a green lock.
\* The slot forgets the login before it shows the dialog, and gives it back
\* only when the dialog is accepted: the lock turns red after a wrong password
\* because by then the login is gone (on_EnableUserGUI_Button).
EnabledMeansGreen == \A t \in Tabs : enabled[t] => lock[t] = "green"

Named(drv) == { i \in DOMAIN written.lines : drv \in written.lines[i].drivers }
Moves(tab) == written.slot = "start" /\ written.tab = tab /\ written.lines # <<>>

\* While the connection lasts, and the server has its own and its table of
\* encoder values, the led of a slit comes to show what the server finds of
\* the slit, although answers read together are lost (OutputModule.cpp, send;
\* readTcpData, readAll).  Without a table, or without a connection to the
\* programmer, the server reports nothing and the led stays as it was.
LedsFollow ==
  \A d \in Reported, s \in Statuses :
    <>[](up /\ linked /\ loaded /\ socket = "open" /\ verdict[d] = s)
      => <>[](led[d] = Colour(s))

\* mainwindow.cpp:1279: a movement of the asymmetric tab opens the slits at 45
\* degrees and moves the other eight: each of the fourteen has its target.
AsymmetricMovesAllSleds ==
  Moves("asymmetric") => \A d \in Sleds : Cardinality(Named(d)) = 1
==============================================================================

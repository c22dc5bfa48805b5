--------------------------- MODULE ExpertGUIProofs ----------------------------
(***************************************************************************)
(* Proofs about the window of the expert and the watchdog, for any number  *)
(* of processes, clients, drivers, checks and clicks: no connection is     *)
(* shown that is over, a server said to be killed is gone, and the         *)
(* variables stay within their types and bounds.                           *)
(***************************************************************************)
EXTENDS ExpertGUI, FiniteSetTheorems, TLAPS

------------------------------------------------------------------------------
(* What the steps of the watchdog (module CheckExistence) keep true.       *)

Orders == {"check_process", "kill_process", "new_process"}

States == {"none", "forked", "started", "listening", "deaf", "killed",
           "zombie", "gone", "copy", "stuck"}

Errands == [at : {"idle", "check_process", "kill_process", "new_process", "waitpid"},
            pid : {0} \cup Pids]

\* The port belongs to a process that lives.
PortIsAlive == port \in Pids => process[port] \in {"listening", "killed"}

\* A loop waits for a process there is.
WaitsForAProcess ==
  \A w \in Loops : doing[w].at = "waitpid" =>
    doing[w].pid \in Pids /\ process[doing[w].pid] # "none"

\* Of a process said to be killed nothing is left, if it was a child.
KilledIsGone ==
  answer.text = "killed" =>
    /\ answer.pid \in Pids /\ process[answer.pid] # "none"
    /\ parent[answer.pid] = answer.by => process[answer.pid] = "gone"

WInv == WatchdogTypeOK /\ PortIsAlive /\ WaitsForAProcess /\ KilledIsGone

\* A process is none of the two values that stand for a port without one.
LEMMA Numbers == Nobody \notin Pids /\ Lingering \notin Pids /\ 0 \notin Pids
BY PidAssumption DEF Nobody, Lingering

\* What there is at the start.
LEMMA WatchdogStart == WatchdogInit => WInv
<1> SUFFICES ASSUME WatchdogInit PROVE WInv
  OBVIOUS
<1>1. WatchdogTypeOK
  <2>1. command \in [Loops -> Seq(Orders)]
    BY DEF WatchdogInit
  <2>2. doing \in [Loops -> Errands] /\ process \in [Pids -> States]
    BY DEF WatchdogInit, Idle, Errands, States
  <2>3. parent \in [Pids -> Loops \cup {Nobody}] /\ port \in Pids \cup {Nobody, Lingering}
    BY DEF WatchdogInit
  <2>4. connected \subseteq Clients /\ requests \in 0 .. MaxRequests
    BY PidAssumption DEF WatchdogInit
  <2> QED BY <2>1, <2>2, <2>3, <2>4 DEF WatchdogTypeOK, Orders, Errands, States
<1>2. PortIsAlive
  BY Numbers DEF WatchdogInit, PortIsAlive
<1>3. WaitsForAProcess
  BY DEF WatchdogInit, WaitsForAProcess, Idle
<1>4. KilledIsGone
  BY DEF WatchdogInit, KilledIsGone, Said
<1> QED BY <1>1, <1>2, <1>3, <1>4 DEF WInv

LEMMA WatchdogSame ==
  ASSUME WInv, UNCHANGED watchdog
  PROVE  WInv'
BY DEF WInv, watchdog, WatchdogTypeOK, PortIsAlive, WaitsForAProcess, KilledIsGone

------------------------------------------------------------------------------
(* The loop. *)

\* A line that is sent waits its turn.
LEMMA SentStep ==
  ASSUME WInv, NEW line \in Orders, Sent(line), connected' \subseteq Clients,
         UNCHANGED <<doing, process, parent, port, answer>>
  PROVE  WInv'
<1>1. command' \in [Loops -> Seq(Orders)]
  <2>1. command \in [Loops -> Seq(Orders)]
    BY DEF WInv, WatchdogTypeOK, Orders
  <2>2. Watchdog \in Loops
    BY DEF Loops
  <2>3. Append(command[Watchdog], line) \in Seq(Orders)
    BY <2>1, <2>2
  <2> QED BY <2>1, <2>3 DEF Sent
<1>2. requests' \in 0 .. MaxRequests
  BY PidAssumption DEF WInv, WatchdogTypeOK, Sent
<1>3. WatchdogTypeOK'
  BY <1>1, <1>2 DEF WInv, WatchdogTypeOK, Orders
<1> QED BY <1>3 DEF WInv, PortIsAlive, WaitsForAProcess, KilledIsGone

\* A line that is taken is one that was sent.
LEMMA GetCommandStep ==
  ASSUME WInv, NEW w \in Loops, GetCommand(w)
  PROVE  WInv'
<1>1. command \in [Loops -> Seq(Orders)] /\ command[w] # <<>>
  BY DEF WInv, WatchdogTypeOK, Orders, GetCommand
<1>2. Head(command[w]) \in Orders /\ Tail(command[w]) \in Seq(Orders)
  BY <1>1
<1>3. command' \in [Loops -> Seq(Orders)]
  BY <1>1, <1>2 DEF GetCommand
<1>4. [at |-> Head(command[w]), pid |-> 0] \in Errands
  BY <1>2 DEF Orders, Errands
<1>5. doing' = [doing EXCEPT ![w] = [at |-> Head(command[w]), pid |-> 0]]
  BY DEF GetCommand
<1>6. doing \in [Loops -> Errands]
  BY DEF WInv, WatchdogTypeOK, Errands
<1>7. doing' \in [Loops -> Errands]
  BY <1>4, <1>5, <1>6
<1>8. WatchdogTypeOK'
  BY <1>3, <1>7 DEF GetCommand, WInv, WatchdogTypeOK, Orders, Errands
<1>9. WaitsForAProcess'
  <2> SUFFICES ASSUME NEW v \in Loops, doing'[v].at = "waitpid"
               PROVE  doing'[v].pid \in Pids /\ process'[doing'[v].pid] # "none"
    BY DEF WaitsForAProcess
  <2>1. v # w
    <3>1. doing'[w].at = Head(command[w])
      BY <1>5, <1>6
    <3> QED BY <3>1, <1>2 DEF Orders
  <2>2. doing'[v] = doing[v]
    BY <2>1, <1>5, <1>6
  <2> QED BY <2>2 DEF WInv, WaitsForAProcess, GetCommand
<1> QED BY <1>8, <1>9 DEF GetCommand, WInv, PortIsAlive, KilledIsGone

\* The end of a line that leaves the processes alone and kills nothing.
LEMMA EndsStep ==
  ASSUME WInv, NEW w \in Loops, NEW text, text # "killed", NEW pid,
         Ends(w, text, pid), UNCHANGED <<command, process, parent, port, connected, requests>>
  PROVE  WInv'
<1>1. doing \in [Loops -> Errands]
  BY DEF WInv, WatchdogTypeOK, Errands
<1>2. doing' = [doing EXCEPT ![w] = Idle]
  BY DEF Ends
<1>3. Idle \in Errands
  BY DEF Idle, Errands
<1>4. WatchdogTypeOK'
  BY <1>1, <1>2, <1>3 DEF WInv, WatchdogTypeOK, Errands
<1>5. WaitsForAProcess'
  BY <1>1, <1>2 DEF WInv, WaitsForAProcess, Idle
<1>6. KilledIsGone'
  BY DEF Ends, Said, KilledIsGone
<1> QED BY <1>4, <1>5, <1>6 DEF WInv, PortIsAlive

\* What becomes of one process, as long as the port, the children and the
\* answer are left alone: it does not come to be "none" again, it does not
\* leave the port without a living process, and what is gone stays gone.
LEMMA ProcessStep ==
  ASSUME WInv, NEW p \in Pids, NEW s \in States,
         process' = [process EXCEPT ![p] = s],
         s # "none", process[p] # "gone",
         port = p => s \in {"listening", "killed"},
         UNCHANGED <<doing, parent, port>>,
         UNCHANGED answer \/ answer'.text # "killed"
  PROVE  /\ process' \in [Pids -> States]
         /\ PortIsAlive' /\ WaitsForAProcess' /\ KilledIsGone'
<1>1. process \in [Pids -> States]
  BY DEF WInv, WatchdogTypeOK, States
<1>2. process' \in [Pids -> States] /\ process'[p] = s
  BY <1>1
<1>3. \A q \in Pids : q # p => process'[q] = process[q]
  BY <1>1
<1>4. PortIsAlive'
  BY <1>2, <1>3 DEF WInv, PortIsAlive
<1>5. WaitsForAProcess'
  BY <1>2, <1>3 DEF WInv, WaitsForAProcess
<1>6. KilledIsGone'
  BY <1>2, <1>3 DEF WInv, KilledIsGone
<1> QED BY <1>2, <1>4, <1>5, <1>6

LEMMA CheckStep ==
  ASSUME WInv, NEW w \in Loops, check_process(w)
  PROVE  WInv'
<1>1. PICK text \in {"running", "not running"} : Ends(w, text, 0)
  BY DEF check_process
<1> QED BY <1>1, EndsStep DEF check_process

\* A process that is sent a signal keeps its port until it dies.
LEMMA KillStep ==
  ASSUME WInv, NEW w \in Loops, kill_process(w)
  PROVE  WInv'
<1>1. CASE Pidof = {} /\ Ends(w, "not running", 0) /\ UNCHANGED process
  BY <1>1, EndsStep DEF kill_process
<1>2. ASSUME NEW p \in Pidof,
             process' = [process EXCEPT ![p] = "killed"],
             doing' = [doing EXCEPT ![w] = [at |-> "waitpid", pid |-> p]],
             answer' = Said(w, "killing", p)
      PROVE  WInv'
  <2>1. p \in Pids /\ process[p] \in {"started", "listening", "deaf", "killed"}
    BY DEF Pidof
  <2>2. UNCHANGED <<command, parent, port, connected, requests>>
    BY DEF kill_process
  <2>3. process \in [Pids -> States] /\ doing \in [Loops -> Errands]
    BY DEF WInv, WatchdogTypeOK, States, Errands
  <2>4. [at |-> "waitpid", pid |-> p] \in Errands
    BY <2>1 DEF Errands
  <2>5. process' \in [Pids -> States] /\ doing' \in [Loops -> Errands]
    BY <1>2, <2>3, <2>4 DEF States
  <2>6. WatchdogTypeOK'
    BY <2>2, <2>5 DEF WInv, WatchdogTypeOK, States, Errands
  <2>7. \A q \in Pids : process'[q] = IF q = p THEN "killed" ELSE process[q]
    BY <1>2, <2>3
  <2>8. PortIsAlive'
    BY <2>2, <2>7 DEF WInv, PortIsAlive
  <2>9. WaitsForAProcess'
    <3>1. \A v \in Loops : doing'[v] = IF v = w THEN [at |-> "waitpid", pid |-> p] ELSE doing[v]
      BY <1>2, <2>3
    <3> QED BY <2>1, <2>7, <3>1 DEF WInv, WaitsForAProcess
  <2>10. KilledIsGone'
    BY <1>2 DEF KilledIsGone, Said
  <2> QED BY <2>6, <2>8, <2>9, <2>10 DEF WInv
<1> QED BY <1>1, <1>2 DEF kill_process

\* The child that has been waited for is a zombie, and is taken away.
LEMMA WaitStep ==
  ASSUME WInv, NEW w \in Loops, waitpid(w)
  PROVE  WInv'
<1> DEFINE p == doing[w].pid
           s == IF parent[p] = w /\ process[p] = "zombie" THEN "gone" ELSE process[p]
<1>1. p \in Pids /\ process[p] # "none" /\ (parent[p] # w \/ process[p] = "zombie")
  BY DEF waitpid, Waited, WInv, WaitsForAProcess
<1>2. /\ process' = [process EXCEPT ![p] = s]
      /\ doing' = [doing EXCEPT ![w] = Idle] /\ answer' = Said(w, "killed", p)
      /\ UNCHANGED <<command, parent, port, connected, requests>>
  BY DEF waitpid, Ends
<1>3. process \in [Pids -> States] /\ doing \in [Loops -> Errands]
  BY DEF WInv, WatchdogTypeOK, States, Errands
<1>4. s \in States /\ s # "none"
  BY <1>1, <1>3 DEF States
<1>5. \A q \in Pids : process'[q] = IF q = p THEN s ELSE process[q]
  BY <1>1, <1>2, <1>3
<1>6. process' \in [Pids -> States] /\ doing' \in [Loops -> Errands]
  BY <1>2, <1>3, <1>4 DEF Idle, Errands
<1>7. WatchdogTypeOK'
  BY <1>2, <1>6 DEF WInv, WatchdogTypeOK, States, Errands
<1>8. PortIsAlive'
  BY <1>2, <1>5 DEF WInv, PortIsAlive
<1>9. WaitsForAProcess'
  <2>1. \A v \in Loops : doing'[v] = IF v = w THEN Idle ELSE doing[v]
    BY <1>2, <1>3
  <2> QED BY <1>4, <1>5, <2>1 DEF WInv, WaitsForAProcess, Idle
<1>10. KilledIsGone'
  <2>1. answer'.pid = p /\ answer'.by = w /\ parent' = parent /\ process'[p] = s
    BY <1>1, <1>2, <1>5 DEF Said
  <2> QED BY <1>1, <1>4, <2>1 DEF KilledIsGone
<1> QED BY <1>7, <1>8, <1>9, <1>10 DEF WInv

\* A new process is nobody's answer yet.
LEMMA NewStep ==
  ASSUME WInv, NEW w \in Loops, new_process(w)
  PROVE  WInv'
<1>1. CASE \E text \in {"already running", "created"} :
             Ends(w, text, 0) /\ UNCHANGED <<command, process, parent>>
  BY <1>1, EndsStep DEF new_process
<1>2. ASSUME NEW p \in Unused,
             Ends(w, "created", 0), process' = [process EXCEPT ![p] = "forked"],
             parent' = [parent EXCEPT ![p] = w],
             command' = [command EXCEPT ![p] = command[w]]
      PROVE  WInv'
  <2>1. p \in Pids /\ process[p] = "none" /\ p \in Loops
    BY DEF Unused, Loops
  <2>2. UNCHANGED <<port, connected, requests>>
    BY DEF new_process
  <2>3. /\ process \in [Pids -> States] /\ doing \in [Loops -> Errands]
        /\ parent \in [Pids -> Loops \cup {Nobody}] /\ command \in [Loops -> Seq(Orders)]
    BY DEF WInv, WatchdogTypeOK, States, Errands, Orders
  <2>4. doing' = [doing EXCEPT ![w] = Idle] /\ answer' = Said(w, "created", 0)
    BY <1>2 DEF Ends
  <2>5. /\ process' \in [Pids -> States] /\ parent' \in [Pids -> Loops \cup {Nobody}]
    BY <1>2, <2>1, <2>3 DEF States
  <2>6. doing' \in [Loops -> Errands]
    BY <2>3, <2>4 DEF Idle, Errands
  <2>7. command' \in [Loops -> Seq(Orders)]
    BY <1>2, <2>1, <2>3
  <2>8. WatchdogTypeOK'
    BY <2>2, <2>5, <2>6, <2>7 DEF WInv, WatchdogTypeOK, States, Errands, Orders
  <2>9. \A q \in Pids : process'[q] = IF q = p THEN "forked" ELSE process[q]
    BY <1>2, <2>3
  <2>10. PortIsAlive'
    BY <2>1, <2>2, <2>9 DEF WInv, PortIsAlive
  <2>11. WaitsForAProcess'
    <3>1. \A v \in Loops : doing'[v] = IF v = w THEN Idle ELSE doing[v]
      BY <2>3, <2>4
    <3> QED BY <2>9, <3>1 DEF WInv, WaitsForAProcess, Idle
  <2>12. KilledIsGone'
    BY <2>4 DEF KilledIsGone, Said
  <2> QED BY <2>8, <2>10, <2>11, <2>12 DEF WInv
<1> QED BY <1>1, <1>2 DEF new_process

LEMMA LoopStep ==
  ASSUME WInv, NEW w \in Loops, Loop(w)
  PROVE  WInv'
BY GetCommandStep, CheckStep, KillStep, WaitStep, NewStep DEF Loop

------------------------------------------------------------------------------
(* The processes and their port. *)

LEMMA ExeclStep ==
  ASSUME WInv, NEW p \in Pids, execl(p)
  PROVE  WInv'
<1>1. process[p] = "forked" /\ UNCHANGED <<doing, parent, port, connected, requests>>
  BY DEF execl
<1>2. port # p
  BY <1>1 DEF WInv, PortIsAlive
<1>3. PICK s \in {"started", "copy", "stuck"} : process' = [process EXCEPT ![p] = s]
  BY DEF execl
<1>4. s \in States /\ s # "none" /\ process[p] # "gone"
  BY <1>1, <1>3 DEF States
<1>5. UNCHANGED answer \/ answer'.text # "killed"
  BY DEF execl, Said
<1>6. /\ process' \in [Pids -> States]
      /\ PortIsAlive' /\ WaitsForAProcess' /\ KilledIsGone'
  BY <1>1, <1>2, <1>3, <1>4, <1>5, ProcessStep
<1>7. command' \in [Loops -> Seq(Orders)]
  <2>1. command \in [Loops -> Seq(Orders)]
    BY DEF WInv, WatchdogTypeOK, Orders
  <2>2. command' = command \/ command' = [command EXCEPT ![p] = <<>>]
    BY DEF execl
  <2>3. <<>> \in Seq(Orders)
    OBVIOUS
  <2> QED BY <2>1, <2>2, <2>3
<1>8. WatchdogTypeOK'
  BY <1>1, <1>6, <1>7 DEF WInv, WatchdogTypeOK, States, Orders
<1> QED BY <1>6, <1>8 DEF WInv

LEMMA StartsStep ==
  ASSUME WInv, NEW p \in Pids, Starts(p)
  PROVE  WInv'
<1>1. /\ process[p] = "none" /\ process' = [process EXCEPT ![p] = "started"]
      /\ UNCHANGED <<command, doing, parent, port, connected, answer, requests>>
  BY DEF Starts, Unused
<1>2. port # p
  BY <1>1 DEF WInv, PortIsAlive
<1>3. /\ process' \in [Pids -> States]
      /\ PortIsAlive' /\ WaitsForAProcess' /\ KilledIsGone'
  BY <1>1, <1>2, ProcessStep DEF States
<1>4. WatchdogTypeOK'
  BY <1>1, <1>3 DEF WInv, WatchdogTypeOK, States
<1> QED BY <1>3, <1>4 DEF WInv

\* The port goes to a process that starts to listen on it.
LEMMA BindsStep ==
  ASSUME WInv, NEW p \in Pids, Binds(p)
  PROVE  WInv'
<1>1. /\ process[p] = "started"
      /\ UNCHANGED <<command, doing, parent, connected, answer, requests>>
  BY DEF Binds
<1>2. process \in [Pids -> States]
  BY DEF WInv, WatchdogTypeOK, States
<1>3. CASE port = Nobody
  <2>1. port' = p /\ process' = [process EXCEPT ![p] = "listening"]
    BY <1>3 DEF Binds
  <2>2. \A q \in Pids : process'[q] = IF q = p THEN "listening" ELSE process[q]
    BY <1>2, <2>1
  <2>3. process' \in [Pids -> States] /\ port' \in Pids
    BY <1>2, <2>1 DEF States
  <2>4. WatchdogTypeOK'
    BY <1>1, <2>3 DEF WInv, WatchdogTypeOK, States
  <2>5. PortIsAlive'
    BY <2>1, <2>2 DEF PortIsAlive
  <2>6. WaitsForAProcess' /\ KilledIsGone'
    BY <1>1, <2>2 DEF WInv, WaitsForAProcess, KilledIsGone
  <2> QED BY <2>4, <2>5, <2>6 DEF WInv
<1>4. CASE port # Nobody
  <2>1. port' = port /\ process' = [process EXCEPT ![p] = "deaf"]
    BY <1>4 DEF Binds
  <2>2. port # p
    BY <1>1 DEF WInv, PortIsAlive
  <2>3. /\ process' \in [Pids -> States]
        /\ PortIsAlive' /\ WaitsForAProcess' /\ KilledIsGone'
    BY <1>1, <2>1, <2>2, ProcessStep DEF States
  <2>4. WatchdogTypeOK'
    BY <1>1, <2>1, <2>3 DEF WInv, WatchdogTypeOK, States
  <2> QED BY <2>3, <2>4 DEF WInv
<1> QED BY <1>3, <1>4

\* A process that ends gives its port back, at once or after TIME_WAIT.
LEMMA DiesStep ==
  ASSUME WInv, NEW p \in Pids, Dies(p)
  PROVE  WInv'
<1> DEFINE s == IF parent[p] # Nobody THEN "zombie" ELSE "gone"
<1>1. /\ process[p] \in {"killed", "started", "listening", "deaf"}
      /\ process' = [process EXCEPT ![p] = s]
      /\ UNCHANGED <<command, doing, parent, answer, requests>>
  BY DEF Dies
<1>2. process \in [Pids -> States] /\ s \in {"zombie", "gone"}
  BY DEF WInv, WatchdogTypeOK, States
<1>3. \A q \in Pids : process'[q] = IF q = p THEN s ELSE process[q]
  BY <1>1, <1>2
<1>4. /\ port' # p /\ (port' \in Pids => port' = port)
      /\ port' \in Pids \cup {Nobody, Lingering} /\ connected' \subseteq Clients
  BY Numbers DEF Dies, WInv, WatchdogTypeOK
<1>5. process' \in [Pids -> States]
  BY <1>1, <1>2 DEF States
<1>6. WatchdogTypeOK'
  BY <1>1, <1>4, <1>5 DEF WInv, WatchdogTypeOK, States
<1>7. PortIsAlive'
  BY <1>3, <1>4 DEF WInv, PortIsAlive
<1>8. WaitsForAProcess'
  BY <1>1, <1>2, <1>3 DEF WInv, WaitsForAProcess
<1>9. KilledIsGone'
  BY <1>1, <1>2, <1>3 DEF WInv, KilledIsGone
<1> QED BY <1>6, <1>7, <1>8, <1>9 DEF WInv

LEMMA LingeringStep ==
  ASSUME WInv, LingeringEnds
  PROVE  WInv'
BY Numbers
   DEF LingeringEnds, WInv, WatchdogTypeOK, PortIsAlive, WaitsForAProcess, KilledIsGone

LEMMA ConnectionStep ==
  ASSUME WInv, NEW c \in Clients, Accepts(c) \/ Leaves(c)
  PROVE  WInv'
BY DEF Accepts, Leaves, WInv, WatchdogTypeOK, PortIsAlive, WaitsForAProcess, KilledIsGone

------------------------------------------------------------------------------
(* What is shown of the connection.  The label is set by a text that is    *)
(* read, so nothing may be left to read of a connection that is over.      *)

Shown ==
  /\ label_status \in [1 .. 3 -> BOOLEAN]
  /\ label_status[2] \/ stream # <<>> => socket # "closed"

LEMMA ShownStart == Init => Shown
BY DEF Init, Shown

LEMMA ShownSame ==
  ASSUME Shown, UNCHANGED <<label_status, socket, stream>>
  PROVE  Shown'
BY DEF Shown

\* While there is a connection anything may be shown.
LEMMA ShownOpen ==
  ASSUME label_status' \in [1 .. 3 -> BOOLEAN], socket' # "closed"
  PROVE  Shown'
BY DEF Shown

\* A connection that ends takes its label and its unread texts with it.
LEMMA ShownEnd ==
  ASSUME Shown, Unlabelled(2), Disconnected
  PROVE  Shown'
<1>1. label_status' = [label_status EXCEPT ![2] = FALSE] /\ stream' = <<>>
  BY DEF Unlabelled, Labelled, Disconnected
<1>2. label_status' \in [1 .. 3 -> BOOLEAN] /\ ~label_status'[2]
  BY <1>1 DEF Shown
<1> QED BY <1>1, <1>2 DEF Shown

\* A text changes the labels of the connections only to other labels.
LEMMA ShowStep ==
  ASSUME Shown, NEW text, Show(text)
  PROVE  label_status' \in [1 .. 3 -> BOOLEAN]
<1>1. CASE UNCHANGED label_status
  BY <1>1 DEF Shown
<1>2. CASE Labelled(2, TRUE) \/ Labelled(3, TRUE)
  BY <1>2 DEF Labelled, Shown
<1>3. UNCHANGED label_status \/ Labelled(2, TRUE) \/ Labelled(3, TRUE)
  BY DEF Show, ShowConnect, ShowWelcome, ShowPosition, ShowInternal, ShowParameter,
       ShowMovement, ShowNothing
<1> QED BY <1>1, <1>2, <1>3

\* There is only something to read while there is a connection.
LEMMA ReadStep ==
  ASSUME Shown, Read
  PROVE  Shown'
<1>1. PICK k \in 1 .. Len(stream) : readTcpData(k)
  BY DEF Read
<1>2. stream # <<>>
  BY <1>1
<1>3. socket' # "closed"
  BY <1>1, <1>2 DEF readTcpData, Shown
<1>4. label_status' \in [1 .. 3 -> BOOLEAN]
  <2>1. CASE UNCHANGED label_status
    BY <2>1 DEF Shown
  <2>2. ASSUME NEW text, Show(text) PROVE label_status' \in [1 .. 3 -> BOOLEAN]
    BY <2>2, ShowStep
  <2>3. UNCHANGED label_status \/ \E text : Show(text)
    BY <1>1 DEF readTcpData, labels, ShowNothing
  <2> QED BY <2>1, <2>2, <2>3
<1> QED BY <1>3, <1>4, ShownOpen

\* The buttons that write a line.
LEMMA WriteSame ==
  ASSUME NEW line, Write(line)
  PROVE  UNCHANGED <<label_status, socket, stream, watchdog>>
BY DEF Write, labels, wires

Writings ==
  \/ on_CommandStringButton \/ on_ConnectProgrammer
  \/ \E k \in Checks : on_CheckAssoc(k)
  \/ on_ReadLog \/ on_CheckInternalStatus
  \/ on_LoadEncoderFromFileButton \/ on_ReadActualEncoderValue
  \/ on_DeviceListButton \/ on_GetAllParameter \/ on_Homing_all
  \/ \E d \in Reported :
       \/ on_GetParameterDriver(d) \/ on_GetParameterMov(d) \/ on_CheckPositionButton(d)
       \/ on_Homing(d) \/ on_MoveTo(d) \/ on_SetParameterDriver(d)

LEMMA WritingsSame ==
  ASSUME Writings
  PROVE  UNCHANGED <<label_status, socket, stream, watchdog>>
<1>1. PICK line : Write(line)
  BY DEF Writings, on_CommandStringButton, on_ConnectProgrammer, on_CheckAssoc, on_ReadLog,
       on_CheckInternalStatus, on_LoadEncoderFromFileButton, on_ReadActualEncoderValue,
       on_DeviceListButton, on_GetAllParameter, on_Homing_all, on_GetParameterDriver,
       on_GetParameterMov, on_CheckPositionButton, on_Homing, on_MoveTo,
       on_SetParameterDriver
<1> QED BY <1>1, WriteSame

\* What goes on without the connection or the watchdog.
Dialogs ==
  \/ Arrives \/ (\E accepted \in BOOLEAN : Answered(accepted)) \/ Warned
  \/ (\E d \in Reported : Types(d)) \/ on_checkBox_all \/ on_MoveTo_all
  \/ on_SetParameterDriver_all \/ \E agreed \in BOOLEAN : Confirmed(agreed)

LEMMA DialogsSame ==
  ASSUME Dialogs
  PROVE  UNCHANGED <<label_status, socket, stream, watchdog>>
<1>1. CASE Arrives
  BY <1>1 DEF Arrives, window, labels
<1>2. CASE \E accepted \in BOOLEAN : Answered(accepted)
  BY <1>2 DEF Answered, ShowNothing, wires
<1>3. CASE Warned
  BY <1>3 DEF Warned, ShowNothing, wires
<1>4. CASE \E d \in Reported : Types(d)
  BY <1>4 DEF Types, wires
<1>5. CASE on_checkBox_all \/ on_MoveTo_all \/ on_SetParameterDriver_all
  BY <1>5 DEF on_checkBox_all, on_MoveTo_all, on_SetParameterDriver_all, Confirms, labels, wires
<1>6. CASE \E agreed \in BOOLEAN : Confirmed(agreed)
  BY <1>6 DEF Confirmed, labels, wires
<1> QED BY <1>1, <1>2, <1>3, <1>4, <1>5, <1>6 DEF Dialogs

\* The server, while it answers.
ServerSteps ==
  \/ ServerTakes \/ ServerHears \/ ServerGivesUp \/ AnotherAnswers \/ ServerSends
  \/ \E d \in Reported : Reports(d)
  \/ AnotherClient

LEMMA ServerKeepsWatchdog ==
  ASSUME ServerSteps
  PROVE  UNCHANGED watchdog
BY DEF ServerSteps, ServerTakes, ServerHears, ServerGivesUp, AnotherAnswers, ServerSends,
     Reports, AnotherClient, QuestionEnds

LEMMA ServerStep ==
  ASSUME Shown, ServerSteps
  PROVE  Shown'
<1>1. CASE ServerTakes \/ ServerHears \/ ServerGivesUp \/ AnotherAnswers
  <2>1. UNCHANGED <<label_status, socket, stream>>
    BY <1>1 DEF ServerTakes, ServerHears, ServerGivesUp, AnotherAnswers, QuestionEnds,
         window, labels, wires
  <2> QED BY <2>1, ShownSame
<1>2. CASE ServerSends \/ \E d \in Reported : Reports(d)
  <2>1. socket' # "closed" /\ UNCHANGED label_status
    BY <1>2 DEF ServerSends, Reports, window, labels
  <2> QED BY <2>1, ShownOpen DEF Shown
<1>3. CASE AnotherClient
  BY <1>3, ShownSame DEF AnotherClient, window, labels, wires
<1> QED BY <1>1, <1>2, <1>3 DEF ServerSteps

\* The connection with the watchdog has a label of its own.
LEMMA ExistenceStep ==
  ASSUME Shown,
         \/ Errore_existence \/ on_ConnectExistence \/ on_DisconnectExistence
         \/ \E line : ToWatchdog(line)
  PROVE  Shown'
<1>1. UNCHANGED <<socket, stream>>
  BY DEF Errore_existence, on_ConnectExistence, on_DisconnectExistence, ToWatchdog, wires
<1>2. \/ UNCHANGED label_status
      \/ \E okay \in BOOLEAN : label_status' = [label_status EXCEPT ![1] = okay]
  BY DEF Errore_existence, on_ConnectExistence, on_DisconnectExistence, ToWatchdog, Unlabelled,
       Labelled, labels
<1>3. CASE UNCHANGED label_status
  BY <1>1, <1>3, ShownSame
<1>4. ASSUME NEW okay \in BOOLEAN, label_status' = [label_status EXCEPT ![1] = okay]
      PROVE  Shown'
  <2>1. label_status' \in [1 .. 3 -> BOOLEAN] /\ label_status'[2] = label_status[2]
    BY <1>4 DEF Shown
  <2> QED BY <1>1, <2>1 DEF Shown
<1> QED BY <1>2, <1>3, <1>4

\* The connection with the server is made, left, or lost.
ConnectionSteps ==
  \/ Errore \/ on_ConnectToServerButton \/ on_DisconnectToServerButton
  \/ on_KillProcess_CollSoft \/ \E p \in Pids : ServerDies(p)

LEMMA ConnectionShown ==
  ASSUME Shown, ConnectionSteps
  PROVE  Shown'
<1>1. CASE Errore \/ on_DisconnectToServerButton \/ on_KillProcess_CollSoft
  <2>1. Unlabelled(2) /\ Disconnected
    BY <1>1 DEF Errore, on_DisconnectToServerButton, on_KillProcess_CollSoft
  <2> QED BY <2>1, ShownEnd
<1>2. CASE on_ConnectToServerButton
  <2>1. CASE socket # "closed"
    <3>1. UNCHANGED <<label_status, socket, stream>>
      BY <1>2, <2>1 DEF on_ConnectToServerButton, labels, wires
    <3> QED BY <3>1, ShownSame
  <2>2. CASE socket = "closed" /\ port \in Pids
    <3>1. socket' = "open" /\ UNCHANGED label_status
      BY <1>2, <2>2 DEF on_ConnectToServerButton, labels
    <3> QED BY <3>1, ShownOpen DEF Shown
  <2>3. CASE socket = "closed" /\ port \notin Pids
    <3>1. /\ label_status' = [label_status EXCEPT ![2] = FALSE]
          /\ UNCHANGED <<socket, stream>>
      BY <1>2, <2>3 DEF on_ConnectToServerButton, Unlabelled, Labelled, wires
    <3>2. label_status' \in [1 .. 3 -> BOOLEAN] /\ ~label_status'[2]
      BY <3>1 DEF Shown
    <3> QED BY <3>1, <3>2 DEF Shown
  <2> QED BY <2>1, <2>2, <2>3
<1>3. ASSUME NEW p \in Pids, ServerDies(p) PROVE Shown'
  <2>1. /\ UNCHANGED <<label_status, stream>>
        /\ socket' = "closed" => socket = "closed"
    BY <1>3 DEF ServerDies, window, labels
  <2> QED BY <2>1 DEF Shown
<1> QED BY <1>1, <1>2, <1>3 DEF ConnectionSteps

LEMMA OthersShown ==
  ASSUME Shown, Others
  PROVE  Shown'
BY ShownSame DEF Others, window, labels, wires

\* What a step can be.
LEMMA Steps ==
  ASSUME [Next]_vars
  PROVE  \/ Read \/ Dialogs \/ Writings \/ ServerSteps
         \/ Errore_existence \/ on_ConnectExistence \/ on_DisconnectExistence
         \/ ToWatchdog("check_process") \/ ToWatchdog("new_process")
         \/ ConnectionSteps \/ Others \/ UNCHANGED vars
<1>1. CASE UNCHANGED vars
  BY <1>1
<1>2. CASE Next
  BY <1>2 DEF Next, Dialogs, Writings, ServerSteps, ConnectionSteps
<1> QED BY <1>1, <1>2

LEMMA ShownStep ==
  ASSUME Shown, [Next]_vars
  PROVE  Shown'
<1>1. CASE Read
  BY <1>1, ReadStep
<1>2. CASE Dialogs
  BY <1>2, DialogsSame, ShownSame
<1>3. CASE Writings
  BY <1>3, WritingsSame, ShownSame
<1>4. CASE ServerSteps
  BY <1>4, ServerStep
<1>5. CASE \/ Errore_existence \/ on_ConnectExistence \/ on_DisconnectExistence
           \/ ToWatchdog("check_process") \/ ToWatchdog("new_process")
  BY <1>5, ExistenceStep
<1>6. CASE ConnectionSteps
  BY <1>6, ConnectionShown
<1>7. CASE Others
  BY <1>7, OthersShown
<1>8. CASE UNCHANGED vars
  BY <1>8, ShownSame DEF vars, window, labels, wires
<1> QED BY <1>1, <1>2, <1>3, <1>4, <1>5, <1>6, <1>7, <1>8, Steps

\* The server is only shown as connected while there is a connection, or one
\* whose end the window cannot have noticed (readTcpData, Errore).
THEOREM NoStaleWelcome == Spec => []WelcomeMeansConnection
<1>1. Shown => WelcomeMeansConnection
  BY DEF Shown, WelcomeMeansConnection
<1> QED BY <1>1, ShownStart, ShownStep, PTL DEF Spec

------------------------------------------------------------------------------
(* What is said of the server.                                             *)

\* The steps of the window that the watchdog, or the server as a process, has
\* a part in.
LEMMA ExistenceSent ==
  ASSUME WInv,
         \/ Errore_existence \/ on_ConnectExistence \/ on_DisconnectExistence
         \/ ToWatchdog("check_process") \/ ToWatchdog("new_process")
  PROVE  WInv'
<1>1. CASE Errore_existence \/ on_ConnectExistence \/ on_DisconnectExistence
  BY <1>1, WatchdogSame DEF Errore_existence, on_ConnectExistence, on_DisconnectExistence
<1>2. ASSUME NEW line \in Orders, ToWatchdog(line) PROVE WInv'
  <2>1. CASE UNCHANGED watchdog
    BY <2>1, WatchdogSame
  <2>2. CASE Requests(line)
    <3>1. connected' \subseteq Clients
      BY <2>2 DEF Requests, WInv, WatchdogTypeOK
    <3> QED BY <2>2, <3>1, SentStep DEF Requests
  <2> QED BY <1>2, <2>1, <2>2 DEF ToWatchdog
<1> QED BY <1>1, <1>2 DEF Orders

LEMMA ConnectionsKept ==
  ASSUME WInv, ConnectionSteps
  PROVE  WInv'
<1>1. Window \in Clients
  BY WindowAssumption
<1>2. CASE Errore
  BY <1>2, WatchdogSame DEF Errore
<1>3. CASE on_ConnectToServerButton
  <2>1. UNCHANGED watchdog \/ Accepts(Window)
    BY <1>3 DEF on_ConnectToServerButton
  <2> QED BY <1>1, <2>1, WatchdogSame, ConnectionStep
<1>4. CASE on_DisconnectToServerButton
  BY <1>1, <1>4, ConnectionStep DEF on_DisconnectToServerButton
<1>5. CASE on_KillProcess_CollSoft
  <2>1. CASE Leaves(Window)
    BY <1>1, <2>1, ConnectionStep
  <2>2. CASE RequestsAndLeaves("kill_process", Window)
    <3>1. connected' \subseteq Clients /\ "kill_process" \in Orders
      BY <2>2 DEF RequestsAndLeaves, WInv, WatchdogTypeOK, Orders
    <3> QED BY <2>2, <3>1, SentStep DEF RequestsAndLeaves
  <2> QED BY <1>5, <2>1, <2>2 DEF on_KillProcess_CollSoft
<1>6. ASSUME NEW p \in Pids, ServerDies(p) PROVE WInv'
  BY <1>6, DiesStep DEF ServerDies
<1> QED BY <1>2, <1>3, <1>4, <1>5, <1>6 DEF ConnectionSteps

LEMMA OthersKept ==
  ASSUME WInv, Others
  PROVE  WInv'
<1>1. ASSUME NEW w \in Loops, Loop(w) PROVE WInv'
  BY <1>1, LoopStep
<1>2. ASSUME NEW p \in Pids, execl(p) \/ Starts(p) \/ Binds(p) PROVE WInv'
  BY <1>2, ExeclStep, StartsStep, BindsStep
<1>3. CASE LingeringEnds
  BY <1>3, LingeringStep
<1>4. ASSUME NEW c \in Clients, Accepts(c) \/ Leaves(c) PROVE WInv'
  BY <1>4, ConnectionStep
<1>5. ASSUME NEW line \in {"kill_process", "new_process"}, Requests(line) PROVE WInv'
  <2>1. connected' \subseteq Clients /\ line \in Orders
    BY <1>5 DEF Requests, WInv, WatchdogTypeOK, Orders
  <2> QED BY <1>5, <2>1, SentStep DEF Requests
<1> QED BY <1>1, <1>2, <1>3, <1>4, <1>5 DEF Others

LEMMA WatchdogStep ==
  ASSUME WInv, [Next]_vars
  PROVE  WInv'
<1>1. CASE Read
  BY <1>1, WatchdogSame DEF Read, readTcpData
<1>2. CASE Dialogs
  BY <1>2, DialogsSame, WatchdogSame
<1>3. CASE Writings
  BY <1>3, WritingsSame, WatchdogSame
<1>4. CASE ServerSteps
  BY <1>4, ServerKeepsWatchdog, WatchdogSame
<1>5. CASE \/ Errore_existence \/ on_ConnectExistence \/ on_DisconnectExistence
           \/ ToWatchdog("check_process") \/ ToWatchdog("new_process")
  BY <1>5, ExistenceSent
<1>6. CASE ConnectionSteps
  BY <1>6, ConnectionsKept
<1>7. CASE Others
  BY <1>7, OthersKept
<1>8. CASE UNCHANGED vars
  BY <1>8, WatchdogSame DEF vars
<1> QED BY <1>1, <1>2, <1>3, <1>4, <1>5, <1>6, <1>7, <1>8, Steps

\* A server that the watchdog forked and says it has killed is gone, and does
\* not hold the port (kill_process and new_process of MainExistence.c).
THEOREM KilledServersAreGone == Spec => []KilledMeansGone
<1>1. WInv => KilledMeansGone
  <2> SUFFICES ASSUME WInv, answer.text = "killed", parent[answer.pid] = answer.by
               PROVE  process[answer.pid] = "gone" /\ port # answer.pid
    BY DEF KilledMeansGone
  <2>1. answer.pid \in Pids /\ process[answer.pid] = "gone"
    BY DEF WInv, KilledIsGone
  <2>2. port # answer.pid
    BY <2>1 DEF WInv, PortIsAlive
  <2> QED BY <2>1, <2>2
<1>2. Init => WInv
  BY WatchdogStart DEF Init
<1> QED BY <1>1, <1>2, WatchdogStep, PTL DEF Spec

------------------------------------------------------------------------------
(* What is under way between window and server.                            *)

\* The texts that open a dialog.
Questions == [kind : {"question"}, check : Checks] \cup [kind : {"warning"}]

Texts ==
  Questions
    \cup [kind : {"other", "welcome"}]
    \cup [kind : {"connect"}, okay : BOOLEAN]
    \cup [kind : {"position"}, drv : Reported, status : Findings \cup {-2}]
    \cup [kind : {"internal"}, check : Checks, okay : BOOLEAN]
    \cup [kind : {"getpar"}, drv : Reported, name : Names, okay : BOOLEAN]
    \cup [kind : {"getmov"}, drv : Reported, okay : BOOLEAN]

Parts == Texts \cup {Padding}

LineNames ==
  Typed \cup Checks \cup
    {"y", "n", "connect", "printed", "load_encoder_from_file", "check_internal_status",
     "get_all_parameter", "get_par", "get_mov_par", "check_position", "homing", "move_to",
     "homing_mult", "set_par", "moveto_mult", "setmult_par"}

Lines == [name : LineNames, drivers : SUBSET Reported, heard : BOOLEAN]

\* The places of the questions in what is under way.
QuestionsIn(s) == {i \in DOMAIN s : s[i] # Padding /\ s[i] \in Questions}
Number(s) == Cardinality(QuestionsIn(s))

\* What the kind of a text says about it.
LEMMA KindsAre ==
  ASSUME NEW t \in Texts
  PROVE  /\ t.kind \in {"question", "warning"} <=> t \in Questions
         /\ t.kind = "internal" => t.okay \in BOOLEAN
         /\ t.kind = "getpar" => t.okay \in BOOLEAN /\ t.name \in Names
         /\ t.kind = "getmov" => t.okay \in BOOLEAN
BY DEF Texts, Questions

LEMMA NumberIs ==
  ASSUME NEW T, NEW s \in Seq(T)
  PROVE  IsFiniteSet(QuestionsIn(s)) /\ Number(s) \in Nat /\ Number(s) <= Len(s)
<1>1. IsFiniteSet(1 .. Len(s)) /\ Cardinality(1 .. Len(s)) = Len(s)
  <2>1. Len(s) \in Nat /\ Len(s) \in Int /\ 1 \in Int
    OBVIOUS
  <2>2. /\ IsFiniteSet(1 .. Len(s))
        /\ Cardinality(1 .. Len(s)) = IF 1 > Len(s) THEN 0 ELSE Len(s) - 1 + 1
    BY <2>1, FS_Interval, Zenon
  <2> QED BY <2>1, <2>2
<1>2. QuestionsIn(s) \in SUBSET (1 .. Len(s))
  BY DEF QuestionsIn
<1>3. IsFiniteSet(QuestionsIn(s)) /\ Cardinality(QuestionsIn(s)) <= Cardinality(1 .. Len(s))
  BY <1>1, <1>2, FS_Subset, Zenon
<1> QED BY <1>1, <1>3, FS_CardinalityType DEF Number

\* Reading the first parts takes the question that was the first away.
LEMMA NumberOfRest ==
  ASSUME NEW T, NEW s \in Seq(T), NEW k \in 1 .. Len(s)
  PROVE  Number(Rest(s, k)) <= Number(s) - (IF 1 \in QuestionsIn(s) THEN 1 ELSE 0)
<1> DEFINE r == SubSeq(s, k + 1, Len(s))
           Q == QuestionsIn(s) \ {1}
           f == [i \in QuestionsIn(r) |-> i + k]
<1>1. /\ r \in Seq(T) /\ Len(r) = Len(s) - k
      /\ \A i \in 1 .. Len(r) : r[i] = s[i + k]
  OBVIOUS
<1>2. \A i \in QuestionsIn(r) : i \in Nat /\ i + k \in Q
  <2> SUFFICES ASSUME NEW i \in QuestionsIn(r) PROVE i \in Nat /\ i + k \in Q
    OBVIOUS
  <2>1. i \in 1 .. Len(r) /\ r[i] # Padding /\ r[i] \in Questions
    BY <1>1 DEF QuestionsIn
  <2>2. i + k \in 1 .. Len(s) /\ i + k # 1 /\ i \in Nat
    BY <1>1, <2>1
  <2>3. s[i + k] = r[i]
    BY <1>1, <2>1
  <2> QED BY <2>1, <2>2, <2>3 DEF QuestionsIn
<1>3. f \in Injection(QuestionsIn(r), Q)
  <2>1. f \in [QuestionsIn(r) -> Q]
    BY <1>2
  <2>2. \A i, j \in QuestionsIn(r) : i + k = j + k => i = j
    BY <1>2
  <2>3. IsInjective(f)
    BY <2>2 DEF IsInjective
  <2> QED BY <2>1, <2>3 DEF Injection
<1>4. /\ IsFiniteSet(Q)
      /\ Cardinality(Q) = IF 1 \in QuestionsIn(s) THEN Number(s) - 1 ELSE Number(s)
  BY NumberIs, FS_RemoveElement DEF Number
<1>5. Number(s) \in Nat
  BY NumberIs
<1>6. Rest(s, k) = r
  BY DEF Rest
<1>7. Number(Rest(s, k)) = Cardinality(QuestionsIn(r))
  BY <1>6 DEF Number
<1> HIDE DEF r, Q, f
<1>8. Cardinality(QuestionsIn(r)) <= Cardinality(Q)
  BY <1>3, <1>4, FS_Injection
<1> QED BY <1>4, <1>5, <1>7, <1>8

LEMMA NumberOfTail ==
  ASSUME NEW T, NEW s \in Seq(T), s # <<>>
  PROVE  Number(Tail(s)) <= Number(s) - (IF 1 \in QuestionsIn(s) THEN 1 ELSE 0)
<1>1. 1 \in 1 .. Len(s) /\ Tail(s) = Rest(s, 1)
  BY DEF Rest
<1> QED BY <1>1, NumberOfRest

\* An answer that is sent adds a question if it is one.
LEMMA NumberOfSent ==
  ASSUME NEW s \in Seq(Parts), NEW t \in Texts
  PROVE  /\ SendBlock(s, t) \in Seq(Parts) /\ Len(SendBlock(s, t)) = Len(s) + 2
         /\ Number(SendBlock(s, t))
              <= Number(s) + (IF t \in Questions /\ t # Padding THEN 1 ELSE 0)
<1> DEFINE r == s \o <<t, Padding>>
<1>0. <<t, Padding>> \in Seq(Parts) /\ Len(<<t, Padding>>) = 2
  BY DEF Parts
<1>1. r \in Seq(Parts) /\ Len(r) = Len(s) + 2
  BY <1>0
<1>2. /\ \A i \in 1 .. Len(s) : r[i] = s[i]
      /\ r[Len(s) + 1] = t /\ r[Len(s) + 2] = Padding
  BY <1>0
<1>3. \A i \in QuestionsIn(r) : i \in QuestionsIn(s) \/ i = Len(s) + 1
  <2> SUFFICES ASSUME NEW i \in QuestionsIn(r), i # Len(s) + 1 PROVE i \in QuestionsIn(s)
    OBVIOUS
  <2>1. i \in 1 .. Len(r) /\ r[i] # Padding /\ r[i] \in Questions
    BY <1>1 DEF QuestionsIn
  <2>2. i # Len(s) + 2
    BY <1>2, <2>1
  <2>3. i \in 1 .. Len(s)
    BY <1>1, <2>1, <2>2
  <2> QED BY <1>2, <2>1, <2>3 DEF QuestionsIn
<1>4. IsFiniteSet(QuestionsIn(s)) /\ Number(s) \in Nat
  BY NumberIs
<1>5. SendBlock(s, t) \in Seq(Parts) /\ Len(SendBlock(s, t)) = Len(s) + 2
  BY <1>1 DEF SendBlock
<1>6. CASE t \in Questions /\ t # Padding
  <2>1. QuestionsIn(r) \in SUBSET (QuestionsIn(s) \cup {Len(s) + 1})
    BY <1>3
  <2>2. /\ IsFiniteSet(QuestionsIn(s) \cup {Len(s) + 1})
        /\ Cardinality(QuestionsIn(s) \cup {Len(s) + 1}) =
             IF Len(s) + 1 \in QuestionsIn(s) THEN Number(s) ELSE Number(s) + 1
    BY <1>4, FS_AddElement DEF Number
  <2>3. Cardinality(QuestionsIn(r)) <= Cardinality(QuestionsIn(s) \cup {Len(s) + 1})
    BY <2>1, <2>2, FS_Subset, Zenon
  <2>4. IsFiniteSet(QuestionsIn(r)) /\ Number(r) \in Nat /\ Number(r) = Cardinality(QuestionsIn(r))
    BY <1>1, NumberIs DEF Number
  <2>5. Number(SendBlock(s, t)) = Number(r)
    BY DEF SendBlock
  <2> HIDE DEF r
  <2>6. Cardinality(QuestionsIn(s) \cup {Len(s) + 1}) <= Number(s) + 1
    BY <1>4, <2>2
  <2>7. Number(r) <= Number(s) + 1
    BY <1>4, <2>2, <2>3, <2>4, <2>6
  <2> QED BY <1>6, <1>5, <2>5, <2>7
<1>7. CASE ~(t \in Questions /\ t # Padding)
  <2>1. Len(s) + 1 \notin QuestionsIn(r)
    BY <1>2, <1>7 DEF QuestionsIn
  <2>2. QuestionsIn(r) \in SUBSET QuestionsIn(s)
    BY <1>3, <2>1
  <2>3. Cardinality(QuestionsIn(r)) <= Cardinality(QuestionsIn(s))
    BY <1>4, <2>2, FS_Subset, Zenon
  <2>4. Number(SendBlock(s, t)) <= Number(s)
    BY <2>3 DEF SendBlock, Number
  <2> HIDE DEF r
  <2> QED BY <1>4, <1>7, <1>5, <2>4
<1> QED BY <1>6, <1>7, <1>5

LEMMA NumberOfNone ==
  ASSUME NEW s, \A i \in DOMAIN s : s[i] \notin Questions
  PROVE  Number(s) = 0
<1>1. QuestionsIn(s) = {}
  BY DEF QuestionsIn
<1> QED BY <1>1, FS_EmptySet DEF Number

------------------------------------------------------------------------------
(* The answers of the server.                                              *)

\* Answers that ask nothing.
Plain == Texts \ Questions

\* A finite set can be put in some order.
LEMMA SomeOrder ==
  ASSUME NEW S, IsFiniteSet(S)
  PROVE  SetToSeq(S) \in Seq(S)
<1>1. Cardinality(S) \in Nat /\ ExistsBijection(1 .. Cardinality(S), S)
  BY FS_CardinalityType
<1>2. \E f \in [1 .. Cardinality(S) -> S] : IsInjective(f)
  BY <1>1 DEF ExistsBijection, Bijection, Injection
<1>3. SetToSeq(S) \in [1 .. Cardinality(S) -> S]
  BY <1>2 DEF SetToSeq
<1> QED BY <1>1, <1>3

\* There are finitely many values of a function on a finite set.
LEMMA FiniteRange ==
  ASSUME NEW S, IsFiniteSet(S), NEW f, DOMAIN f = S, f \in [S -> {f[x] : x \in S}]
  PROVE  IsFiniteSet({f[x] : x \in S})
<1>1. f \in Surjection(S, {f[x] : x \in S})
  BY DEF Surjection
<1> QED BY <1>1, FS_Surjection

\* Drivers and checks are finitely many, and so is what is said of them.
LEMMA FiniteDrivers ==
  ASSUME NEW D \in SUBSET Reported
  PROVE  IsFiniteSet(D)
<1>1. IsFiniteSet(1 .. 14)
  BY FS_Interval, 1 \in Int, 14 \in Int
<1>2. D \in SUBSET (1 .. 14)
  BY ReportAssumption
<1> QED BY <1>1, <1>2, FS_Subset

LEMMA FiniteChecks == IsFiniteSet(Checks)
<1>1. IsFiniteSet({"drv"})
  BY FS_Singleton
<1>2. IsFiniteSet({"drv"} \cup {"par"})
  BY <1>1, FS_AddElement
<1>3. IsFiniteSet(({"drv"} \cup {"par"}) \cup {"encode"})
  BY <1>2, FS_AddElement
<1>4. Checks \in SUBSET (({"drv"} \cup {"par"}) \cup {"encode"})
  BY CheckAssumption
<1> QED BY <1>3, <1>4, FS_Subset

LEMMA FiniteMotions ==
  ASSUME NEW D \in SUBSET Reported, NEW okay
  PROVE  IsFiniteSet(Motions(D, okay))
<1> DEFINE f == [d \in D |-> [kind |-> "getmov", drv |-> d, okay |-> okay]]
<1>0. IsFiniteSet(D)
  BY FiniteDrivers
<1>1. IsFiniteSet({ f[d] : d \in D })
  BY <1>0, FiniteRange
<1>2. { f[d] : d \in D } = Motions(D, okay)
  BY DEF Motions
<1> QED BY <1>1, <1>2

LEMMA FinitePositions ==
  ASSUME NEW D \in SUBSET Reported
  PROVE  IsFiniteSet(Positions(D))
<1> DEFINE f == [d \in D |-> Position(d)]
<1>0. IsFiniteSet(D)
  BY FiniteDrivers
<1>1. IsFiniteSet({ f[d] : d \in D })
  BY <1>0, FiniteRange
<1>2. { f[d] : d \in D } = Positions(D)
  BY DEF Positions
<1> QED BY <1>1, <1>2

LEMMA FiniteInternals == IsFiniteSet({ InternalOf(k, verified[k]) : k \in Checks })
<1> DEFINE f == [k \in Checks |-> InternalOf(k, verified[k])]
<1>1. IsFiniteSet({ f[k] : k \in Checks })
  BY FiniteChecks, FiniteRange
<1>2. { f[k] : k \in Checks } = { InternalOf(k, verified[k]) : k \in Checks }
  OBVIOUS
<1> QED BY <1>1, <1>2

LEMMA FiniteSettings ==
  ASSUME NEW D \in SUBSET Reported, NEW okay
  PROVE  IsFiniteSet(Settings(D, okay))
<1> DEFINE of(d) == { [kind |-> "getpar", drv |-> d, name |-> n, okay |-> okay] : n \in Names }
           f == [d \in D |-> of(d)]
<1>1. ASSUME NEW d \in D PROVE IsFiniteSet(of(d))
  <2> DEFINE g == [n \in Names |-> [kind |-> "getpar", drv |-> d, name |-> n, okay |-> okay]]
  <2>1. IsFiniteSet({ g[n] : n \in Names })
    BY NameAssumption, FiniteRange
  <2>2. { g[n] : n \in Names } = of(d)
    OBVIOUS
  <2> QED BY <2>1, <2>2
<1>0. IsFiniteSet(D)
  BY FiniteDrivers
<1>2. IsFiniteSet({ f[d] : d \in D })
  BY <1>0, FiniteRange
<1>3. \A T \in { f[d] : d \in D } : IsFiniteSet(T)
  BY <1>1
<1>4. IsFiniteSet(UNION { f[d] : d \in D })
  BY <1>2, <1>3, FS_UNION
<1>5. Settings(D, okay) \in SUBSET UNION { f[d] : d \in D }
  BY DEF Settings
<1> QED BY <1>4, <1>5, FS_Subset

LEMMA PlainTexts ==
  /\ [kind : {"other", "welcome"}] \subseteq Plain
  /\ [kind : {"connect"}, okay : BOOLEAN] \subseteq Plain
  /\ [kind : {"position"}, drv : Reported, status : Findings \cup {-2}] \subseteq Plain
  /\ [kind : {"internal"}, check : Checks, okay : BOOLEAN] \subseteq Plain
  /\ [kind : {"getpar"}, drv : Reported, name : Names, okay : BOOLEAN] \subseteq Plain
  /\ [kind : {"getmov"}, drv : Reported, okay : BOOLEAN] \subseteq Plain
BY DEF Plain, Texts, Questions

LEMMA PlainIsUnasked ==
  ASSUME NEW texts \in Seq(Plain)
  PROVE  texts \in Seq(Texts) /\ Number(texts) = 0
<1>1. texts \in Seq(Texts)
  BY DEF Plain
<1>2. \A i \in DOMAIN texts : texts[i] \notin Questions
  BY DEF Plain
<1> QED BY <1>1, <1>2, NumberOfNone

\* What a line is answered with opens no dialog, or one.
LEMMA RepliesArePlain ==
  ASSUME NEW line \in Lines, finding \in [Reported -> Findings],
         verified \in [Checks -> BOOLEAN], NEW texts \in Replies(line)
  PROVE  /\ texts \in Seq(Texts) /\ Number(texts) <= 1
         /\ line.name = "connect" => Head(texts).okay \in BOOLEAN
<1> DEFINE internals == { InternalOf(k, verified[k]) : k \in Checks }
           D == line.drivers
           warning == [kind |-> "warning"]
<1>0. D \in SUBSET Reported
  BY DEF Lines
<1>1. \A okay \in BOOLEAN : SetToSeq(Settings(D, okay)) \in Seq(Plain)
  <2> SUFFICES ASSUME NEW okay \in BOOLEAN PROVE SetToSeq(Settings(D, okay)) \in Seq(Plain)
    OBVIOUS
  <2>1. Settings(D, okay) \subseteq Plain
    BY <1>0, PlainTexts DEF Settings
  <2>2. SetToSeq(Settings(D, okay)) \in Seq(Settings(D, okay))
    BY <1>0, FiniteSettings, SomeOrder
  <2> QED BY <2>1, <2>2
<1>2. \A okay \in BOOLEAN : SetToSeq(Motions(D, okay)) \in Seq(Plain)
  <2> SUFFICES ASSUME NEW okay \in BOOLEAN PROVE SetToSeq(Motions(D, okay)) \in Seq(Plain)
    OBVIOUS
  <2>1. Motions(D, okay) \subseteq Plain
    BY <1>0, PlainTexts DEF Motions
  <2>2. SetToSeq(Motions(D, okay)) \in Seq(Motions(D, okay))
    BY <1>0, FiniteMotions, SomeOrder
  <2> QED BY <2>1, <2>2
<1>3. ASSUME texts = SetToSeq(internals) PROVE texts \in Seq(Plain)
  <2>0. IsFiniteSet(internals)
    BY FiniteInternals
  <2>1. internals \subseteq Plain
    BY PlainTexts DEF InternalOf
  <2>2. texts \in Seq(internals)
    BY <1>3, <2>0, SomeOrder
  <2> HIDE DEF internals
  <2> QED BY <2>1, <2>2
<1>4. ASSUME NEW d \in D PROVE Position(d) \in Plain
  <2> DEFINE status == IF linked THEN finding[d] ELSE -2
  <2>1. status \in Findings \cup {-2} /\ d \in Reported
    BY <1>0
  <2> HIDE DEF status
  <2>2. [kind |-> "position", drv |-> d, status |-> status] \in Plain
    BY <2>1, PlainTexts
  <2> QED BY <2>2 DEF Position, status
<1>5. SetToSeq(Positions(D)) \in Seq(Plain)
  <2>1. Positions(D) \subseteq Plain
    BY <1>4 DEF Positions
  <2>2. SetToSeq(Positions(D)) \in Seq(Positions(D))
    BY <1>0, FinitePositions, SomeOrder
  <2> QED BY <2>1, <2>2
<1>6. ASSUME NEW okay \in BOOLEAN, texts = <<[kind |-> "connect", okay |-> okay]>>
      PROVE  texts \in Seq(Plain) /\ Head(texts).okay \in BOOLEAN
  <2>1. [kind |-> "connect", okay |-> okay] \in Plain
    BY PlainTexts
  <2> QED BY <1>6, <2>1
<1>7. ASSUME texts = <<Other>> PROVE texts \in Seq(Plain)
  <2>1. Other \in Plain
    BY PlainTexts DEF Other
  <2> QED BY <1>7, <2>1
<1>8. ASSUME NEW okay \in BOOLEAN,
             texts = SetToSeq(Motions(D, okay)) \o SetToSeq(Settings(D, okay))
                       \o SetToSeq(Positions(D))
      PROVE  texts \in Seq(Plain)
  <2> DEFINE a == SetToSeq(Motions(D, okay))
             b == SetToSeq(Settings(D, okay))
             c == SetToSeq(Positions(D))
  <2>1. a \in Seq(Plain) /\ b \in Seq(Plain) /\ c \in Seq(Plain) /\ texts = a \o b \o c
    BY <1>1, <1>2, <1>5, <1>8
  <2> HIDE DEF a, b, c
  <2> QED BY <2>1
<1>9. \/ \E okay \in BOOLEAN :
           \/ texts = SetToSeq(Settings(D, okay)) \/ texts = SetToSeq(Motions(D, okay))
           \/ texts = SetToSeq(Motions(D, okay)) \o SetToSeq(Settings(D, okay))
                        \o SetToSeq(Positions(D))
           \/ texts = <<[kind |-> "connect", okay |-> okay]>>
      \/ texts = SetToSeq(internals)
      \/ \E d \in D : texts = <<Position(d)>> \/ texts = <<warning, Position(d)>>
      \/ texts = <<Other>>
  BY DEF Replies
<1>10. line.name = "connect" =>
         \E okay \in BOOLEAN : texts = <<[kind |-> "connect", okay |-> okay]>>
  BY DEF Replies
<1> HIDE DEF internals, D, warning
<1>11. ASSUME NEW d \in D, texts = <<warning, Position(d)>>
       PROVE  texts \in Seq(Texts) /\ Number(texts) <= 1
  <2>1. warning \in Texts /\ Position(d) \in Texts /\ Position(d) \notin Questions
    BY <1>4 DEF warning, Texts, Questions, Plain
  <2>2. texts \in Seq(Texts)
    BY <1>11, <2>1
  <2>3. QuestionsIn(texts) \in SUBSET {1}
    BY <1>11, <2>1 DEF QuestionsIn
  <2>4. IsFiniteSet({1}) /\ Cardinality({1}) = 1
    BY FS_Singleton
  <2>5. Cardinality(QuestionsIn(texts)) <= 1
    BY <2>3, <2>4, FS_Subset
  <2> QED BY <2>2, <2>5 DEF Number
<1>12. CASE \E d \in D : texts = <<warning, Position(d)>>
  BY <1>6, <1>10, <1>11, <1>12
<1>13. CASE ~ \E d \in D : texts = <<warning, Position(d)>>
  <2>1. ASSUME NEW d \in D, texts = <<Position(d)>> PROVE texts \in Seq(Plain)
    BY <1>4, <2>1
  <2>2. texts \in Seq(Plain)
    BY <1>1, <1>2, <1>3, <1>6, <1>7, <1>8, <1>9, <1>13, <2>1
  <2> QED BY <1>6, <1>10, <2>2, PlainIsUnasked
<1> QED BY <1>12, <1>13

------------------------------------------------------------------------------
(* The types of the window, and what its labels are given. *)

Places == {"Okay", "Position mismatch", "Disconnected", "Invalid state"}

\* The labels readTcpData changes.
DisplayOK ==
  /\ label_status \in [1 .. 3 -> BOOLEAN] /\ InternalStatus \in [Checks -> BOOLEAN]
  /\ LabelPositionStatus \in [Reported -> Places]
  /\ LabelStatusDriver \in [Reported -> BOOLEAN] /\ LineEdit \in [Reported -> SUBSET Names]

WindowOK ==
  /\ DisplayOK /\ label_statusAll \in BOOLEAN /\ label_Accepted \in [Checks -> BOOLEAN]
  /\ checkBox \subseteq Reported /\ existence \in {"closed", "open"}
  /\ clicks \in 0 .. MaxClicks

Kinds == {"question", "warning", "moveto_mult", "setmult_par"}
Boxes ==
  [kind : {"question", "warning"}, of : SUBSET Checks]
    \cup [kind : {"moveto_mult", "setmult_par"}, of : SUBSET Reported]

\* Only a dialog of readTcpData comes in front of another.
ModalOK == modal \in Seq(Boxes) /\ Len(modal) <= 2 /\ (Len(modal) = 2 => Asking)

\* The server sees what has not been read, but for what a dialog has kept
\* from being signalled.
StreamOK ==
  /\ stream \in Seq(Parts) /\ socket \in {"closed", "open", "broken"}
  /\ socket = "closed" => stream = <<>>
  /\ unsignalled \in 0 .. Len(stream) /\ unsignalled <= 2 * MaxStream
  /\ Asking => Len(stream) <= 2 * MaxStream
  /\ ~Asking => Len(stream) - unsignalled <= 2 * MaxStream

LinkOK == socket = "open" <=> Window \in connected

ServerOK ==
  /\ written \in Seq(Lines) /\ answers \in Seq(Texts)
  /\ question \in Checks \cup {"none"} /\ verified \in [Checks -> BOOLEAN]
  /\ linked \in BOOLEAN /\ loaded \in BOOLEAN /\ finding \in [Reported -> Findings]

\* Every line is the work of a slot, and so is every dialog that may write
\* one and every text that opens a dialog.
OwedOK == Len(written) + Number(stream) + Number(answers) + Len(modal) <= clicks

TInv == WindowOK /\ ModalOK /\ StreamOK /\ LinkOK /\ ServerOK /\ OwedOK

\* The numbers that are counted with.
LEMMA Counts ==
  ASSUME TInv
  PROVE  /\ Len(written) \in Nat /\ Number(stream) \in Nat /\ Number(answers) \in Nat
         /\ Len(modal) \in Nat /\ Len(stream) \in Nat /\ clicks \in Nat /\ MaxStream \in Nat \ {0}
BY NumberIs, BoundAssumption DEF TInv, StreamOK, ServerOK, ModalOK, WindowOK

LEMMA BoundsFollow ==
  ASSUME WInv, TInv
  PROVE  TypeOK
<1>1. Len(stream) <= 4 * MaxStream
  BY Counts DEF TInv, StreamOK
<1>2. Len(written) <= MaxClicks
  BY Counts, BoundAssumption DEF TInv, OwedOK, WindowOK
<1>3. \A i \in DOMAIN modal : modal[i].kind \in Kinds
  <2>1. modal \in Seq(Boxes)
    BY DEF TInv, ModalOK
  <2>2. \A i \in DOMAIN modal : modal[i] \in Boxes
    BY <2>1
  <2> QED BY <2>2 DEF Boxes, Kinds
<1> QED BY <1>1, <1>2, <1>3
        DEF WInv, TInv, WindowOK, DisplayOK, ModalOK, StreamOK, LinkOK, ServerOK, TypeOK, Kinds,
            Places

\* What the loop of readTcpData shows of a text.
LEMMA ShowTyped ==
  ASSUME DisplayOK, NEW text \in Texts, Show(text)
  PROVE  DisplayOK'
<1>1. CASE text.kind = "connect"
  BY <1>1 DEF Show, ShowConnect, Labelled, DisplayOK
<1>2. CASE text.kind = "welcome"
  BY <1>2 DEF Show, ShowWelcome, Labelled, DisplayOK
<1>3. CASE text.kind = "position"
  <2>1. PositionText(text.status) \in Places
    BY DEF PositionText, Places
  <2> QED BY <1>3, <2>1 DEF Show, ShowPosition, DisplayOK
<1>4. CASE text.kind = "internal"
  BY <1>4, KindsAre DEF Show, ShowInternal, DisplayOK
<1>5. CASE text.kind = "getpar"
  <2>1. text.okay \in BOOLEAN /\ text.name \in Names
    BY <1>5, KindsAre
  <2>2. ShowParameter(text)
    BY <1>5 DEF Show
  <2>3. LabelStatusDriver' \in [Reported -> BOOLEAN]
    BY <2>1, <2>2 DEF ShowParameter, DisplayOK
  <2>4. LineEdit' \in [Reported -> SUBSET Names]
    BY <2>1, <2>2 DEF ShowParameter, DisplayOK
  <2> QED BY <2>2, <2>3, <2>4 DEF ShowParameter, DisplayOK
<1>6. CASE text.kind = "getmov"
  BY <1>6, KindsAre DEF Show, ShowMovement, DisplayOK
<1>7. CASE text.kind \notin {"connect", "welcome", "position", "internal", "getpar", "getmov"}
  BY <1>7 DEF Show, ShowNothing, DisplayOK
<1> QED BY <1>1, <1>2, <1>3, <1>4, <1>5, <1>6, <1>7

LEMMA GeneralTyped ==
  ASSUME label_statusAll \in BOOLEAN, NEW goesOn \in BOOLEAN, CheckGeneralStatus(goesOn)
  PROVE  label_statusAll' \in BOOLEAN
BY DEF CheckGeneralStatus, General

\* A connection whose label is taken away.
LEMMA UnlabelledTyped ==
  ASSUME WindowOK, NEW i \in 1 .. 3, Unlabelled(i),
         UNCHANGED <<OtherLabels, checkBox>>,
         existence' \in {"closed", "open"}, clicks' \in 0 .. MaxClicks
  PROVE  WindowOK'
<1>1. label_status' \in [1 .. 3 -> BOOLEAN]
  BY DEF Unlabelled, Labelled, WindowOK, DisplayOK
<1>2. label_statusAll' \in BOOLEAN
  BY GeneralTyped DEF Unlabelled, WindowOK
<1> QED BY <1>1, <1>2 DEF OtherLabels, WindowOK, DisplayOK

LEMMA WindowSame ==
  ASSUME WindowOK, UNCHANGED <<labels, checkBox, existence>>, clicks' \in 0 .. MaxClicks
  PROVE  WindowOK'
BY DEF labels, WindowOK, DisplayOK

LEMMA ModalSame ==
  ASSUME ModalOK, UNCHANGED modal
  PROVE  ModalOK' /\ (Asking' <=> Asking)
BY DEF ModalOK, Asking, InFront

LEMMA StreamSame ==
  ASSUME StreamOK, UNCHANGED <<modal, stream, socket, unsignalled>>
  PROVE  StreamOK'
BY DEF StreamOK, Asking, InFront

LEMMA ServerSame ==
  ASSUME ServerOK, UNCHANGED <<written, server>>
  PROVE  ServerOK'
BY DEF ServerOK, server

LEMMA OwedSame ==
  ASSUME OwedOK, UNCHANGED <<written, stream, answers, modal, clicks>>
  PROVE  OwedOK'
BY DEF OwedOK

\* A click is counted.
LEMMA Clicked ==
  ASSUME WindowOK, Click
  PROVE  clicks' \in 0 .. MaxClicks /\ clicks' = clicks + 1 /\ modal = <<>> /\ ~Asking
BY BoundAssumption DEF WindowOK, Click, Free, Asking, InFront

------------------------------------------------------------------------------
(* Dialogs come and go. *)

\* Lengths, and what is left when the last is taken away.
LEMMA LengthIs ==
  ASSUME NEW S, NEW s \in Seq(S), s # <<>>
  PROVE  \E n \in Nat : /\ Len(s) = n + 1 /\ SubSeq(s, 1, n) \in Seq(S)
                        /\ Len(SubSeq(s, 1, n)) = n
<1>1. Len(s) \in Nat /\ Len(s) # 0
  OBVIOUS
<1>2. PICK m \in Nat : m = Len(s)
  BY <1>1
<1>3. m - 1 \in Nat /\ Len(s) = (m - 1) + 1
  BY <1>1, <1>2
<1>4. SubSeq(s, 1, m - 1) \in Seq(S) /\ Len(SubSeq(s, 1, m - 1)) = m - 1
  BY <1>2, <1>3
<1> QED BY <1>3, <1>4

\* A dialog of readTcpData, over at most one other.
LEMMA OpensAsking ==
  ASSUME ModalOK, ~Asking, NEW kind \in {"question", "warning"}, NEW of \in SUBSET Checks,
         Opens(Dialog(kind, of))
  PROVE  ModalOK' /\ Asking' /\ Len(modal') = Len(modal) + 1
<1>1. Dialog(kind, of) \in Boxes
  BY DEF Dialog, Boxes, Kinds
<1>2. modal' \in Seq(Boxes) /\ Len(modal') = Len(modal) + 1 /\ modal' # <<>>
      /\ modal'[Len(modal')] = Dialog(kind, of)
  BY <1>1 DEF ModalOK, Opens
<1>3. Asking'
  BY <1>2 DEF Asking, InFront, Last, Dialog
<1>4. Len(modal') <= 2
  <2>1. modal \in Seq(Boxes) /\ Len(modal) <= 2 /\ Len(modal) # 2
    BY DEF ModalOK
  <2>2. PICK n \in Nat : n = Len(modal)
    BY <2>1
  <2> QED BY <1>2, <2>1, <2>2
<1> QED BY <1>2, <1>3, <1>4 DEF ModalOK

LEMMA OpensConfirmation ==
  ASSUME modal = <<>>, NEW kind \in {"moveto_mult", "setmult_par"}, NEW of \in SUBSET Reported,
         Opens(Dialog(kind, of))
  PROVE  ModalOK' /\ ~Asking' /\ Len(modal') = 1
<1>1. Dialog(kind, of) \in Boxes
  BY DEF Dialog, Boxes, Kinds
<1>2. modal' = <<Dialog(kind, of)>>
  BY DEF Opens
<1>3. modal' \in Seq(Boxes) /\ Len(modal') = 1 /\ modal'[1] = Dialog(kind, of)
  BY <1>1, <1>2
<1>4. ~Asking'
  BY <1>3 DEF Asking, InFront, Last, Dialog
<1> QED BY <1>3, <1>4 DEF ModalOK

\* The dialog in front is closed; the one behind it, if any, confirms something.
LEMMA ClosesOne ==
  ASSUME ModalOK, modal # <<>>, Closes
  PROVE  ModalOK' /\ Len(modal') = Len(modal) - 1 /\ (Asking' => Asking)
<1>1. modal \in Seq(Boxes) /\ Len(modal) <= 2 /\ (Len(modal) = 2 => Asking)
  BY DEF ModalOK
<1>2. modal' = SubSeq(modal, 1, Len(modal) - 1)
  BY DEF Closes, Front
<1>3. PICK n \in Nat : /\ Len(modal) = n + 1 /\ SubSeq(modal, 1, n) \in Seq(Boxes)
                       /\ Len(SubSeq(modal, 1, n)) = n
  BY <1>1, LengthIs
<1>4. n \in {0, 1} /\ modal' \in Seq(Boxes) /\ Len(modal') = n
  BY <1>1, <1>2, <1>3
<1>5. Len(modal) = 1 => modal' = <<>>
  BY <1>3, <1>4
<1>6. Asking' => Asking
  <2>1. CASE Len(modal) = 1
    BY <1>5, <2>1 DEF Asking, InFront
  <2>2. CASE Len(modal) = 2
    BY <1>1, <2>2
  <2> QED BY <1>3, <1>4, <2>1, <2>2
<1>7. Len(modal') <= 2 /\ Len(modal') # 2 /\ Len(modal') = Len(modal) - 1
  BY <1>3, <1>4
<1> QED BY <1>4, <1>6, <1>7 DEF ModalOK

------------------------------------------------------------------------------
(* What a step of the window keeps of the types. *)

\* A sum of numbers of things under way stays below the clicks.
LEMMA OwedStep ==
  ASSUME TInv, clicks' \in Nat,
         NEW w \in Int, NEW s \in Int, NEW a \in Int, NEW m \in Int,
         Len(written') <= Len(written) + w, Number(stream') <= Number(stream) + s,
         Number(answers') <= Number(answers) + a, Len(modal') <= Len(modal) + m,
         clicks + (w + s + a + m) <= clicks',
         Len(written') \in Nat, Number(stream') \in Nat, Number(answers') \in Nat,
         Len(modal') \in Nat
  PROVE  OwedOK'
<1>1. PICK w0 \in Nat, s0 \in Nat, a0 \in Nat, m0 \in Nat, c0 \in Nat :
        /\ w0 = Len(written) /\ s0 = Number(stream) /\ a0 = Number(answers)
        /\ m0 = Len(modal) /\ c0 = clicks
  BY Counts, Zenon
<1>2. PICK w1 \in Nat, s1 \in Nat, a1 \in Nat, m1 \in Nat, c1 \in Nat :
        /\ w1 = Len(written') /\ s1 = Number(stream') /\ a1 = Number(answers')
        /\ m1 = Len(modal') /\ c1 = clicks'
  BY Zenon
<1>3. w0 + s0 + a0 + m0 <= c0
  BY <1>1 DEF TInv, OwedOK
<1>4. /\ w1 <= w0 + w /\ s1 <= s0 + s /\ a1 <= a0 + a /\ m1 <= m0 + m
      /\ c0 + (w + s + a + m) <= c1
  BY <1>1, <1>2
<1>5. w1 + s1 + a1 + m1 <= c1
  BY <1>3, <1>4
<1> QED BY <1>2, <1>5 DEF OwedOK

\* The variables are counted in the next state, too.
LEMMA CountsNext ==
  ASSUME ModalOK', StreamOK', ServerOK', WindowOK'
  PROVE  /\ Len(written') \in Nat /\ Number(stream') \in Nat /\ Number(answers') \in Nat
         /\ Len(modal') \in Nat /\ clicks' \in Nat
BY NumberIs, BoundAssumption DEF StreamOK, ServerOK, ModalOK, WindowOK

LEMMA LineTyped ==
  ASSUME NEW name \in LineNames, NEW drivers \in SUBSET Reported
  PROVE  Line(name, drivers) \in Lines
BY DEF Line, Lines

LEMMA AppendLine ==
  ASSUME ServerOK, NEW line \in Lines, NEW more, more = written \/ more = Append(written, line)
  PROVE  more \in Seq(Lines) /\ Len(more) <= Len(written) + 1
<1>1. written \in Seq(Lines) /\ Len(written) \in Nat
  BY DEF ServerOK
<1>2. CASE more = written
  BY <1>1, <1>2
<1>3. CASE more = Append(written, line)
  BY <1>1, <1>3
<1> QED BY <1>2, <1>3

\* A line that is written for a click.
LEMMA WriteTyped ==
  ASSUME TInv, NEW line \in Lines, Write(line)
  PROVE  TInv'
<1>1. /\ UNCHANGED <<labels, checkBox, modal, socket, existence, stream, unsignalled,
                     answers, question, verified, linked, loaded, finding, connected>>
      /\ Click
  BY DEF Write, wires, server, watchdog
<1>2. clicks' \in 0 .. MaxClicks /\ clicks' = clicks + 1
  BY <1>1, Clicked DEF TInv
<1>3. WindowOK' /\ ModalOK' /\ StreamOK'
  BY <1>1, <1>2, WindowSame, ModalSame, StreamSame DEF TInv
<1>4. written' = written \/ written' = Append(written, line)
  BY DEF Write
<1>5. written' \in Seq(Lines) /\ Len(written') <= Len(written) + 1
  BY <1>4, AppendLine DEF TInv
<1>6. ServerOK'
  BY <1>1, <1>5 DEF TInv, ServerOK
<1>7. OwedOK'
  <2>1. /\ Number(stream') <= Number(stream) + 0 /\ Number(answers') <= Number(answers) + 0
        /\ Len(modal') <= Len(modal) + 0
    BY <1>1, Counts
  <2>2. clicks + (1 + 0 + 0 + 0) <= clicks'
    BY <1>2, Counts
  <2>3. 0 \in Int /\ 1 \in Int
    OBVIOUS
  <2>4. /\ Len(written') \in Nat /\ Number(stream') \in Nat /\ Number(answers') \in Nat
        /\ Len(modal') \in Nat /\ clicks' \in Nat
    BY <1>3, <1>6, CountsNext
  <2> QED BY <1>5, <2>1, <2>2, <2>3, <2>4, OwedStep
<1>8. LinkOK'
  BY <1>1 DEF TInv, LinkOK
<1> QED BY <1>3, <1>6, <1>7, <1>8 DEF TInv

LEMMA WritingsTyped ==
  ASSUME TInv, Writings
  PROVE  TInv'
<1>1. ASSUME NEW name \in LineNames, NEW drivers \in SUBSET Reported, Write(Line(name, drivers))
      PROVE  TInv'
  BY <1>1, LineTyped, WriteTyped
<1>2. checkBox \in SUBSET Reported /\ {} \in SUBSET Reported
  BY DEF TInv, WindowOK
<1>3. \E name \in LineNames, drivers \in SUBSET Reported : Write(Line(name, drivers))
  <2>1. CASE \/ on_CommandStringButton \/ on_ConnectProgrammer
             \/ \E k \in Checks : on_CheckAssoc(k)
             \/ on_CheckInternalStatus
    BY <1>2, <2>1 DEF on_CommandStringButton, on_ConnectProgrammer, on_CheckAssoc,
         on_CheckInternalStatus, LineNames
  <2>2. CASE \/ on_ReadLog \/ on_LoadEncoderFromFileButton \/ on_ReadActualEncoderValue
             \/ on_DeviceListButton
    BY <1>2, <2>2 DEF on_ReadLog, on_LoadEncoderFromFileButton, on_ReadActualEncoderValue,
         on_DeviceListButton, Printed, LineNames
  <2>3. CASE on_GetAllParameter \/ on_Homing_all
    BY <1>2, <2>3 DEF on_GetAllParameter, on_Homing_all, LineNames
  <2>4. ASSUME NEW d \in Reported,
               \/ on_GetParameterDriver(d) \/ on_GetParameterMov(d) \/ on_CheckPositionButton(d)
               \/ on_Homing(d) \/ on_MoveTo(d) \/ on_SetParameterDriver(d)
        PROVE  \E name \in LineNames, drivers \in SUBSET Reported : Write(Line(name, drivers))
    <3>1. {d} \in SUBSET Reported
      BY <2>4
    <3> QED BY <2>4, <3>1 DEF on_GetParameterDriver, on_GetParameterMov, on_CheckPositionButton,
         on_Homing, on_MoveTo, on_SetParameterDriver, LineNames
  <2> QED BY <2>1, <2>2, <2>3, <2>4 DEF Writings
<1> QED BY <1>1, <1>3

\* The text that is read, and what is left of the stream.
LEMMA ReadTyped ==
  ASSUME TInv, Read
  PROVE  TInv'
<1>1. PICK k \in 1 .. Len(stream) : readTcpData(k)
  BY DEF Read
<1> DEFINE text == TextOf(SubSeq(stream, 1, k))
           kind == IF text = Unread THEN "none" ELSE text.kind
<1>2. /\ ~Asking /\ k \in unsignalled + 1 .. Len(stream)
      /\ stream' = Rest(stream, k) /\ unsignalled' = 0
      /\ UNCHANGED <<checkBox, clicks, socket, existence, written, server, watchdog>>
  BY <1>1 DEF readTcpData
<1>3. stream \in Seq(Parts) /\ Len(stream) \in Nat
  BY DEF TInv, StreamOK
<1>4. /\ Rest(stream, k) \in Seq(Parts) /\ Len(Rest(stream, k)) = Len(stream) - k
      /\ stream[1] \in Parts /\ Head(SubSeq(stream, 1, k)) = stream[1]
  BY <1>1, <1>3 DEF Rest
<1>5. text # Unread => text \in Texts /\ text = stream[1] /\ text # Padding
  BY <1>4 DEF TextOf, Parts
<1>6. kind \in {"question", "warning"} => 1 \in QuestionsIn(stream)
  <2> SUFFICES ASSUME kind \in {"question", "warning"} PROVE 1 \in QuestionsIn(stream)
    OBVIOUS
  <2>1. text # Unread
    OBVIOUS
  <2>2. text.kind \in {"question", "warning"}
    BY <2>1
  <2>3. text \in Questions
    BY <1>5, <2>1, <2>2, KindsAre
  <2>4. 1 \in DOMAIN stream
    BY <1>1, <1>3
  <2> QED BY <1>5, <2>1, <2>3, <2>4 DEF QuestionsIn
<1>7. Number(stream') <= Number(stream) - (IF 1 \in QuestionsIn(stream) THEN 1 ELSE 0)
  BY <1>1, <1>2, <1>3, NumberOfRest
<1>8. ASSUME kind \in {"question", "warning"}
      PROVE  /\ WindowOK' /\ ModalOK'
             /\ \E m \in {0, 1} : /\ Len(modal') = Len(modal) + m
                                 /\ Number(stream') <= Number(stream) - m
  <2>1. /\ Opens(Dialog(kind, IF kind = "question" THEN {text.check} ELSE {}))
        /\ UNCHANGED labels
    BY <1>1, <1>8 DEF readTcpData
  <2>2. (IF kind = "question" THEN {text.check} ELSE {}) \in SUBSET Checks
    <3> SUFFICES ASSUME kind = "question" PROVE text.check \in Checks
      OBVIOUS
    <3>1. text \in Texts /\ text.kind = "question"
      BY <1>5
    <3> HIDE DEF text
    <3> QED BY <3>1 DEF Texts, Questions
  <2> HIDE DEF text, kind
  <2>3. ModalOK' /\ Asking' /\ Len(modal') = Len(modal) + 1
    BY <1>2, <1>8, <2>1, <2>2, OpensAsking DEF TInv
  <2>4. WindowOK'
    BY <1>2, <2>1, WindowSame DEF TInv, WindowOK
  <2>5. Number(stream') <= Number(stream) - 1
    BY <1>6, <1>7, <1>8
  <2> QED BY <2>3, <2>4, <2>5
<1>9. ASSUME kind \notin {"question", "warning"}
      PROVE  /\ WindowOK' /\ ModalOK'
             /\ \E m \in {0, 1} : /\ Len(modal') = Len(modal) + m
                                 /\ Number(stream') <= Number(stream) - m
  <2>1. UNCHANGED <<label_Accepted, modal>>
    BY <1>1, <1>9 DEF readTcpData
  <2>2. DisplayOK'
    <3>1. CASE kind = "none"
      <4>1. ShowNothing
        BY <1>1, <1>9, <3>1 DEF readTcpData
      <4> QED BY <4>1 DEF ShowNothing, DisplayOK, TInv, WindowOK
    <3>2. CASE kind # "none"
      <4>1. Show(text)
        BY <1>1, <1>9, <3>2 DEF readTcpData
      <4>2. text \in Texts
        BY <1>5, <3>2
      <4> HIDE DEF text, kind
      <4> QED BY <4>1, <4>2, ShowTyped DEF TInv, WindowOK
    <3> QED BY <3>1, <3>2
  <2>3. label_statusAll' \in BOOLEAN
    <3>1. PICK goesOn \in BOOLEAN : CheckGeneralStatus(goesOn)
      BY <1>1, <1>9 DEF readTcpData, GoesOn
    <3> QED BY <3>1, GeneralTyped DEF TInv, WindowOK
  <2>4. WindowOK'
    BY <1>2, <2>1, <2>2, <2>3 DEF TInv, WindowOK
  <2>5. ModalOK' /\ ~Asking'
    BY <1>2, <2>1, ModalSame DEF TInv
  <2>6. Number(stream') <= Number(stream) - 0
    <3>1. Number(stream') <= Number(stream) \/ Number(stream') <= Number(stream) - 1
      BY <1>7, Counts
    <3>2. Number(stream) \in Nat /\ Number(stream') \in Nat
      BY <1>2, <1>4, Counts, NumberIs
    <3> QED BY <3>1, <3>2
  <2>7. Len(modal') = Len(modal) + 0
    BY <2>1, Counts
  <2> QED BY <2>4, <2>5, <2>6, <2>7
<1> HIDE DEF text, kind
<1>10. StreamOK'
  <2>1. stream' \in Seq(Parts) /\ Len(stream') \in Nat
    BY <1>2, <1>4
  <2>2. socket # "closed"
    BY <1>1, <1>3 DEF TInv, StreamOK
  <2>3. Len(stream) - unsignalled <= 2 * MaxStream /\ unsignalled \in Nat
    BY <1>2, <1>3 DEF TInv, StreamOK
  <2>4. Len(stream') <= 2 * MaxStream
    BY <1>2, <1>3, <1>4, <2>3, BoundAssumption
  <2>5. unsignalled' \in 0 .. Len(stream') /\ unsignalled' <= 2 * MaxStream
    BY <1>2, <2>1, BoundAssumption
  <2>6. Len(stream') - unsignalled' <= 2 * MaxStream
    BY <1>2, <2>1, <2>4
  <2> QED BY <1>2, <2>1, <2>2, <2>4, <2>5, <2>6 DEF TInv, StreamOK
<1>11. ServerOK' /\ LinkOK'
  BY <1>2, ServerSame DEF TInv, LinkOK, watchdog
<1>12. WindowOK' /\ ModalOK' /\ OwedOK'
  <2>1. PICK m \in {0, 1} : /\ Len(modal') = Len(modal) + m
                           /\ Number(stream') <= Number(stream) - m
    BY <1>8, <1>9
  <2>2. WindowOK' /\ ModalOK'
    BY <1>8, <1>9
  <2>3. m \in Int /\ 0 - m \in Int /\ 0 \in Int
    BY <2>1
  <2>4. /\ Number(stream') <= Number(stream) + (0 - m) /\ Len(modal') <= Len(modal) + m
        /\ Number(answers') <= Number(answers) + 0 /\ Len(written') <= Len(written) + 0
        /\ clicks + (0 + (0 - m) + 0 + m) <= clicks'
    BY <1>2, <2>1, Counts DEF server
  <2> QED BY <1>10, <1>11, <2>2, <2>3, <2>4, CountsNext, OwedStep
<1> QED BY <1>10, <1>11, <1>12 DEF TInv

\* What changes nothing but labels and boxes.
LEMMA OnlyWindow ==
  ASSUME TInv, WindowOK', clicks <= clicks',
         UNCHANGED <<modal, stream, socket, unsignalled, written, server, connected>>
  PROVE  TInv'
<1>1. ModalOK' /\ StreamOK' /\ ServerOK' /\ LinkOK'
  BY ModalSame, StreamSame, ServerSame DEF TInv, LinkOK
<1>2. OwedOK'
  <2>1. /\ Len(written') \in Nat /\ Number(stream') \in Nat /\ Number(answers') \in Nat
        /\ Len(modal') \in Nat /\ clicks' \in Nat
    BY <1>1, CountsNext
  <2>2. /\ Len(written') <= Len(written) + 0 /\ Number(stream') <= Number(stream) + 0
        /\ Number(answers') <= Number(answers) + 0 /\ Len(modal') <= Len(modal) + 0
    BY Counts DEF server
  <2>3. 0 \in Int /\ clicks + (0 + 0 + 0 + 0) <= clicks'
    BY <2>1, Counts
  <2> QED BY <2>1, <2>2, <2>3, OwedStep
<1> QED BY <1>1, <1>2 DEF TInv

\* A dialog is closed, and a line may be written for it.
LEMMA CloseTyped ==
  ASSUME TInv, WindowOK', modal # <<>>, Closes, NEW line \in Lines,
         written' = written \/ written' = Append(written, line),
         UNCHANGED <<clicks, stream, socket, unsignalled, server, connected>>
  PROVE  TInv'
<1>1. ModalOK' /\ Len(modal') = Len(modal) - 1 /\ (Asking' => Asking)
  BY ClosesOne DEF TInv
<1>2. StreamOK'
  <2>1. CASE Asking
    <3>1. Len(stream) <= 2 * MaxStream /\ unsignalled \in 0 .. Len(stream)
      BY <2>1 DEF TInv, StreamOK
    <3>2. Len(stream) \in Nat /\ MaxStream \in Nat
      BY Counts
    <3>3. Len(stream) - unsignalled <= 2 * MaxStream
      BY <3>1, <3>2
    <3> QED BY <3>1, <3>3 DEF TInv, StreamOK
  <2>2. CASE ~Asking
    <3>1. ~Asking'
      BY <1>1, <2>2
    <3> QED BY <2>2, <3>1 DEF TInv, StreamOK
  <2> QED BY <2>1, <2>2
<1>3. written' \in Seq(Lines) /\ Len(written') <= Len(written) + 1
  BY AppendLine DEF TInv
<1>4. ServerOK' /\ LinkOK'
  BY <1>3 DEF TInv, ServerOK, LinkOK, server
<1>5. OwedOK'
  <2>1. /\ Len(written') \in Nat /\ Number(stream') \in Nat /\ Number(answers') \in Nat
        /\ Len(modal') \in Nat /\ clicks' \in Nat
    BY <1>1, <1>2, <1>4, CountsNext
  <2>2. 0 \in Int /\ 1 \in Int /\ -1 \in Int
    OBVIOUS
  <2>3. /\ Number(stream') <= Number(stream) + 0 /\ Number(answers') <= Number(answers) + 0
        /\ Len(modal') <= Len(modal) + (-1)
    BY <1>1, Counts DEF server
  <2>4. clicks + (1 + 0 + 0 + (-1)) <= clicks'
    BY Counts
  <2> QED BY <1>3, <2>1, <2>2, <2>3, <2>4, OwedStep
<1> QED BY <1>1, <1>2, <1>4, <1>5 DEF TInv

LEMMA DialogsTyped ==
  ASSUME TInv, Dialogs
  PROVE  TInv'
<1>1. CASE Arrives
  <2>1. /\ Asking /\ unsignalled' = Len(stream)
        /\ UNCHANGED <<label_status, label_statusAll, label_Accepted, InternalStatus,
                       LabelPositionStatus, LabelStatusDriver, LineEdit>>
        /\ UNCHANGED <<checkBox, modal, clicks, socket, existence, stream, written>>
        /\ UNCHANGED <<answers, question, verified, linked, loaded, finding, connected>>
    BY <1>1 DEF Arrives, window, labels, server, watchdog
  <2>2. ModalOK' /\ Asking'
    BY <2>1, ModalSame DEF TInv
  <2>3. WindowOK'
    BY <2>1 DEF TInv, WindowOK, DisplayOK
  <2>4. StreamOK'
    <3>1. Len(stream) <= 2 * MaxStream /\ Len(stream) \in Nat
      BY <2>1, Counts DEF TInv, StreamOK
    <3>2. unsignalled' \in 0 .. Len(stream) /\ unsignalled' <= 2 * MaxStream
      BY <2>1, <3>1
    <3> QED BY <2>1, <2>2, <3>1, <3>2 DEF TInv, StreamOK
  <2>5. ServerOK' /\ LinkOK' /\ OwedOK'
    BY <2>1 DEF TInv, ServerOK, LinkOK, OwedOK
  <2> QED BY <2>2, <2>3, <2>4, <2>5 DEF TInv
<1>2. ASSUME NEW accepted \in BOOLEAN, Answered(accepted) PROVE TInv'
  <2>1. /\ InFront({"question"}) /\ Closes
        /\ ShowNothing /\ CheckGeneralStatus(TRUE)
        /\ label_Accepted' \in [Checks -> BOOLEAN]
        /\ UNCHANGED <<checkBox, clicks, wires, server, watchdog>>
    BY <1>2 DEF Answered, TInv, WindowOK
  <2>2. WindowOK'
    <3>1. label_statusAll' \in BOOLEAN
      BY <2>1, GeneralTyped, TRUE \in BOOLEAN DEF TInv, WindowOK
    <3> QED BY <2>1, <3>1 DEF ShowNothing, wires, TInv, WindowOK, DisplayOK
  <2>3. modal # <<>>
    BY <2>1 DEF InFront
  <2>4. Line(IF accepted THEN "y" ELSE "n", {}) \in Lines
    BY LineTyped DEF LineNames
  <2>5. \/ written' = written
        \/ written' = Append(written, Line(IF accepted THEN "y" ELSE "n", {}))
    BY <1>2 DEF Answered
  <2> QED BY <2>1, <2>2, <2>3, <2>4, <2>5, CloseTyped DEF wires, watchdog
<1>3. CASE Warned
  <2>1. /\ InFront({"warning"}) /\ Closes
        /\ ShowNothing /\ CheckGeneralStatus(TRUE)
        /\ UNCHANGED <<label_Accepted, checkBox, clicks, wires, written, server, watchdog>>
    BY <1>3 DEF Warned
  <2>2. WindowOK'
    <3>1. label_statusAll' \in BOOLEAN
      BY <2>1, GeneralTyped, TRUE \in BOOLEAN DEF TInv, WindowOK
    <3> QED BY <2>1, <3>1 DEF ShowNothing, wires, TInv, WindowOK, DisplayOK
  <2>3. modal # <<>>
    BY <2>1 DEF InFront
  <2>4. Line("y", {}) \in Lines
    BY LineTyped DEF LineNames
  <2> QED BY <2>1, <2>2, <2>3, <2>4, CloseTyped DEF wires, watchdog
<1>4. ASSUME NEW d \in Reported, Types(d) PROVE TInv'
  <2>1. clicks' \in 0 .. MaxClicks /\ clicks' = clicks + 1
    BY <1>4, Clicked DEF Types, TInv
  <2>2. LineEdit' \in [Reported -> SUBSET Names]
    BY <1>4 DEF Types, TInv, WindowOK, DisplayOK
  <2>3. WindowOK'
    BY <1>4, <2>1, <2>2 DEF Types, wires, TInv, WindowOK, DisplayOK
  <2>4. clicks <= clicks'
    BY <2>1, Counts
  <2> QED BY <1>4, <2>3, <2>4, OnlyWindow DEF Types, wires, watchdog
<1>5. CASE on_checkBox_all
  <2>1. clicks' \in 0 .. MaxClicks /\ clicks' = clicks + 1
    BY <1>5, Clicked DEF on_checkBox_all, TInv
  <2>2. WindowOK'
    BY <1>5, <2>1 DEF on_checkBox_all, labels, wires, TInv, WindowOK, DisplayOK
  <2>3. clicks <= clicks'
    BY <2>1, Counts
  <2> QED BY <1>5, <2>2, <2>3, OnlyWindow DEF on_checkBox_all, wires, watchdog
<1>6. ASSUME NEW name \in {"moveto_mult", "setmult_par"}, Confirms(name) PROVE TInv'
  <2>1. /\ Click /\ Opens(Dialog(name, checkBox))
        /\ UNCHANGED <<labels, checkBox, socket, existence, stream, unsignalled, written,
                       server, connected>>
    BY <1>6 DEF Confirms, wires, watchdog
  <2>2. clicks' \in 0 .. MaxClicks /\ clicks' = clicks + 1 /\ modal = <<>> /\ ~Asking
    BY <2>1, Clicked DEF TInv
  <2>3. WindowOK'
    BY <2>1, <2>2, WindowSame DEF TInv
  <2>4. ModalOK' /\ ~Asking' /\ Len(modal') = 1
    BY <1>6, <2>1, <2>2, OpensConfirmation DEF TInv, WindowOK
  <2>5. StreamOK'
    BY <2>1, <2>2, <2>4 DEF TInv, StreamOK
  <2>6. ServerOK' /\ LinkOK'
    BY <2>1, ServerSame DEF TInv, LinkOK
  <2>7. OwedOK'
    <3>1. /\ Len(written') \in Nat /\ Number(stream') \in Nat /\ Number(answers') \in Nat
          /\ Len(modal') \in Nat /\ clicks' \in Nat
      BY <2>3, <2>4, <2>5, <2>6, CountsNext
    <3>2. 0 \in Int /\ 1 \in Int
      OBVIOUS
    <3>3. /\ Len(written') <= Len(written) + 0 /\ Number(stream') <= Number(stream) + 0
          /\ Number(answers') <= Number(answers) + 0 /\ Len(modal') <= Len(modal) + 1
      BY <2>1, <2>2, <2>4, Counts DEF server
    <3>4. clicks + (0 + 0 + 0 + 1) <= clicks'
      BY <2>2, Counts
    <3> QED BY <3>1, <3>2, <3>3, <3>4, OwedStep
  <2> QED BY <2>3, <2>4, <2>5, <2>6, <2>7 DEF TInv
<1>7. ASSUME NEW agreed \in BOOLEAN, Confirmed(agreed) PROVE TInv'
  <2>1. /\ modal # <<>> /\ Last(modal).kind \in {"moveto_mult", "setmult_par"} /\ Closes
        /\ UNCHANGED <<labels, checkBox, clicks, wires, server, watchdog>>
    BY <1>7 DEF Confirmed, InFront
  <2>2. WindowOK'
    BY <2>1, WindowSame DEF wires, TInv, WindowOK
  <2>3. Line(Last(modal).kind, checkBox) \in Lines
    BY <2>1, LineTyped DEF LineNames, TInv, WindowOK
  <2>4. written' = written \/ written' = Append(written, Line(Last(modal).kind, checkBox))
    BY <1>7 DEF Confirmed
  <2> QED BY <2>1, <2>2, <2>3, <2>4, CloseTyped DEF wires, watchdog
<1>8. on_MoveTo_all \/ on_SetParameterDriver_all =>
        Confirms("moveto_mult") \/ Confirms("setmult_par")
  BY DEF on_MoveTo_all, on_SetParameterDriver_all
<1> QED BY <1>1, <1>2, <1>3, <1>4, <1>5, <1>6, <1>7, <1>8 DEF Dialogs

\* The connection with the watchdog.
LEMMA ExistenceTyped ==
  ASSUME TInv,
         \/ Errore_existence \/ on_ConnectExistence \/ on_DisconnectExistence
         \/ \E line : ToWatchdog(line)
  PROVE  TInv'
<1>1. UNCHANGED <<modal, stream, socket, unsignalled, written, server, connected>>
  BY DEF Errore_existence, on_ConnectExistence, on_DisconnectExistence, ToWatchdog, Requests,
       wires, watchdog
<1>2. clicks' \in 0 .. MaxClicks /\ clicks <= clicks'
  <2>1. CASE Click
    BY <2>1, Clicked, Counts DEF TInv
  <2>2. CASE UNCHANGED clicks
    BY <2>2, Counts DEF TInv, WindowOK
  <2> QED BY <2>1, <2>2
          DEF Errore_existence, on_ConnectExistence, on_DisconnectExistence, ToWatchdog
<1>3. CASE Errore_existence \/ on_DisconnectExistence
  BY <1>1, <1>2, <1>3, UnlabelledTyped, OnlyWindow
     DEF Errore_existence, on_DisconnectExistence, TInv, WindowOK
<1>4. CASE on_ConnectExistence
  <2>1. CASE Unlabelled(1) /\ UNCHANGED existence
    BY <1>1, <1>2, <1>4, <2>1, UnlabelledTyped, OnlyWindow
       DEF on_ConnectExistence, TInv, WindowOK
  <2>2. CASE existence' = "open" /\ Labelled(1, TRUE) /\ UNCHANGED label_statusAll
    <3>1. WindowOK'
      BY <1>2, <1>4, <2>2
         DEF on_ConnectExistence, OtherLabels, Labelled, TInv, WindowOK, DisplayOK
    <3> QED BY <1>1, <1>2, <3>1, OnlyWindow
  <2> QED BY <1>4, <2>1, <2>2 DEF on_ConnectExistence
<1>5. ASSUME NEW line, ToWatchdog(line) PROVE TInv'
  <2>1. WindowOK'
    BY <1>2, <1>5, WindowSame DEF ToWatchdog, wires, TInv
  <2> QED BY <1>1, <1>2, <2>1, OnlyWindow
<1> QED BY <1>3, <1>4, <1>5

------------------------------------------------------------------------------
(* What a step of the connection, or of the server, keeps of the types. *)

\* The numbers of nothing.
LEMMA NothingUnderWay ==
  /\ <<>> \in Seq(Parts) /\ <<>> \in Seq(Texts) /\ Len(<<>>) = 0 /\ Number(<<>>) = 0
BY NumberOfNone

\* The lines under way, when nobody waits for their answers.
LEMMA UnheardTyped ==
  ASSUME ServerOK, NEW lines, lines = [i \in DOMAIN written |-> [written[i] EXCEPT !.heard = FALSE]]
  PROVE  lines \in Seq(Lines) /\ Len(lines) = Len(written)
<1>1. written \in Seq(Lines) /\ Len(written) \in Nat
  BY DEF ServerOK
<1>2. \A i \in 1 .. Len(written) : [written[i] EXCEPT !.heard = FALSE] \in Lines
  <2> SUFFICES ASSUME NEW i \in 1 .. Len(written)
               PROVE  [written[i] EXCEPT !.heard = FALSE] \in Lines
    OBVIOUS
  <2>1. PICK line \in Lines : line = written[i]
    BY <1>1
  <2>2. [line EXCEPT !.heard = FALSE] \in Lines
    BY DEF Lines
  <2> QED BY <2>1, <2>2
<1>3. lines = [i \in 1 .. Len(written) |-> [written[i] EXCEPT !.heard = FALSE]]
  BY <1>1
<1>4. lines \in [1 .. Len(written) -> Lines]
  BY <1>2, <1>3
<1> QED BY <1>1, <1>4

\* A step that loses what is under way.
LEMMA LosesTyped ==
  ASSUME TInv, WindowOK', clicks <= clicks', LinkOK', UNCHANGED <<modal, OfServer>>,
         stream' = <<>>, unsignalled' = 0, answers' = <<>>,
         socket' \in {"closed", "open", "broken"},
         written' \in Seq(Lines), Len(written') <= Len(written)
  PROVE  TInv'
<1>1. ModalOK' /\ (Asking' <=> Asking)
  BY ModalSame DEF TInv
<1>2. StreamOK'
  <2>1. stream' \in Seq(Parts) /\ Len(stream') = 0
    BY NothingUnderWay
  <2>2. 0 \in 0 .. 0 /\ 0 <= 2 * MaxStream /\ 0 - 0 <= 2 * MaxStream
    BY BoundAssumption
  <2> QED BY <2>1, <2>2 DEF StreamOK
<1>3. ServerOK'
  BY NothingUnderWay DEF TInv, ServerOK, OfServer
<1>4. OwedOK'
  <2>1. /\ Len(written') \in Nat /\ Number(stream') \in Nat /\ Number(answers') \in Nat
        /\ Len(modal') \in Nat /\ clicks' \in Nat
    BY <1>1, <1>2, <1>3, CountsNext
  <2>2. /\ Len(written') <= Len(written) + 0 /\ Number(stream') <= Number(stream) + 0
        /\ Number(answers') <= Number(answers) + 0 /\ Len(modal') <= Len(modal) + 0
    <3>1. Number(stream') = 0 /\ Number(answers') = 0
      BY NothingUnderWay
    <3>2. Number(stream') <= Number(stream) + 0 /\ Number(answers') <= Number(answers) + 0
      BY <3>1, Counts
    <3>3. Len(written') <= Len(written) + 0 /\ Len(modal') <= Len(modal) + 0
      BY Counts
    <3> QED BY <3>2, <3>3
  <2>3. 0 \in Int /\ clicks + (0 + 0 + 0 + 0) <= clicks'
    BY Counts
  <2> QED BY <2>1, <2>2, <2>3, OwedStep
<1> QED BY <1>1, <1>2, <1>3, <1>4 DEF TInv

\* The end of a connection.
LEMMA DisconnectedTyped ==
  ASSUME TInv, Unlabelled(2), Disconnected, Window \notin connected',
         UNCHANGED <<OtherLabels, checkBox, modal, existence, OfServer>>,
         clicks' \in 0 .. MaxClicks, clicks <= clicks'
  PROVE  TInv'
<1>1. WindowOK'
  BY UnlabelledTyped DEF TInv, WindowOK
<1>2. LinkOK'
  BY DEF Disconnected, LinkOK
<1>3. /\ written' \in Seq(Lines) /\ Len(written') = Len(written)
  BY UnheardTyped DEF Disconnected, TInv
<1>4. Len(written') <= Len(written)
  BY <1>3, Counts
<1> QED BY <1>1, <1>2, <1>3, <1>4, LosesTyped DEF Disconnected, TInv, StreamOK

LEMMA ConnectionTyped ==
  ASSUME TInv, ConnectionSteps
  PROVE  TInv'
<1>1. clicks' \in 0 .. MaxClicks /\ clicks <= clicks'
  <2>1. CASE Click
    BY <2>1, Clicked, Counts DEF TInv
  <2>2. CASE UNCHANGED clicks
    BY <2>2, Counts DEF TInv, WindowOK
  <2> QED BY <2>1, <2>2
          DEF ConnectionSteps, Errore, on_ConnectToServerButton, on_DisconnectToServerButton,
              on_KillProcess_CollSoft, ServerDies, window
<1>2. CASE Errore
  <2>1. Window \notin connected'
    BY <1>2 DEF Errore, watchdog, TInv, LinkOK
  <2> QED BY <1>1, <1>2, <2>1, DisconnectedTyped DEF Errore
<1>3. CASE on_DisconnectToServerButton
  BY <1>1, <1>3, DisconnectedTyped DEF on_DisconnectToServerButton, Leaves
<1>4. CASE on_KillProcess_CollSoft
  <2>1. Window \notin connected'
    BY <1>4 DEF on_KillProcess_CollSoft, RequestsAndLeaves, Leaves
  <2> QED BY <1>1, <1>4, <2>1, DisconnectedTyped DEF on_KillProcess_CollSoft
<1>5. CASE on_ConnectToServerButton
  <2>1. /\ Click /\ UNCHANGED <<checkBox, modal, written, server>>
    BY <1>5 DEF on_ConnectToServerButton
  <2>2. CASE socket # "closed"
    <3>1. UNCHANGED <<labels, wires, watchdog>>
      BY <1>5, <2>2 DEF on_ConnectToServerButton
    <3>2. WindowOK'
      BY <1>1, <2>1, <3>1, WindowSame DEF wires, TInv
    <3> QED BY <1>1, <2>1, <3>1, <3>2, OnlyWindow DEF wires, watchdog
  <2>3. CASE socket = "closed" /\ port \notin Pids
    <3>1. Unlabelled(2) /\ UNCHANGED <<OtherLabels, wires, watchdog>>
      BY <1>5, <2>3 DEF on_ConnectToServerButton
    <3>2. WindowOK'
      BY <1>1, <2>1, <3>1, UnlabelledTyped DEF wires, TInv, WindowOK
    <3> QED BY <1>1, <2>1, <3>1, <3>2, OnlyWindow DEF wires, watchdog
  <2>4. CASE socket = "closed" /\ port \in Pids
    <3>1. /\ Accepts(Window) /\ socket' = "open"
          /\ stream' = SendBlock(<<>>, [kind |-> "welcome"])
          /\ UNCHANGED <<labels, existence, unsignalled>>
      BY <1>5, <2>4 DEF on_ConnectToServerButton
    <3>2. WindowOK'
      BY <1>1, <2>1, <3>1, WindowSame DEF TInv
    <3>3. ModalOK' /\ (Asking' <=> Asking)
      BY <2>1, ModalSame DEF TInv
    <3>4. LinkOK'
      BY <3>1 DEF Accepts, LinkOK
    <3>5. ServerOK'
      BY <2>1, ServerSame DEF TInv
    <3>6. [kind |-> "welcome"] \in Texts /\ [kind |-> "welcome"] \notin Questions
      BY DEF Texts, Questions
    <3>7. /\ stream' \in Seq(Parts) /\ Len(stream') = 2 /\ Number(stream') <= 0
      <4>1. /\ stream' \in Seq(Parts) /\ Len(stream') = Len(<<>>) + 2
            /\ Number(stream') <= Number(<<>>) + 0
        BY <3>1, <3>6, NothingUnderWay, NumberOfSent
      <4> QED BY <4>1, NothingUnderWay
    <3>8. StreamOK'
      <4>1. unsignalled' = 0
        BY <2>4, <3>1, NothingUnderWay DEF TInv, StreamOK
      <4>2. 2 <= 2 * MaxStream /\ 0 \in 0 .. 2 /\ 0 <= 2 * MaxStream /\ 2 - 0 <= 2 * MaxStream
        BY BoundAssumption
      <4> QED BY <3>1, <3>7, <4>1, <4>2 DEF StreamOK
    <3>9. OwedOK'
      <4>1. /\ Len(written') \in Nat /\ Number(stream') \in Nat /\ Number(answers') \in Nat
            /\ Len(modal') \in Nat /\ clicks' \in Nat
        BY <3>2, <3>3, <3>5, <3>8, CountsNext
      <4>2. /\ Number(answers') <= Number(answers) + 0 /\ Number(stream') <= Number(stream) + 0
        BY <2>1, <3>7, <4>1, Counts DEF server
      <4>3. Len(written') <= Len(written) + 0 /\ Len(modal') <= Len(modal) + 0
        BY <2>1, Counts
      <4>4. 0 \in Int /\ clicks + (0 + 0 + 0 + 0) <= clicks'
        BY <1>1, Counts
      <4> QED BY <4>1, <4>2, <4>3, <4>4, OwedStep
    <3> QED BY <3>2, <3>3, <3>4, <3>5, <3>8, <3>9 DEF TInv
  <2> QED BY <2>2, <2>3, <2>4
<1>6. ASSUME NEW p \in Pids, ServerDies(p) PROVE TInv'
  <2>1. /\ Dies(p) /\ UNCHANGED <<window, existence, stream, unsignalled, finding>>
    BY <1>6 DEF ServerDies
  <2>2. WindowOK' /\ ModalOK' /\ (Asking' <=> Asking)
    BY <1>1, <2>1, WindowSame, ModalSame DEF window, TInv
  <2>3. CASE port = p
    <3>1. /\ socket' = IF socket = "open" THEN "broken" ELSE socket
          /\ written' = <<>> /\ answers' = <<>> /\ question' = "none"
          /\ verified' = [k \in Checks |-> FALSE] /\ linked' = FALSE /\ loaded' = FALSE
          /\ connected' = {}
      BY <1>6, <2>1, <2>3 DEF ServerDies, Dies
    <3>2. StreamOK'
      BY <2>1, <2>2, <3>1 DEF TInv, StreamOK
    <3>3. ServerOK' /\ LinkOK'
      <4>1. <<>> \in Seq(Lines) /\ <<>> \in Seq(Texts)
        OBVIOUS
      <4>2. ServerOK'
        BY <2>1, <3>1, <4>1 DEF TInv, ServerOK
      <4>3. socket' # "open" /\ Window \notin connected'
        BY <3>1
      <4> QED BY <4>2, <4>3 DEF LinkOK
    <3>4. OwedOK'
      <4>1. /\ Len(written') \in Nat /\ Number(stream') \in Nat /\ Number(answers') \in Nat
            /\ Len(modal') \in Nat /\ clicks' \in Nat
        BY <2>2, <3>2, <3>3, CountsNext
      <4>2. Len(written') = 0 /\ Number(answers') = 0
        BY <3>1, NothingUnderWay
      <4>3. /\ Len(written') <= Len(written) + 0 /\ Number(stream') <= Number(stream) + 0
            /\ Number(answers') <= Number(answers) + 0 /\ Len(modal') <= Len(modal) + 0
        BY <2>1, <4>2, Counts DEF window
      <4>4. 0 \in Int /\ clicks + (0 + 0 + 0 + 0) <= clicks'
        BY <1>1, Counts
      <4> QED BY <4>1, <4>3, <4>4, OwedStep
    <3> QED BY <2>2, <3>2, <3>3, <3>4 DEF TInv
  <2>4. CASE port # p
    <3>1. UNCHANGED <<socket, written, answers, question, verified, linked, loaded, connected>>
      BY <1>6, <2>1, <2>4 DEF ServerDies, Dies
    <3> QED BY <1>1, <2>1, <2>2, <3>1, OnlyWindow DEF window, server
  <2> QED BY <2>3, <2>4
<1> QED BY <1>2, <1>3, <1>4, <1>5, <1>6 DEF ConnectionSteps

\* What the window has no part in.
LEMMA OthersTyped ==
  ASSUME TInv, Others
  PROVE  TInv'
<1>1. UNCHANGED <<window, wires, written, server>>
  BY DEF Others
<1>2. Window \in connected' <=> Window \in connected
  <2>1. ASSUME NEW w \in Loops, Loop(w) PROVE UNCHANGED connected
    BY <2>1 DEF Loop, GetCommand, check_process, kill_process, waitpid, new_process
  <2>2. ASSUME NEW p \in Pids, execl(p) \/ Starts(p) \/ Binds(p) PROVE UNCHANGED connected
    BY <2>2 DEF execl, Starts, Binds
  <2>3. ASSUME NEW c \in Clients \ {Window}, Accepts(c) \/ Leaves(c)
        PROVE  Window \in connected' <=> Window \in connected
    BY <2>3 DEF Accepts, Leaves
  <2>4. ASSUME NEW line, Requests(line) PROVE UNCHANGED connected
    BY <2>4 DEF Requests
  <2>5. LingeringEnds => UNCHANGED connected
    BY DEF LingeringEnds
  <2> QED BY <2>1, <2>2, <2>3, <2>4, <2>5 DEF Others
<1>3. WindowOK' /\ ModalOK' /\ StreamOK'
  BY <1>1, WindowSame, ModalSame, StreamSame DEF window, wires, TInv, WindowOK
<1>4. ServerOK' /\ LinkOK' /\ OwedOK'
  BY <1>1, <1>2, ServerSame, OwedSame DEF window, wires, server, TInv, LinkOK
<1> QED BY <1>3, <1>4 DEF TInv

------------------------------------------------------------------------------
\* A step of the server: what it takes, and what it has to say instead.
LEMMA ServerKeeps ==
  ASSUME TInv, StreamOK', ServerOK',
         UNCHANGED <<window, socket, existence, connected>>,
         NEW w \in Int, NEW s \in Int, NEW a \in Int, w + s + a <= 0,
         Len(written') <= Len(written) + w, Number(stream') <= Number(stream) + s,
         Number(answers') <= Number(answers) + a
  PROVE  TInv'
<1>1. WindowOK' /\ ModalOK' /\ LinkOK'
  BY WindowSame, ModalSame DEF window, TInv, LinkOK, WindowOK
<1>2. OwedOK'
  <2>1. /\ Len(written') \in Nat /\ Number(stream') \in Nat /\ Number(answers') \in Nat
        /\ Len(modal') \in Nat /\ clicks' \in Nat
    BY <1>1, CountsNext
  <2>2. 0 \in Int /\ Len(modal') <= Len(modal) + 0 /\ clicks + (w + s + a + 0) <= clicks'
    BY Counts DEF window
  <2> QED BY <2>1, <2>2, OwedStep
<1> QED BY <1>1, <1>2 DEF TInv

\* A line is taken from the connection.
LEMMA TakenLine ==
  ASSUME ServerOK, written # <<>>
  PROVE  /\ Head(written) \in Lines /\ Tail(written) \in Seq(Lines)
         /\ Len(Tail(written)) <= Len(written) + (-1)
BY DEF ServerOK

\* A check that is over is said to be so.
LEMMA QuestionEndsTyped ==
  ASSUME TInv, question # "none", answers = <<>>, NEW accepted \in BOOLEAN,
         QuestionEnds(accepted), NEW w \in {0, -1},
         written' \in Seq(Lines), Len(written') <= Len(written) + w
  PROVE  TInv'
<1>1. /\ UNCHANGED <<window, socket, existence, stream, unsignalled, connected>>
      /\ UNCHANGED <<linked, loaded, finding>> /\ question' = "none"
      /\ verified' = [verified EXCEPT ![question] = accepted]
  BY DEF QuestionEnds, wires, watchdog
<1>2. StreamOK'
  BY <1>1, StreamSame DEF window, TInv
<1>3. question \in Checks
  BY DEF TInv, ServerOK
<1>4. InternalOf(question, accepted) \in Plain
  BY <1>3, PlainTexts DEF InternalOf
<1>5. answers' \in Seq(Plain)
  BY <1>4 DEF QuestionEnds
<1>6. answers' \in Seq(Texts) /\ Number(answers') = 0
  BY <1>5, PlainIsUnasked
<1>7. verified' \in [Checks -> BOOLEAN]
  BY <1>1 DEF TInv, ServerOK
<1>8. ServerOK'
  BY <1>1, <1>6, <1>7 DEF TInv, ServerOK
<1>9. /\ Number(stream') <= Number(stream) + 0 /\ Number(answers') <= Number(answers) + 0
      /\ w \in Int /\ 0 \in Int /\ w + 0 + 0 <= 0
  BY <1>1, <1>6, Counts
<1> QED BY <1>1, <1>2, <1>8, <1>9, ServerKeeps

LEMMA TakesTyped ==
  ASSUME TInv, ServerTakes
  PROVE  TInv'
<1> DEFINE line == Head(written)
<1>1. /\ answers = <<>> /\ written # <<>> /\ written' = Tail(written)
      /\ UNCHANGED <<window, wires, verified, finding, watchdog>>
  BY DEF ServerTakes
<1>2. /\ line \in Lines /\ Tail(written) \in Seq(Lines)
      /\ Len(Tail(written)) <= Len(written) + (-1)
  BY <1>1, TakenLine DEF TInv
<1>3. /\ UNCHANGED <<window, socket, existence, stream, unsignalled, connected>>
  BY <1>1 DEF wires, watchdog
<1>4. StreamOK'
  BY <1>3, StreamSame DEF window, TInv
<1>5. /\ answers' \in Seq(Texts) /\ Number(answers') <= 1
      /\ question' \in Checks \cup {"none"} /\ linked' \in BOOLEAN /\ loaded' \in BOOLEAN
  <2>1. CASE line.name \in Checks
    <3> DEFINE asked == [kind |-> "question", check |-> line.name]
    <3>1. /\ question' = line.name /\ linked' = linked /\ loaded' = loaded
          /\ answers' = Heard(line, <<asked>>)
      BY <2>1 DEF ServerTakes
    <3>2. asked \in Texts
      BY <2>1 DEF Texts, Questions
    <3>3. answers' = <<asked>> \/ answers' = <<>>
      BY <3>1 DEF Heard
    <3>4. answers' \in Seq(Texts) /\ Len(answers') <= 1
      <4>1. /\ <<asked>> \in Seq(Texts) /\ Len(<<asked>>) = 1
            /\ <<>> \in Seq(Texts) /\ Len(<<>>) = 0
        BY <3>2
      <4>2. 0 <= 1 /\ 1 <= 1
        OBVIOUS
      <4> QED BY <3>3, <4>1, <4>2, Zenon
    <3>5. Number(answers') \in Nat /\ Number(answers') <= Len(answers') /\ Len(answers') \in Nat
      BY <3>4, NumberIs
    <3>6. Number(answers') <= 1
      BY <3>4, <3>5
    <3> QED BY <2>1, <3>1, <3>4, <3>6 DEF TInv, ServerOK
  <2>2. CASE line.name \notin Checks
    <3>1. PICK texts \in Replies(line) :
            /\ answers' = Heard(line, texts)
            /\ linked' = IF line.name = "connect" THEN Head(texts).okay ELSE linked
            /\ loaded' \in IF line.name = "load_encoder_from_file" THEN BOOLEAN ELSE {loaded}
            /\ question' = question
      BY <2>2 DEF ServerTakes
    <3>2. /\ texts \in Seq(Texts) /\ Number(texts) <= 1
          /\ line.name = "connect" => Head(texts).okay \in BOOLEAN
      BY <1>2, RepliesArePlain DEF TInv, ServerOK
    <3>3. answers' = texts \/ answers' = <<>>
      BY <3>1 DEF Heard
    <3>4. answers' \in Seq(Texts) /\ Number(answers') <= 1
      <4>1. 0 <= 1
        OBVIOUS
      <4> QED BY <3>2, <3>3, <4>1, NothingUnderWay, Zenon
    <3>5. linked' \in BOOLEAN /\ loaded' \in BOOLEAN
      BY <3>1, <3>2 DEF TInv, ServerOK
    <3> QED BY <3>1, <3>4, <3>5 DEF TInv, ServerOK
  <2> QED BY <2>1, <2>2
<1> HIDE DEF line
<1>6. ServerOK'
  BY <1>1, <1>2, <1>5 DEF TInv, ServerOK
<1>7. /\ Len(written') <= Len(written) + (-1) /\ Number(stream') <= Number(stream) + 0
      /\ Number(answers') <= Number(answers) + 1
  <2>1. Number(answers) = 0
    BY <1>1, NothingUnderWay
  <2> QED BY <1>1, <1>2, <1>3, <1>5, <2>1, Counts
<1>8. -1 \in Int /\ 0 \in Int /\ 1 \in Int /\ (-1) + 0 + 1 <= 0
  OBVIOUS
<1> QED BY <1>3, <1>4, <1>6, <1>7, <1>8, ServerKeeps

\* What is sent while there is room for it.
LEMMA SentTyped ==
  ASSUME TInv, Room, NEW text \in Texts, socket = "open", stream' = SendBlock(stream, text),
         UNCHANGED <<window, socket, existence, unsignalled>>
  PROVE  /\ StreamOK'
         /\ Number(stream') <=
              Number(stream) + (IF text \in Questions /\ text # Padding THEN 1 ELSE 0)
<1>1. /\ stream' \in Seq(Parts) /\ Len(stream') = Len(stream) + 2
      /\ Number(stream') <=
           Number(stream) + (IF text \in Questions /\ text # Padding THEN 1 ELSE 0)
  BY NumberOfSent DEF TInv, StreamOK
<1>2. Asking' <=> Asking
  BY ModalSame DEF window, TInv
<1>3. PICK n \in Nat, m \in Nat, u \in Nat :
        n = Len(stream) /\ m = MaxStream /\ u = unsignalled
  BY Counts DEF TInv, StreamOK
<1>4. u <= n /\ u <= 2 * m
  BY <1>3 DEF TInv, StreamOK
<1>5. unsignalled' \in 0 .. Len(stream') /\ unsignalled' <= 2 * MaxStream
  BY <1>1, <1>3, <1>4
<1>6. CASE Asking
  <2>1. n + 2 <= 2 * m
    BY <1>3, <1>6 DEF Room
  <2>2. Len(stream') <= 2 * MaxStream
    BY <1>1, <1>3, <2>1
  <2> QED BY <1>1, <1>2, <1>5, <1>6, <2>2 DEF TInv, StreamOK
<1>7. CASE ~Asking
  <2>1. n - u + 2 <= 2 * m
    BY <1>3, <1>7 DEF Room
  <2>2. Len(stream') - unsignalled' <= 2 * MaxStream
    BY <1>1, <1>3, <2>1
  <2> QED BY <1>1, <1>2, <1>5, <1>7, <2>2 DEF TInv, StreamOK
<1> QED BY <1>6, <1>7

LEMMA SendsTyped ==
  ASSUME TInv, ServerSends
  PROVE  TInv'
<1> DEFINE text == Head(answers)
           asks == IF text \in Questions /\ text # Padding THEN 1 ELSE 0
<1>1. /\ answers # <<>> /\ socket = "open" /\ Room
      /\ stream' = SendBlock(stream, text) /\ answers' = Tail(answers)
      /\ UNCHANGED <<window, socket, existence, unsignalled, written, connected>>
      /\ UNCHANGED <<question, verified, linked, loaded, finding>>
  BY DEF ServerSends, OfServer, watchdog
<1>2. answers \in Seq(Texts)
  BY DEF TInv, ServerOK
<1>3. text \in Texts /\ Tail(answers) \in Seq(Texts) /\ 1 \in DOMAIN answers /\ text = answers[1]
  BY <1>1, <1>2
<1>4. asks \in {0, 1}
  OBVIOUS
<1>5. asks = 1 <=> 1 \in QuestionsIn(answers)
  BY <1>3 DEF QuestionsIn
<1> HIDE DEF text
<1>6. StreamOK' /\ Number(stream') <= Number(stream) + asks
  BY <1>1, <1>3, SentTyped
<1>7. ServerOK'
  BY <1>1, <1>3 DEF TInv, ServerOK
<1>8. Number(answers') <= Number(answers) - (IF 1 \in QuestionsIn(answers) THEN 1 ELSE 0)
  BY <1>1, <1>2, NumberOfTail
<1> HIDE DEF asks
<1>9. Number(answers') <= Number(answers) + (0 - asks)
  BY <1>4, <1>5, <1>8, Counts
<1>10. /\ Len(written') <= Len(written) + 0
       /\ asks \in Int /\ 0 \in Int /\ 0 - asks \in Int /\ 0 + asks + (0 - asks) <= 0
  BY <1>1, <1>4, Counts
<1> QED BY <1>1, <1>6, <1>7, <1>9, <1>10, ServerKeeps

LEMMA ReportsTyped ==
  ASSUME TInv, NEW d \in Reported, Reports(d)
  PROVE  TInv'
<1> DEFINE text == [kind |-> "position", drv |-> d, status |-> finding[d]]
<1>1. /\ socket = "open" /\ Room /\ stream' = SendBlock(stream, text)
      /\ UNCHANGED <<window, socket, existence, unsignalled, written, server, connected>>
  BY DEF Reports, watchdog
<1>2. text \in Plain
  BY PlainTexts DEF TInv, ServerOK
<1> HIDE DEF text
<1>3. text \in Texts /\ text \notin Questions
  BY <1>2 DEF Plain
<1>4. StreamOK' /\ Number(stream') <= Number(stream) + 0
  BY <1>1, <1>3, SentTyped
<1>5. ServerOK'
  BY <1>1, ServerSame DEF TInv
<1>6. /\ Len(written') <= Len(written) + 0 /\ Number(answers') <= Number(answers) + 0
      /\ 0 \in Int /\ 0 + 0 + 0 <= 0
  BY <1>1, Counts DEF server
<1> QED BY <1>1, <1>4, <1>5, <1>6, ServerKeeps

LEMMA ServerTyped ==
  ASSUME TInv, ServerSteps
  PROVE  TInv'
<1>1. CASE ServerHears
  <2>1. /\ question # "none" /\ answers = <<>> /\ written # <<>> /\ written' = Tail(written)
    BY <1>1 DEF ServerHears
  <2>2. written' \in Seq(Lines) /\ Len(written') <= Len(written) + (-1)
    BY <2>1, TakenLine DEF TInv
  <2>3. CASE QuestionEnds(Head(written).name = "y")
    <3>1. (Head(written).name = "y") \in BOOLEAN
      OBVIOUS
    <3> QED BY <2>1, <2>2, <2>3, <3>1, QuestionEndsTyped
  <2>4. CASE UNCHANGED <<window, wires, server, watchdog>>
    <3>1. UNCHANGED <<window, socket, existence, stream, unsignalled, connected>>
      BY <2>4 DEF wires, watchdog
    <3>2. StreamOK'
      BY <3>1, StreamSame DEF window, TInv
    <3>3. ServerOK'
      BY <2>2, <2>4 DEF server, TInv, ServerOK
    <3>4. /\ Number(stream') <= Number(stream) + 0 /\ Number(answers') <= Number(answers) + 0
          /\ -1 \in Int /\ 0 \in Int /\ (-1) + 0 + 0 <= 0
      BY <2>4, <3>1, Counts DEF server
    <3> QED BY <2>2, <3>1, <3>2, <3>3, <3>4, ServerKeeps
  <2> QED BY <1>1, <2>3, <2>4 DEF ServerHears
<1>2. CASE ServerGivesUp \/ AnotherAnswers
  <2>1. /\ question # "none" /\ answers = <<>> /\ UNCHANGED written
        /\ \E accepted \in BOOLEAN : QuestionEnds(accepted)
    BY <1>2 DEF ServerGivesUp, AnotherAnswers
  <2>2. written' \in Seq(Lines) /\ Len(written') <= Len(written) + 0
    BY <2>1, Counts DEF TInv, ServerOK
  <2> QED BY <2>1, <2>2, QuestionEndsTyped
<1>3. CASE AnotherClient
  <2>1. /\ UNCHANGED <<window, socket, existence, stream, unsignalled, connected>>
        /\ UNCHANGED <<written, answers, question, verified, finding>>
        /\ linked' \in BOOLEAN /\ loaded' \in BOOLEAN
    BY <1>3 DEF AnotherClient, wires, watchdog
  <2>2. StreamOK'
    BY <2>1, StreamSame DEF window, TInv
  <2>3. ServerOK'
    BY <2>1 DEF TInv, ServerOK
  <2>4. /\ Len(written') <= Len(written) + 0 /\ Number(stream') <= Number(stream) + 0
        /\ Number(answers') <= Number(answers) + 0 /\ 0 \in Int /\ 0 + 0 + 0 <= 0
    BY <2>1, Counts
  <2> QED BY <2>1, <2>2, <2>3, <2>4, ServerKeeps
<1> QED BY <1>1, <1>2, <1>3, TakesTyped, SendsTyped, ReportsTyped DEF ServerSteps

LEMMA TypesStart == Init => TInv
<1> SUFFICES ASSUME Init PROVE TInv
  OBVIOUS
<1>1. WindowOK
  <2>1. 0 \in 0 .. MaxClicks
    BY BoundAssumption
  <2>2. DisplayOK
    BY DEF Init, DisplayOK, Places
  <2> QED BY <2>1, <2>2 DEF Init, WindowOK
<1>2. ModalOK /\ ~Asking
  BY DEF Init, ModalOK, Asking, InFront
<1>3. StreamOK
  <2>1. 0 \in 0 .. 0 /\ 0 <= 2 * MaxStream /\ 0 - 0 <= 2 * MaxStream
    BY BoundAssumption
  <2> QED BY <1>2, <2>1, NothingUnderWay DEF Init, StreamOK
<1>4. LinkOK
  BY DEF Init, WatchdogInit, LinkOK
<1>5. ServerOK
  <2>1. <<>> \in Seq(Lines) /\ <<>> \in Seq(Texts)
    OBVIOUS
  <2>2. verified \in [Checks -> BOOLEAN] /\ finding \in [Reported -> Findings]
    BY DEF Init
  <2> QED BY <2>1, <2>2 DEF Init, ServerOK
<1>6. OwedOK
  BY NothingUnderWay DEF Init, OwedOK
<1> QED BY <1>1, <1>2, <1>3, <1>4, <1>5, <1>6 DEF TInv

LEMMA TypesStep ==
  ASSUME TInv, [Next]_vars
  PROVE  TInv'
<1>1. CASE Read
  BY <1>1, ReadTyped
<1>2. CASE Dialogs
  BY <1>2, DialogsTyped
<1>3. CASE Writings
  BY <1>3, WritingsTyped
<1>4. CASE ServerSteps
  BY <1>4, ServerTyped
<1>5. CASE \/ Errore_existence \/ on_ConnectExistence \/ on_DisconnectExistence
           \/ ToWatchdog("check_process") \/ ToWatchdog("new_process")
  BY <1>5, ExistenceTyped
<1>6. CASE ConnectionSteps
  BY <1>6, ConnectionTyped
<1>7. CASE Others
  BY <1>7, OthersTyped
<1>8. CASE UNCHANGED vars
  BY <1>8, OnlyWindow, WindowSame, Counts DEF vars, window, wires, watchdog, TInv, WindowOK
<1> QED BY <1>1, <1>2, <1>3, <1>4, <1>5, <1>6, <1>7, <1>8, Steps

\* The variables of the window, of its connections and of the watchdog hold
\* what they are meant to hold, and no more is under way than the bounds say.
THEOREM TypeCorrect == Spec => []TypeOK
<1>1. Init => WInv /\ TInv
  BY WatchdogStart, TypesStart DEF Init
<1>2. WInv /\ TInv /\ [Next]_vars => (WInv /\ TInv)'
  BY WatchdogStep, TypesStep
<1>3. WInv /\ TInv => TypeOK
  BY BoundsFollow
<1> QED BY <1>1, <1>2, <1>3, PTL DEF Spec
==============================================================================

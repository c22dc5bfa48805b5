---------------------------- MODULE CheckExistence -----------------------------
(***************************************************************************)
(* CheckExistence (MainExistence.c): the watchdog through which a client   *)
(* looks for the server, kills it and starts it, and what becomes of the   *)
(* processes and of the server's port.                                     *)
(*                                                                         *)
(* The watchdog is one loop that takes the lines of its clients from a     *)
(* ring.  When the program of the server cannot be executed, the process   *)
(* forked for it goes on as a second such loop, with its copy of the ring. *)
(* pidof, fork, waitpid and the port are the operating system's: external. *)
(***************************************************************************)
EXTENDS Integers, Sequences, FiniteSets

CONSTANTS
  Pids,        \* bound: the processes there may ever be, beside the watchdog
  Clients,     \* the clients of the server
  MaxRequests  \* bound: lines sent to the watchdog

ASSUME PidAssumption == Pids \subseteq Nat \ {0} /\ MaxRequests \in Nat

Watchdog == 0
Loops == {Watchdog} \cup Pids
Nobody == -1
Lingering == -2     \* a port whose last connections are in TIME_WAIT

VARIABLES
  command,     \* the lines each loop has still to take
  doing,       \* what each loop is at: nothing, a line, or waitpid
  process,     \* what each process is
  parent,      \* the loop that forked it
  port,        \* who listens on SERVER_PORT: a process, Nobody, or Lingering
  connected,   \* the clients the server has accepted and that have not left
  answer,      \* the last thing said to a client of the watchdog
  requests     \* bound: lines sent

watchdog == <<command, doing, process, parent, port, connected, answer, requests>>

Idle == [at |-> "idle", pid |-> 0]
Said(w, text, pid) == [by |-> w, text |-> text, pid |-> pid]

WatchdogInit ==
  /\ command = [w \in Loops |-> <<>>] /\ doing = [w \in Loops |-> Idle]
  /\ process = [p \in Pids |-> "none"] /\ parent = [p \in Pids |-> Nobody]
  /\ port = Nobody /\ connected = {}
  /\ answer = Said(Watchdog, "none", 0) /\ requests = 0

------------------------------------------------------------------------------
(* The loop. *)

\* pidof CollSoft: also a process that has been sent a signal and still lives.
Pidof == { p \in Pids : process[p] \in {"started", "listening", "deaf", "killed"} }

\* The next process: they are numbered as they are created.
Unused == { p \in Pids : process[p] = "none" /\ \A q \in 1 .. p - 1 : q \in Pids
                                                => process[q] # "none" }
Runs(w) == w \in Pids => process[w] = "copy"

\* A line of a client: CommunicationObject::Worker.
Sent(line) ==
  /\ requests < MaxRequests /\ requests' = requests + 1
  /\ command' = [command EXCEPT ![Watchdog] = Append(@, line)]

Requests(line) ==
  Sent(line) /\ UNCHANGED <<doing, process, parent, port, connected, answer>>

\* The same, from a client of the server that has just left it.
RequestsAndLeaves(line, c) ==
  /\ Sent(line) /\ connected' = connected \ {c}
  /\ UNCHANGED <<doing, process, parent, port, answer>>

GetCommand(w) ==
  /\ Runs(w) /\ doing[w] = Idle /\ command[w] # <<>>
  /\ doing' = [doing EXCEPT ![w] = [at |-> Head(command[w]), pid |-> 0]]
  /\ command' = [command EXCEPT ![w] = Tail(@)]
  /\ UNCHANGED <<process, parent, port, connected, answer, requests>>

\* The end of a line: "END OF MESSAGE".
Ends(w, text, pid) ==
  doing' = [doing EXCEPT ![w] = Idle] /\ answer' = Said(w, text, pid)

check_process(w) ==
  /\ doing[w].at = "check_process"
  /\ Ends(w, IF Pidof # {} THEN "running" ELSE "not running", 0)
  /\ UNCHANGED <<command, process, parent, port, connected, requests>>

\* SIGKILL for the first process pidof finds.
kill_process(w) ==
  /\ doing[w].at = "kill_process"
  /\ \/ /\ Pidof = {} /\ Ends(w, "not running", 0)
        /\ UNCHANGED process
     \/ \E p \in Pidof :
          /\ process' = [process EXCEPT ![p] = "killed"]
          /\ doing' = [doing EXCEPT ![w] = [at |-> "waitpid", pid |-> p]]
          /\ answer' = Said(w, "killing", p)
  /\ UNCHANGED <<command, parent, port, connected, requests>>

\* A process that is nobody's child is not waited for.
Waited_Never(w, p) == TRUE
Waited_ForAny(w, p) == process[p] = "zombie"
Waited(w, p) == parent[p] # w \/ process[p] = "zombie"

waitpid(w) ==
  LET p == doing[w].pid
  IN  /\ doing[w].at = "waitpid" /\ Waited(w, p)
      /\ process' = [process EXCEPT ![p] =
                       IF parent[p] = w /\ @ = "zombie" THEN "gone" ELSE @]
      /\ Ends(w, "killed", p)
      /\ UNCHANGED <<command, parent, port, connected, requests>>

\* A fork that fails is told as a success, too.  The new process has a copy
\* of everything, the ring included.
new_process(w) ==
  /\ doing[w].at = "new_process"
  /\ \/ /\ Pidof # {} /\ Ends(w, "already running", 0)
        /\ UNCHANGED <<command, process, parent>>
     \/ /\ Pidof = {} /\ Ends(w, "created", 0)
        /\ UNCHANGED <<command, process, parent>>
     \/ \E p \in Unused :
          /\ Pidof = {} /\ Ends(w, "created", 0)
          /\ process' = [process EXCEPT ![p] = "forked"]
          /\ parent' = [parent EXCEPT ![p] = w]
          /\ command' = [command EXCEPT ![p] = command[w]]
  /\ UNCHANGED <<port, connected, requests>>

\* execl, which comes back only when it fails: the child then says what its
\* parent says, and goes on with the loop.  A worker that held the lock of the
\* ring at the fork is not there to give it back to the child: it is stuck.
execl(p) ==
  /\ process[p] = "forked"
  /\ \/ /\ process' = [process EXCEPT ![p] = "started"]
        /\ command' = [command EXCEPT ![p] = <<>>] /\ UNCHANGED answer
     \/ /\ process' \in { [process EXCEPT ![p] = s] : s \in {"copy", "stuck"} }
        /\ answer' = Said(p, "created", 0) /\ UNCHANGED command
  /\ UNCHANGED <<doing, parent, port, connected, requests>>

Loop(w) ==
  GetCommand(w) \/ check_process(w) \/ kill_process(w) \/ waitpid(w) \/ new_process(w)

------------------------------------------------------------------------------
(* The server as a process. *)

\* A server started by hand.
Starts(p) ==
  /\ p \in Unused
  /\ process' = [process EXCEPT ![p] = "started"]
  /\ UNCHANGED <<command, doing, parent, port, connected, answer, requests>>

\* CommunicationObject::Main: nobody looks at what bind returns, and a socket
\* without a port is given one by listen.
Binds(p) ==
  /\ process[p] = "started"
  /\ IF port = Nobody
       THEN port' = p /\ process' = [process EXCEPT ![p] = "listening"]
       ELSE UNCHANGED port /\ process' = [process EXCEPT ![p] = "deaf"]
  /\ UNCHANGED <<command, doing, parent, connected, answer, requests>>

\* The end of a process, by a signal or by itself.  The port stays occupied
\* when the server was the first to close a connection (no SO_REUSEADDR); a
\* connection whose client has left, or is reset, does not hold it.
Dies(p) ==
  /\ process[p] \in {"killed", "started", "listening", "deaf"}
  /\ process' = [process EXCEPT ![p] =
                   IF parent[p] # Nobody THEN "zombie" ELSE "gone"]
  /\ IF port = p
       THEN connected' = {} /\ port' \in IF connected = {} THEN {Nobody} ELSE {Nobody, Lingering}
       ELSE UNCHANGED <<port, connected>>
  /\ UNCHANGED <<command, doing, parent, answer, requests>>

LingeringEnds ==
  /\ port = Lingering /\ port' = Nobody
  /\ UNCHANGED <<command, doing, process, parent, connected, answer, requests>>

Accepts(c) ==
  /\ port \in Pids /\ c \notin connected
  /\ connected' = connected \cup {c}
  /\ UNCHANGED <<command, doing, process, parent, port, answer, requests>>

Leaves(c) ==
  /\ connected' = connected \ {c}
  /\ UNCHANGED <<command, doing, process, parent, port, answer, requests>>

WatchdogTypeOK ==
  /\ command \in [Loops -> Seq({"check_process", "kill_process", "new_process"})]
  /\ doing \in [Loops -> [at : {"idle", "check_process", "kill_process", "new_process",
                                 "waitpid"}, pid : {0} \cup Pids]]
  /\ process \in [Pids -> {"none", "forked", "started", "listening", "deaf", "killed",
                            "zombie", "gone", "copy", "stuck"}]
  /\ parent \in [Pids -> Loops \cup {Nobody}]
  /\ port \in Pids \cup {Nobody, Lingering} /\ connected \subseteq Clients
  /\ requests \in 0 .. MaxRequests
==============================================================================

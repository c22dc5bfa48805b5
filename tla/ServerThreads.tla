---------------------------- MODULE ServerThreads ----------------------------
(***************************************************************************)
(* The threads of the server and what they share: the acceptor (Main of    *)
(* CommunicationObject), one worker per connection, and the command thread *)
(* (the loop of Main.c), over the output module and the log file, each     *)
(* with its mutex.                                                         *)
(*                                                                         *)
(* A thread is the list of operations it has still to do; one critical     *)
(* section is one action, except that a thread which sends, or reads a log *)
(* file, holds its mutex over several.  The ring buffer between workers    *)
(* and command thread is the queue it implements (CommandQueue).  A client *)
(* connects once, so it stands for its socket and for the worker started   *)
(* for it.                                                                 *)
(***************************************************************************)
EXTENDS Integers, Sequences, FiniteSets

CONSTANTS
  Clients,
  MAXIMUM_CLIENT,
  MaxLines,       \* bound: lines a client sends
  SocketBuffer,   \* messages a client may leave unread before send blocks
  None

ASSUME TableAssumption == MAXIMUM_CLIENT \in Nat
ASSUME LinesAssumption == MaxLines \in Nat
ASSUME SendAssumption  == SocketBuffer \in Nat \ {0}
ASSUME NoneAssumption  == None \notin Clients /\ Clients \cap {"acceptor", "commander"} = {}

Threads == Clients \cup {"acceptor", "commander"}

VARIABLES
  net,                 \* "away", "calling", "connected" or "closed"
  stream,              \* lines on their way from a client
  lines,               \* bound: lines a client may still send
  unread,              \* messages on their way to a client
  ops,                 \* what each thread has still to do
  client_sock,         \* the acceptor's local variable
  sock,                \* the socket a worker reads from, once it has copied it
  queue,               \* the senders of the lines not yet taken
  sender,              \* user_sockid of the command in execution
  sockid_array,        \* the sockets in the table of the output module
  output_module_sockid,
  mtx_output,          \* the thread that holds the mutex between two actions
  mtx_log,
  log_file,            \* the file LogFileSet opened last
  welcomed             \* history: the acceptor has moved the output target
                       \* since the command thread took its command

clients == <<net, stream, lines, unread>>
output  == <<sockid_array, output_module_sockid>>
mutexes == <<mtx_output, mtx_log>>
shared  == <<client_sock, sock, queue, sender>>
vars    == <<clients, ops, shared, output, mutexes, log_file, welcomed>>

(* What the threads do, as lists of operations. *)

\* A record for a log file.  What LogFileWriteString adds to the file is not
\* modelled; which file it is, is.
Record(file) == << <<"LogFileSet", file>> >>
Answer       == << <<"Output", "">> >>

Accepting_SpawnFirst ==
  << <<"Spawn", "">>, <<"SockidOn", "">>, <<"TcpUserArrayInsert", "">> >>
    \o Answer \o Record("general")
Accepting ==
  << <<"SockidOn", "">>, <<"TcpUserArrayInsert", "">> >>
    \o Answer \o Record("general") \o << <<"Spawn", "">> >>

Disconnecting == Record("general") \o << <<"TcpUserArrayDelete", "">> >>

\* A turn of the loop of Main.c: most commands only answer, read_serial_log
\* outputs a log file, and every answer ends with "END OF MESSAGE".
Query   == <<>>
ReadLog == << <<"LogFileSet", "serial">>, <<"LogFileRead", "">> >>
             \o Answer \o << <<"fclose", "">> >>

Executing_NoTarget(body) == Record("general") \o body \o Answer
Executing(body) ==
  << <<"SockidOn", "">> >> \o Record("general") \o body \o Answer

Init ==
  /\ net = [c \in Clients |-> "away"]
  /\ stream = [c \in Clients |-> 0] /\ unread = [c \in Clients |-> 0]
  /\ lines = [c \in Clients |-> MaxLines]
  /\ ops = [t \in Threads |-> <<>>]
  /\ client_sock = None /\ sock = [c \in Clients |-> None]
  /\ queue = <<>> /\ sender = None
  /\ sockid_array = {} /\ output_module_sockid = None
  /\ mtx_output = None /\ mtx_log = None
  /\ log_file = "general" /\ welcomed = FALSE

------------------------------------------------------------------------------
(* Clients, external to the server. *)

Call(c) ==
  /\ net[c] = "away" /\ net' = [net EXCEPT ![c] = "calling"]
  /\ UNCHANGED <<stream, lines, unread>>

SendLine(c) ==
  /\ net[c] = "connected" /\ lines[c] > 0
  /\ stream' = [stream EXCEPT ![c] = @ + 1]
  /\ lines' = [lines EXCEPT ![c] = @ - 1]
  /\ UNCHANGED <<net, unread>>

ReadMessage(c) ==
  /\ unread[c] > 0 /\ unread' = [unread EXCEPT ![c] = @ - 1]
  /\ UNCHANGED <<net, stream, lines>>

HangUp(c) ==
  /\ net[c] = "connected" /\ net' = [net EXCEPT ![c] = "closed"]
  /\ UNCHANGED <<stream, lines, unread>>

Client(c) ==
  /\ Call(c) \/ SendLine(c) \/ ReadMessage(c) \/ HangUp(c)
  /\ UNCHANGED <<ops, shared, output, mutexes, log_file, welcomed>>

------------------------------------------------------------------------------
(* What starts a list of operations. *)

Accept(c) ==
  /\ ops["acceptor"] = <<>>
  /\ net[c] = "calling"
  /\ net' = [net EXCEPT ![c] = "connected"]
  /\ client_sock' = c
  /\ ops' = [ops EXCEPT !["acceptor"] = Accepting]
  /\ UNCHANGED <<stream, lines, unread, sock, queue, sender, output, mutexes,
                 log_file, welcomed>>

\* The worker copies the acceptor's variable through the pointer it was
\* given, some time after it was started.
CopySocket(w) ==
  /\ ops[w] # <<>> /\ Head(ops[w]) = <<"born", "">>
  /\ sock' = [sock EXCEPT ![w] = client_sock]
  /\ ops' = [ops EXCEPT ![w] = << <<"recv", "">> >>]
  /\ UNCHANGED <<clients, client_sock, queue, sender, output, mutexes, log_file, welcomed>>

Receive(w) ==
  /\ ops[w] # <<>> /\ Head(ops[w]) = <<"recv", "">>
  /\ IF stream[sock[w]] > 0
       THEN /\ queue' = queue \o [i \in 1 .. stream[sock[w]] |-> sock[w]]
            /\ stream' = [stream EXCEPT ![sock[w]] = 0]
            /\ UNCHANGED ops
       ELSE /\ net[sock[w]] = "closed"
            /\ ops' = [ops EXCEPT ![w] = Disconnecting]
            /\ UNCHANGED <<queue, stream>>
  /\ UNCHANGED <<net, lines, unread, client_sock, sock, sender, output,
                 mutexes, log_file, welcomed>>

\* One turn of the loop of the command thread.  Once in COUNTCHECK_LIMIT
\* turns it ends by telling every client the positions.
Check == << <<"OutputAll", "">> >>

Turn ==
  /\ ops["commander"] = <<>>
  /\ \E check \in {<<>>, Check}, body \in {Query, ReadLog} :
       IF queue = <<>>
         THEN /\ ops' = [ops EXCEPT !["commander"] = check]
              /\ UNCHANGED <<sender, queue, welcomed>>
         ELSE /\ sender' = Head(queue) /\ queue' = Tail(queue)
              /\ welcomed' = FALSE
              /\ ops' = [ops EXCEPT !["commander"] = Executing(body) \o check]
  /\ UNCHANGED <<clients, client_sock, sock, output, mutexes, log_file>>

------------------------------------------------------------------------------
(* The operations. *)

Does(t, operation) == ops[t] # <<>> /\ Head(ops[t])[1] = operation
Done(t) == ops' = [ops EXCEPT ![t] = Tail(@)]

\* The socket a thread registers, removes or makes the target of the output.
SocketOf(t) ==
  CASE t = "acceptor" -> client_sock [] t = "commander" -> sender [] OTHER -> sock[t]

OutputModuleSockidOn(t) ==
  /\ Does(t, "SockidOn") /\ mtx_output = None /\ Done(t)
  /\ output_module_sockid' = SocketOf(t)
  /\ welcomed' = (welcomed \/ t = "acceptor")
  /\ UNCHANGED <<clients, shared, sockid_array, mutexes, log_file>>

Entered(s) == IF Cardinality(sockid_array) < MAXIMUM_CLIENT THEN {s} ELSE {}

TcpUserArrayInsert(t) ==
  /\ Does(t, "TcpUserArrayInsert") /\ mtx_output = None /\ Done(t)
  /\ sockid_array' = sockid_array \cup Entered(SocketOf(t))
  /\ UNCHANGED <<clients, shared, output_module_sockid, mutexes, log_file, welcomed>>

TcpUserArrayDelete(t) ==
  /\ Does(t, "TcpUserArrayDelete") /\ mtx_output = None /\ Done(t)
  /\ sockid_array' = sockid_array \ {SocketOf(t)}
  /\ UNCHANGED <<clients, shared, output_module_sockid, mutexes, log_file, welcomed>>

\* Output goes to the target if it is in the table, OutputAll to the table.
Outputs(t) == Does(t, "Output") \/ Does(t, "OutputAll")

Recipients(t) ==
  IF Does(t, "OutputAll") THEN sockid_array
  ELSE sockid_array \cap {output_module_sockid}

\* send waits for room in a socket's buffer; on a closed one it fails at once.
Sendable(t) == \A c \in Recipients(t) : unread[c] < SocketBuffer \/ net[c] = "closed"

Send(t) ==
  /\ Sendable(t)
  /\ unread' = [c \in Clients |->
       IF c \in Recipients(t) /\ net[c] # "closed" THEN unread[c] + 1 ELSE unread[c]]
  /\ Done(t)
  /\ UNCHANGED <<net, stream, lines, shared, output, mtx_log, log_file, welcomed>>

\* One that cannot send at once keeps the mutex until it can.
Output(t) ==
  /\ Outputs(t) /\ mtx_output = None
  /\ Send(t) /\ UNCHANGED mtx_output

BlockedOutput(t) ==
  /\ Outputs(t) /\ mtx_output = None
  /\ ~Sendable(t)
  /\ mtx_output' = t
  /\ UNCHANGED <<clients, ops, shared, output, mtx_log, log_file, welcomed>>

EndOutput_KeepsMutex == UNCHANGED mtx_output
EndOutput == mtx_output' = None

ResumedOutput(t) == Outputs(t) /\ mtx_output = t /\ Send(t) /\ EndOutput

LogFileSet(t) ==
  /\ Does(t, "LogFileSet") /\ mtx_log = None
  /\ log_file' = Head(ops[t])[2]
  /\ Done(t)
  /\ UNCHANGED <<clients, shared, output, mutexes, welcomed>>

\* LogFileRead keeps mtx_log while it outputs what it has read.
LogFileRead(t) ==
  /\ Does(t, "LogFileRead") /\ mtx_log = None
  /\ mtx_log' = t
  /\ Done(t)
  /\ UNCHANGED <<clients, shared, output, mtx_output, log_file, welcomed>>

CloseLogFile(t) ==
  /\ Does(t, "fclose")
  /\ mtx_log' = None
  /\ Done(t)
  /\ UNCHANGED <<clients, shared, output, mtx_output, log_file, welcomed>>

Spawn(t) ==
  /\ Does(t, "Spawn")
  /\ ops' = [ops EXCEPT ![t] = Tail(@), ![client_sock] = << <<"born", "">> >>]
  /\ UNCHANGED <<clients, shared, output, mutexes, log_file, welcomed>>

Operation(t) ==
  \/ OutputModuleSockidOn(t) \/ TcpUserArrayInsert(t) \/ TcpUserArrayDelete(t)
  \/ Output(t) \/ BlockedOutput(t) \/ ResumedOutput(t)
  \/ LogFileSet(t) \/ LogFileRead(t) \/ CloseLogFile(t)
  \/ Spawn(t)

Acceptor  == Operation("acceptor") \/ \E c \in Clients : Accept(c)
Worker(w) == Operation(w) \/ CopySocket(w) \/ Receive(w)
Commander == Operation("commander") \/ Turn

Next ==
  \/ Acceptor
  \/ Commander
  \/ \E c \in Clients : Client(c) \/ Worker(c)

Spec == Init /\ [][Next]_vars

\* Every thread runs on.  The acceptor competes for the output mutex with a
\* command thread that takes it again and again, and gets it some day (strong
\* fairness: the command thread sleeps SLEEPCOMMAND in each turn).  A client
\* reads what it is sent; it need not connect, send or hang up.
FairSpec ==
  /\ Spec
  /\ SF_vars(Acceptor) /\ WF_vars(Commander)
  /\ \A c \in Clients : WF_vars(Worker(c))
  /\ WF_vars(\E c \in Clients :
       ReadMessage(c) /\ UNCHANGED <<ops, shared, output, mutexes, log_file, welcomed>>)

------------------------------------------------------------------------------
(* Properties. *)

(* Types.  The table never holds more than MAXIMUM_CLIENT sockets, and a   *)
(* mutex is held only by a thread inside its critical section.             *)
TypeOK ==
  /\ net \in [Clients -> {"away", "calling", "connected", "closed"}]
  /\ stream \in [Clients -> 0 .. MaxLines] /\ lines \in [Clients -> 0 .. MaxLines]
  /\ unread \in [Clients -> 0 .. SocketBuffer]
  /\ DOMAIN ops = Threads
  /\ client_sock \in Clients \cup {None} /\ sock \in [Clients -> Clients \cup {None}]
  /\ queue \in Seq(Clients) /\ sender \in Clients \cup {None}
  /\ sockid_array \subseteq Clients /\ Cardinality(sockid_array) <= MAXIMUM_CLIENT
  /\ output_module_sockid \in Clients \cup {None}
  /\ mtx_output \in {t \in Threads : Outputs(t)} \cup {None}
  /\ mtx_log \in {t \in {"commander"} : ops[t] # <<>>} \cup {None}
  /\ log_file \in {"general", "serial"} /\ welcomed \in BOOLEAN

(* No ghosts: a worker that was given its own socket takes it out of the   *)
(* table of the output module before it ends, and nobody puts it back: the *)
(* acceptor enters a socket before it starts the worker, which may end at  *)
(* once.  (A worker that was given another's socket may take that out      *)
(* before it is in.)                                                       *)
NoGhosts ==
  \A w \in Clients :
    sock[w] = w /\ ops[w] = <<>> => w \notin sockid_array

Answers ==
  Does("commander", "Output") /\ (Output("commander") \/ ResumedOutput("commander"))

(* While the command thread answers, the output goes to the client whose   *)
(* command it is executing, unless a client was welcomed in the meantime:  *)
(* no answer goes where an earlier command or welcome left the target.     *)
AnswerGoesToTheSender ==
  [][ Answers /\ ~welcomed => output_module_sockid = sender ]_vars

(* The lines of a client that some worker reads are all executed, answered *)
(* or not: the command thread gets through its turns, and its periodic     *)
(* messages to everybody do not keep it from the queue.                    *)
EveryLineIsExecuted ==
  LET Waiting == \E w \in Clients : sock[w] # None /\ stream[sock[w]] > 0
  IN  Waiting ~> ~Waiting /\ queue = <<>> /\ ops["commander"] = <<>>

(* The following does not hold. *)

(* CommunicationObject.h:85 "It creates a worker_thread for each incoming  *)
(* connection", which serves the client given to it: no two workers read   *)
(* from one socket.                                                        *)
EveryClientHasItsWorker ==
  \A v, w \in Clients : v # w /\ sock[v] # None => sock[v] # sock[w]
==============================================================================

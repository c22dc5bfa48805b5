------------------------------ MODULE Dispatcher ------------------------------
(***************************************************************************)
(* The loop of Main.c: lines from stdin (Input.cpp) and from the clients,  *)
(* the chain of branches that tells the commands apart, the functions each *)
(* of them calls with a connection to the programmer and without one, END  *)
(* OF MESSAGE, and the periodic check of all positions; and the thread     *)
(* that accepts connections (Main of CommunicationObject), which points    *)
(* the output at each new client in the middle of whatever the loop does.  *)
(*                                                                         *)
(* A function of CommandExecutor.c is one action here: what it does to the *)
(* drivers and to the files is the matter of MotionControl, Parameters and *)
(* AssocCheck.  Of an answer only its driver and its recipient are kept.   *)
(* A client connects once, finds room in the table of the output module    *)
(* and stays; who does not is the matter of ServerThreads.                 *)
(***************************************************************************)
EXTENDS Integers, FiniteSets, Sequences, Functions

CONSTANTS
  Clients,
  Lines,             \* what is typed or sent: [name, args]
  MAXIMUM_DRIVER,
  COUNTCHECK_LIMIT,  \* turns between two periodic checks
  LIMITCHECKLOG,     \* turns a check waits for the answer to its question
  MaxWaiting,        \* bound: lines sent and not yet answered
  Nothing            \* an empty buffer

ASSUME DriverAssumption == MAXIMUM_DRIVER \in Nat /\ MAXIMUM_DRIVER >= 1
ASSUME CountAssumption  == COUNTCHECK_LIMIT \in Nat /\ COUNTCHECK_LIMIT >= 1
ASSUME WaitAssumption   == LIMITCHECKLOG \in Nat /\ MaxWaiting \in Nat
ASSUME SourceAssumption ==
  {"stdin", "nobody"} \cap Clients = {} /\ Nothing \notin Lines
ASSUME LinesAssumption ==
  \A line \in Lines : line.name \in STRING /\ line.args \in Seq(Nat)

VARIABLES
  input_mode,       \* ALL, ONLYUSER or ONLYTCP, for the life of the program
  num_mex, input_buffer,          \* the one line the stdin thread keeps
  queue,            \* what GetCommand will return, each with its sender
  pc,               \* where the loop is
  buffer, command_received_by_user,   \* the two lines of this turn
  todo,             \* the functions still to be called
  connected,        \* the clients the acceptor has let in
  target,           \* where Output goes: StdoutOn or SockidOn of a client
  told,             \* the drivers the answers so far were about
  STATE_CONNECT, loading_encoder_from_file_okay, count_check,
  status,           \* up, exited or crashed
  owed,             \* history: lines sent, less ENDs got, of each client that
                    \* is not in crossed
  welcomed,         \* history: the acceptor has moved the target since the
                    \* loop set it for the line of this turn
  crossed           \* history: clients one of whose ENDs went to another,
                    \* and clients that got the END of another

stdin == <<num_mex, input_buffer>>
taken == <<buffer, command_received_by_user>>
room  == <<connected, welcomed, crossed>>
vars  == <<input_mode, stdin, queue, pc, taken, todo, target, told, STATE_CONNECT,
           loading_encoder_from_file_okay, count_check, status, owed, room>>

Modes == {"ALL", "ONLYUSER", "ONLYTCP"}

NoCommand == [from |-> "nobody", line |-> Nothing]

------------------------------------------------------------------------------
(* The commands.  "with" and "without" are the functions called for each   *)
(* driver named, with a connection and without; "skip" is the number of     *)
(* arguments before the drivers.                                            *)

Call(function, drv) == [do |-> function, drv |-> drv]

Single(with, without) == [with |-> with, without |-> without, skip |-> 0, many |-> FALSE]
Mult(with, without, skip) == [with |-> with, without |-> without, skip |-> skip, many |-> TRUE]

get_par == Single(<<"GetPar">>, <<"SendFailedGetPar">>)
check_position ==
  Single(<<"CheckPositionEncoderSingleWarning">>, <<"NotConnected", "SendFailedGetStatusPos">>)
set_par     == Single(<<"SetPar">>, <<"SendFailedGetPar">>)
homing      == Single(<<"Homing", "GetMovePar">>, <<"NotConnected">>)
get_mov_par == Single(<<"GetMovePar">>, <<"NotConnected">>)
encode      == Single(<<"Encode">>, <<"NotConnected">>)
move_to     == Single(<<"MoveTo", "GetMovePar">>, <<"NotConnected">>)
homing_mult == Mult(<<"Homing", "GetMovePar">>, <<"NotConnected">>, 0)
moveto_mult == Mult(<<"MoveToMult", "GetMovePar">>, <<"NotConnected">>, 1)
setmult_par_CountsFive == Mult(<<"SetParMult">>, <<"SendFailedGetPar">>, 5)
setmult_par == Mult(<<"SetParMult">>, <<"SendFailedGetPar">>, 6)
get_all_parameter ==
  [with |-> <<"GetMovePar", "GetPar", "CheckPositionEncoderSingle">>,
   without |-> <<"SendFailedGetPar", "SendFailedGetMovPar", "SendFailedGetStatusPos">>]

PerDriver ==
  [get_par |-> get_par, check_position |-> check_position, set_par |-> set_par,
   homing |-> homing, get_mov_par |-> get_mov_par, encode |-> encode,
   move_to |-> move_to, homing_mult |-> homing_mult, moveto_mult |-> moveto_mult,
   setmult_par |-> setmult_par]

\* These only print: connection or not, one function with one answer.
HelpCommand == << Call("HelpCommand", 0) >>
read_log == << Call("LogFileRead", 0) >>
check_internal_status == << Call("check_internal_status", 0) >>
ReadActualEncoderValue == << Call("ReadActualEncoderValue", 0) >>
device_list == << Call("device_list", 0) >>
unrecognized == << Call("unrecognized", 0) >>

read_log_commands == {"read_serial_log", "read_par_log", "read_log", "read_encoder_log"}
assoc_commands == {"check_drv_assoc", "check_par_assoc", "check_encode_assoc"}

\* The order of the branches.
Chain ==
  << "exit", "read_serial_log", "read_par_log", "read_log", "read_encoder_log",
     "check_drv_assoc", "check_par_assoc", "check_encode_assoc", "connect", "help",
     "get_par", "check_position", "set_par", "homing", "get_mov_par", "encode",
     "move_to", "get_all_parameter", "homing_mult", "moveto_mult", "setmult_par",
     "check_internal_status", "load_encoder_from_file",
     "read_actual_encoder_values", "device_list", "unrecognized" >>

Rank == [name \in Range(Chain) |-> CHOOSE i \in 1 .. Len(Chain) : Chain[i] = name]

\* The branch that matches a line: exit is looked for in buffer only.
Matches(line, source) ==
  IF line.name \in DOMAIN Rank /\ (line.name = "exit" => source = "stdin")
    THEN line.name ELSE "unrecognized"

\* The first branch that matches either line, with the arguments from stdin;
\* connect looks at the client's line first.
Branch ==
  LET user == command_received_by_user.line
      s == IF buffer = Nothing THEN Len(Chain) + 1 ELSE Rank[Matches(buffer, "stdin")]
      t == IF user = Nothing THEN Len(Chain) + 1 ELSE Rank[Matches(user, "tcp")]
      stdinFirst == s < t \/ (s = t /\ Chain[s] # "connect")
  IN  IF stdinFirst THEN [name |-> Chain[s], line |-> buffer]
                    ELSE [name |-> Chain[t], line |-> user]

\* For each driver in turn, each function in turn.
ForEach(functions, drvs) ==
  LET n == Len(functions)
  IN  [k \in 1 .. n * Len(drvs) |->
         Call(functions[((k - 1) % n) + 1], drvs[((k - 1) \div n) + 1])]

\* The arguments a loop over drivers reads: FindNumArg counts them all.
FindNumArg(line) == Len(line.args)

Drivers_Short(command, line) == SubSeq(line.args, command.skip + 1, FindNumArg(line) - 1)
Drivers(command, line) ==
  IF command.many THEN SubSeq(line.args, command.skip + 1, FindNumArg(line))
                  ELSE << line.args[1] >>

AllDrivers == [d \in 1 .. MAXIMUM_DRIVER |-> d]

Listens == [i \in 1 .. LIMITCHECKLOG |-> Call("Listen", 0)]

Chosen(command) == IF STATE_CONNECT THEN command.with ELSE command.without

\* What a branch calls.
Calls(name, line) ==
  CASE name \in DOMAIN PerDriver ->
         ForEach(Chosen(PerDriver[name]), Drivers(PerDriver[name], line))
    [] name = "get_all_parameter" -> ForEach(Chosen(get_all_parameter), AllDrivers)
    [] name \in assoc_commands ->
         IF STATE_CONNECT THEN << Call("CheckAssoc", 0) >> \o Listens
                          ELSE << Call("NotConnected", 0) >>
    [] name = "connect" -> << Call("Connect", 0) >>
    [] name = "load_encoder_from_file" -> << Call("LoadEncoderFromFile", 0) >>
    [] name \in read_log_commands -> read_log
    [] name = "help" -> HelpCommand
    [] name = "check_internal_status" -> check_internal_status
    [] name = "read_actual_encoder_values" -> ReadActualEncoderValue
    [] name = "device_list" -> device_list
    [] OTHER -> unrecognized

------------------------------------------------------------------------------
Start == IF input_mode = "ONLYTCP" THEN "tcp" ELSE "stdin"

Init ==
  /\ input_mode \in Modes
  /\ num_mex = 0 /\ input_buffer = Nothing /\ queue = <<>>
  /\ pc = Start
  /\ buffer = Nothing /\ command_received_by_user = NoCommand
  /\ todo = <<>> /\ target = "nobody" /\ told = {}
  /\ STATE_CONNECT = FALSE
  /\ loading_encoder_from_file_okay = FALSE /\ count_check = 0
  /\ status = "up"
  /\ owed = [c \in Clients |-> 0]
  /\ connected = {} /\ welcomed = FALSE /\ crossed = {}

\* The lines that are on their way; a bound, for the two that follow.
Waiting ==
  Len(queue) + num_mex + (IF buffer = Nothing THEN 0 ELSE 1)
    + (IF command_received_by_user = NoCommand THEN 0 ELSE 1)

\* The stdin thread replaces a line nobody has fetched yet.
Producer(line) ==
  /\ status = "up" /\ input_mode # "ONLYTCP" /\ Waiting < MaxWaiting + num_mex
  /\ input_buffer' = line /\ num_mex' = 1
  /\ UNCHANGED <<input_mode, queue, pc, taken, todo, target, told, STATE_CONNECT,
                 loading_encoder_from_file_okay, count_check, status, owed, room>>

Send(c, line) ==
  /\ status = "up" /\ c \in connected /\ Waiting < MaxWaiting
  /\ queue' = Append(queue, [from |-> c, line |-> line])
  /\ owed' = [owed EXCEPT ![c] = IF c \in crossed THEN @ ELSE @ + 1]
  /\ UNCHANGED <<input_mode, stdin, pc, taken, todo, target, told, STATE_CONNECT,
                 loading_encoder_from_file_okay, count_check, status, room>>

\* OutputModuleStdoutOff and OutputModuleSockidOn are two critical sections,
\* one step here: no client is told anything by the first.
Welcomes(c) == target' = c /\ welcomed' = TRUE

Accept(c) ==
  /\ status = "up" /\ c \notin connected
  /\ connected' = connected \cup {c}
  /\ Welcomes(c)
  /\ UNCHANGED <<input_mode, stdin, queue, pc, taken, todo, told, STATE_CONNECT,
                 loading_encoder_from_file_okay, count_check, status, owed,
                 crossed>>

AfterInput == IF input_mode = "ALL" THEN "tcp" ELSE "dispatch"

GetInput ==
  /\ status = "up" /\ pc = "stdin"
  /\ buffer' = IF num_mex = 0 THEN Nothing ELSE input_buffer
  /\ num_mex' = 0 /\ input_buffer' = Nothing
  /\ IF num_mex = 0 THEN UNCHANGED <<target, welcomed>>
                    ELSE target' = "stdin" /\ welcomed' = FALSE
  /\ pc' = AfterInput
  /\ UNCHANGED <<input_mode, queue, command_received_by_user, todo, told, STATE_CONNECT,
                 loading_encoder_from_file_okay, count_check, status, owed,
                 connected, crossed>>

SockidOn_Never(command) == target
SockidOn(command) == IF command = NoCommand THEN target ELSE command.from

GetCommand ==
  /\ status = "up" /\ pc = "tcp"
  /\ command_received_by_user' = IF queue = <<>> THEN NoCommand ELSE Head(queue)
  /\ queue' = IF queue = <<>> THEN queue ELSE Tail(queue)
  /\ target' = SockidOn(command_received_by_user')
  /\ welcomed' = (welcomed /\ queue = <<>>)
  /\ pc' = "dispatch"
  /\ UNCHANGED <<input_mode, stdin, buffer, todo, told, STATE_CONNECT,
                 loading_encoder_from_file_okay, count_check, status, owed,
                 connected, crossed>>

Received == buffer # Nothing \/ command_received_by_user.line # Nothing

Dispatch ==
  /\ status = "up" /\ pc = "dispatch"
  /\ IF ~Received THEN pc' = "sleep" /\ UNCHANGED <<todo, status>>
     ELSE IF Branch.name = "exit" THEN status' = "exited" /\ UNCHANGED <<pc, todo>>
     ELSE /\ todo' = Calls(Branch.name, Branch.line) /\ pc' = "execute"
          /\ UNCHANGED status
  /\ UNCHANGED <<input_mode, stdin, queue, taken, target, told, STATE_CONNECT,
                 loading_encoder_from_file_okay, count_check, owed, room>>

------------------------------------------------------------------------------
(* The functions. *)

Executing == status = "up" /\ pc \in {"execute", "check"} /\ todo # <<>>

Doing(functions) == Executing /\ Head(todo).do \in functions

\* A path of 16 characters or more gets no context (modbus_new_rtu), and
\* modbus_connect follows the null pointer.
Connect ==
  /\ Doing({"Connect"})
  /\ \/ STATE_CONNECT' \in BOOLEAN /\ UNCHANGED status
     \/ STATE_CONNECT' = FALSE /\ status' = "crashed"
  /\ todo' = Tail(todo)
  /\ UNCHANGED <<input_mode, stdin, queue, pc, taken, target, told,
                 loading_encoder_from_file_okay, count_check, owed, room>>

LoadEncoderFromFile ==
  /\ Doing({"LoadEncoderFromFile"})
  /\ loading_encoder_from_file_okay' \in BOOLEAN
  /\ todo' = Tail(todo)
  /\ UNCHANGED <<input_mode, stdin, queue, pc, taken, target, told, STATE_CONNECT,
                 count_check, status, owed, room>>

\* A check that finds no driver asks nothing.
CheckAssoc ==
  /\ Doing({"CheckAssoc"})
  /\ todo' \in {<<>>, Tail(todo)}
  /\ UNCHANGED <<input_mode, stdin, queue, pc, taken, target, told, STATE_CONNECT,
                 loading_encoder_from_file_okay, count_check, status, owed, room>>

\* One turn of the wait for the answer to its question: it takes a line from
\* stdin and one from the clients, whoever sent it and whatever it says; that
\* is all that becomes of the line, so no END is owed for it any more.
IsAnswer(line) == line # Nothing /\ line.name \in {"y", "n"}

Listen ==
  /\ Doing({"Listen"})
  /\ LET command == IF queue = <<>> THEN NoCommand ELSE Head(queue)
         over == \/ num_mex = 1 /\ IsAnswer(input_buffer)
                 \/ IsAnswer(command.line)
     IN  /\ queue' = IF queue = <<>> THEN queue ELSE Tail(queue)
         /\ owed' = [c \in Clients |->
              IF c = command.from /\ c \notin crossed THEN owed[c] - 1 ELSE owed[c]]
         /\ todo' = IF over THEN <<>> ELSE Tail(todo)
  /\ IF input_mode = "ONLYTCP" THEN UNCHANGED stdin ELSE num_mex' = 0 /\ input_buffer' = Nothing
  /\ UNCHANGED <<input_mode, pc, taken, target, told, STATE_CONNECT,
                 loading_encoder_from_file_okay, count_check, status, room>>

\* The functions that answer with the number of the driver.
Naming ==
  {"GetPar", "SetPar", "SetParMult", "GetMovePar", "CheckPositionEncoderSingle",
   "CheckPositionEncoderSingleWarning", "SendFailedGetPar",
   "SendFailedGetMovPar", "SendFailedGetStatusPos", "NotConnected"}

Special == {"Connect", "LoadEncoderFromFile", "CheckAssoc", "Listen"}

Function ==
  /\ Executing /\ Head(todo).do \notin Special
  /\ told' = IF Head(todo).do \in Naming /\ pc = "execute"
               THEN told \cup {Head(todo).drv} ELSE told
  /\ todo' = Tail(todo)
  /\ UNCHANGED <<input_mode, stdin, queue, pc, taken, target, STATE_CONNECT,
                 loading_encoder_from_file_okay, count_check, status, owed, room>>

\* END OF MESSAGE goes to the target of the moment; with ONLYUSER no socket
\* is written to at all.
IsTold(c) == c = target /\ input_mode # "ONLYUSER"

Crossing == {target, command_received_by_user.from} \cap Clients

EndOfMessage ==
  /\ status = "up" /\ pc = "execute" /\ todo = <<>>
  /\ pc' = "sleep"
  /\ crossed' = IF welcomed THEN crossed \cup Crossing ELSE crossed
  /\ owed' = [c \in Clients |->
       IF c \in crossed' THEN 0 ELSE IF IsTold(c) THEN owed[c] - 1 ELSE owed[c]]
  /\ told' = {}
  /\ UNCHANGED <<input_mode, stdin, queue, taken, todo, target, STATE_CONNECT,
                 loading_encoder_from_file_okay, count_check, status, connected, welcomed>>

Counted_NotReset == count_check + 1
Counted_WhenIdle == IF Received \/ count_check + 1 = COUNTCHECK_LIMIT THEN 0 ELSE count_check + 1
Counted == IF count_check + 1 = COUNTCHECK_LIMIT THEN 0 ELSE count_check + 1

PeriodicCheck == loading_encoder_from_file_okay /\ STATE_CONNECT

\* The end of a turn: every COUNTCHECK_LIMIT turns all positions are checked.
Sleep ==
  /\ status = "up" /\ pc = "sleep"
  /\ count_check' = Counted
  /\ IF count_check + 1 = COUNTCHECK_LIMIT /\ PeriodicCheck
       THEN todo' = ForEach(<<"CheckPositionEncoderToAll">>, AllDrivers) /\ pc' = "check"
       ELSE pc' = Start /\ UNCHANGED todo
  /\ buffer' = Nothing /\ command_received_by_user' = NoCommand
  /\ UNCHANGED <<input_mode, stdin, queue, target, told, STATE_CONNECT,
                 loading_encoder_from_file_okay, status, owed, room>>

EndOfCheck ==
  /\ status = "up" /\ pc = "check" /\ todo = <<>>
  /\ pc' = Start
  /\ UNCHANGED <<input_mode, stdin, queue, taken, todo, target, told, STATE_CONNECT,
                 loading_encoder_from_file_okay, count_check, status, owed, room>>

Loop ==
  \/ GetInput \/ GetCommand \/ Dispatch
  \/ Connect \/ LoadEncoderFromFile \/ CheckAssoc \/ Listen \/ Function
  \/ EndOfMessage \/ Sleep \/ EndOfCheck

Ended == status # "up" /\ UNCHANGED vars

Next ==
  \/ Loop \/ Ended
  \/ \E line \in Lines : Producer(line) \/ \E c \in Clients : Send(c, line)
  \/ \E c \in Clients : Accept(c)

Spec == Init /\ [][Next]_vars

\* The loop runs on; nobody is obliged to type or to send.
FairSpec == Spec /\ WF_vars(Loop)

------------------------------------------------------------------------------
(* Properties. *)

TypeOK ==
  /\ input_mode \in Modes /\ num_mex \in 0 .. 1
  /\ pc \in {"stdin", "tcp", "dispatch", "execute", "sleep", "check"}
  /\ target \in Clients \cup {"stdin", "nobody"}
  /\ count_check \in 0 .. COUNTCHECK_LIMIT - 1
  /\ status \in {"up", "exited", "crashed"}
  /\ connected \subseteq Clients /\ crossed \subseteq Clients /\ welcomed \in BOOLEAN
  /\ Waiting \in 0 .. MaxWaiting

\* A client gets one END OF MESSAGE for each of its lines the loop takes, in
\* every input mode and whatever is typed at the same time: lines sent less
\* ENDs got are the lines still waiting and the one in execution (GetCommand,
\* OutputModuleSockidOn and the end of the chain of branches).  Two things are
\* excepted.  While a line is executed the acceptor may welcome a client, and
\* the END goes to the newcomer: nothing is claimed of the two from then on.
\* And a line taken by the question of an association check has no END.
OneEndForEachLine ==
  status # "exited" =>
    \A c \in Clients \ crossed :
      owed[c] = Cardinality({i \in 1 .. Len(queue) : queue[i].from = c})
                + (IF command_received_by_user.from = c /\ pc # "sleep" THEN 1 ELSE 0)

\* The commands whose first argument is the driver.
Singles ==
  {"get_par", "check_position", "set_par", "homing", "get_mov_par", "encode", "move_to"}

\* The drivers a line names, by the help text: all arguments but the leading
\* parameters; all drivers for get_all_parameter.
Named(line) ==
  CASE line.name \in Singles -> {line.args[1]}
    [] line.name = "get_all_parameter" -> 1 .. MAXIMUM_DRIVER
    [] line.name = "homing_mult" -> Range(line.args)
    [] line.name = "moveto_mult" -> {line.args[i] : i \in 2 .. Len(line.args)}
    [] line.name = "setmult_par" -> {line.args[i] : i \in 7 .. Len(line.args)}
    [] OTHER -> {0}

\* When a command ends each driver it names has been answered for, once
\* connected and once not, and no other (the loops of get_all_parameter,
\* homing_mult, moveto_mult and setmult_par, with their hard coded numbers of
\* arguments).  What Encode answers does not name its driver.
EveryDriverIsAnsweredFor ==
  [][ EndOfMessage /\ Branch.name # "encode" =>
        told \ {0} = Named(Branch.line) \ {0} ]_vars

\* With a connection and a table of encoder values the positions are checked
\* again and again, however many commands arrive (count_check).
PositionsAreChecked ==
  <>[](PeriodicCheck /\ status = "up") => []<>(pc = "check")
==============================================================================

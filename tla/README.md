# Verification of the collimator slit software

The program controls the slits of a collimator: fourteen motor drivers, each with a
small program of its own, on one RS-485 line behind a Modbus programmer; a server
(`src/ServerProgram`) that owns the line and takes text commands over TCP; two Qt
clients (`src/UserGUI`, `src/ExpertGUI`) and a watchdog (`src/CheckExistence`).  This
directory holds TLA+ models of all of them, TLC configurations that check the models on
small instances, and TLAPS proofs about nine parts (ring buffer, threads, dispatcher, motion
control with its driver, parameters, association checks, the two windows, watchdog).  `PROJECT.json` lists the runs, the
mutants that show each property can fail, the source lines behind every definition, the
findings and the hazards.

## 1. The system

| component | state | operations | talks to |
|---|---|---|---|
| acceptor (`CommunicationObject::Main`) | `client_sock` | accept, register, welcome, start a worker | output module, log file, workers (a pointer to `client_sock`) |
| workers (`CommunicationObject::Worker`) | `sock` | recv, split into lines, store, leave | ring buffer, output module, log file |
| ring buffer | `command`, `num_mex`, `coda`, `testa`, a mutex, two condition variables | Worker stores, GetCommand takes | workers, command thread |
| stdin thread (`Input.cpp`) | one line | Producer, GetInput | command thread |
| command thread (`Main.c`) | input mode, connect state, encoder table, `count_check` | one command per turn, a check of all positions every `COUNTCHECK_LIMIT` turns | everything |
| command executor (`CommandExecutor.c`) | loop counters, tables of serial numbers, parameters and encoder values | Homing, MoveTo, GetMovePar, Encode, CheckPosition*, SetPar, GetPar, Check*Assoc | driver functions, output module, log file, ring buffer (answers to its questions) |
| driver functions, Modbus library | `ctx`, `STATE_CONNECT`, the input buffer of the serial port | one register access; 50 ms timeout; a flush before a group of readings | drivers |
| output module (singleton) | `sockid_array`, `output_module_sockid`, `buffer`, a mutex | Output, OutputAll, SockidOn, Insert, Delete | sockets |
| log file (singleton) | `log_file_path`, a mutex | LogFileSet, LogFileWriteString, LogFileRead | output module |
| log files and their flex scanners | blocks of rows, each with a number | written string by string, read by the next check | association checks |
| driver firmware | registers, block counter, drive | mainLoop, initMov, checkRotation, stopMotor, checkMoveDone | Modbus master, motor |
| UserGUI | leds, figures, three logins, dialogs | login, automatic setting, homing, movement of three tabs | server over TCP, LDAP |
| ExpertGUI | labels, two connections, dialogs | every command of the server, the answers to its questions, kill and restart | server and watchdog over TCP |
| watchdog (`MainExistence.c`) | its ring, the processes it forked | check_process, kill_process, new_process | processes, ExpertGUI |

What is hard here:

- the threads of the server share two singletons whose operations are separate critical
  sections, and the acceptor passes a pointer to its own variable;
- the server follows the driver only by polling `status_state`, on a line that loses
  requests and replies, and takes a failed read for *standby*; a reply that comes after
  its timeout answers the next request;
- the driver is a loop of blocks, between any two of which the server may read or write a register;
- the buffers have a capacity that is tested once;
- a block of a log file is written string by string while other threads move the log file
  singleton, and a kill can come in between;
- the windows make one string of whatever bytes have arrived, show dialogs in the middle
  of their slots, and may see the server die and come back while they do.

What makes the parts correct:

- ring buffer: bounded FIFO, nothing taken twice, no worker asleep for ever;
- threads: answers go to the sender of the command, every client has its worker and is served,
  no deadlock over the two mutexes, a worker takes its socket out of the table when it ends;
- dispatcher: one `END OF MESSAGE` for each line, every driver a line names is answered for, the
  periodic check is never starved;
- motion: the status register follows the documented sequence, a concluded state has done what
  was asked, a homed counter is calibrated; pairs and position checks are true;
- parameters: only lawful values reach a register, an answer is what the driver holds, a partial
  failure is not reported as success;
- association checks: an accepted check is what the scanner finds the next time, and every
  question ends;
- windows: what is shown is, or becomes, what the server says; nothing moves without a login;
- watchdog: a server said to be killed is gone, and every request comes to an end.

## 2. Modules

| module | models | checked by |
|---|---|---|
| `CommandFifo` | abstract: a bounded FIFO of commands | refined by `CommandQueue` |
| `CommandQueue` | the ring buffer with its mutex and condition variables | `queue` |
| `CommandQueueProofs` | theorems about `CommandQueue` | |
| `ServerThreads` | acceptor, workers, command thread over output module and log file | `threads`, `threads_worker` |
| `ServerThreadsProofs` | theorems about `ServerThreads` | |
| `Firmware` | the program of one driver, its motor and encoder | through `MotionControl` |
| `MotionControl` | the motion and calibration commands, composed with `Firmware` | `motion` |
| `MotionControlProofs` | theorems about `MotionControl` and `Firmware` | |
| `ModbusLink` | the Modbus library, the serial buffer and drivers that answer late or not at all | through `Parameters` |
| `Parameters` | GetPar, SetPar, SetParMult and the readings of the association checks, composed with `ModbusLink` | `params` (through `MCParameters`) |
| `ParametersProofs` | theorems about `Parameters` | |
| `AssocCheck` | the three association checks, their question, the log files and the scanners, LoadEncoderFromFile | `assoc`, `assoc_first` |
| `AssocCheckProofs` | theorems about `AssocCheck` | |
| `Dispatcher` | the loop of `Main.c`: two inputs, the chain of commands, the periodic check | `dispatcher` (through `MCDispatcher`) |
| `DispatcherProofs` | theorems about `Dispatcher` | |
| `ServerStream` | how an answer and its null bytes reach a window | through the windows |
| `UserGUI` | the window of the ordinary user | `usergui`, `usergui_asymmetric` (through `MCUserGUI`) |
| `UserGUIProofs` | theorems about `UserGUI` | |
| `CheckExistence` | the watchdog, the processes it forks and the port of the server | through `ExpertGUI` |
| `ExpertGUI` | the window of the expert, composed with `CheckExistence` | `expertgui`, `watchdog` (through `MCExpertGUI`) |
| `ExpertGUIProofs` | theorems about `ExpertGUI` and `CheckExistence` in it, with the lemmas about the steps of the watchdog | |

`MotionControl` instantiates no link: each of its accesses is done, loses its request or loses its
reply, which is what the functions of `DriverFunction.c` tell apart.  What a late reply
does to a sequence of accesses is in `ModbusLink` and `Parameters`, whose commands make
many accesses without a status to wait for.

### CommandQueue

`command`, `num_mex`, `coda`, `testa` are the members of the same name (slots are numbered from
0, `testa` starts at 1 as in the constructor).  A worker is `running`, `waiting` in the condition
variable, `notified` but without the mutex, or `gone`.  `Receive` is recv with the split into
lines, `Insert` and `Block` the body of the loop over lines, `Resume` the return from `wait`, which
stores without testing the capacity again, `GetCommand` the consumer.  A notify wakes one waiting worker, which must still
get the mutex, so that others may come first.  `stored`, `taken` and `overrun` are history.
`Window` is the set of `num_mex` slots from `testa` on.

### Firmware and MotionControl

`Firmware` has one action per called routine of the block program; `block` is the block executed
next.  `opening`, `spinning`, `advanced`, `slipped` describe the motor, which is external:
`Rotate` moves slit and counter together, against the closed end it slips in velocity control,
and `Slip` is an obstacle.  `MotionControl` describes a command of the server as a list of functions
and a function as a list of register accesses, exactly in the order of the source
(`Homing == <<"wait", "clear", "request">>`); one access is one action, between any two of which the driver
takes any number of steps.  `ReadStatus` is the wait loop at the head of every function, with
its counter, its 0 for a failed read and its thrown away last reading.  Two history variables mark the
steps at which the server was misled by a failed read: `misread` (the function goes on because of it) and
`astray` (it then cleared the status of a busy driver).  Most properties hold up to them.

### ServerThreads

Each thread is the list of operations it has still to do (`ops`), built from what the source
calls in order: `Accepting`, `Disconnecting`, `Executing`.  A critical section is one action, but
a thread that has to wait in `send` keeps the output mutex, and `LogFileRead` keeps the log mutex until its
`fclose`.  The worker copies `client_sock` some time after it was started (`CopySocket`).  `Turn` is one
turn of the loop of `Main.c`: a command if there is one, and possibly the periodic check.  Abstracted: what
is said in an answer, what is written into a log file, stdout (the input mode shipped is `tcp`), the ring buffer
(`CommandQueue` covers it; here the queue it implements), the drivers.

### ModbusLink and Parameters

`send_msg` is a request with its fate: it arrives, is lost, or its reply is lost, damaged, refused by the
driver (an exception) or cut in two.  What the drivers have sent is `inflight`, what has arrived and
has not been read is `rx`; `Arrive` moves one to the other at any time.  `receive_msg` is `select` and the
reading that follows: a whole reply, two pieces, a rest that is taken for the start of a reply, or the
timeout, also while a reply is on its way.  `check_integrity` and `check_confirmation` compare
what the library compares, lengths, function and number of registers, and nothing else.  `missed` is history: a reply was
left behind since the last flush.

`Parameters` is the list of calls a command makes (`GetPar`, `SetPar`, `CheckDrvAssoc`, `CheckParAssoc`), each
a flush, a reading, a writing or the conclusion that answers the client.  `max_vel` ... `analog_output0`
are the casts and limits of SetPar; `AllOkay` the test of the six results.

### AssocCheck

A file is the sequence of its lines, `Log(n)` and `Row(k, d, v)`; `Scan` is what the flex rules make of it: the largest
number, and the places of the rows behind the first line that has it.  `CheckDrvAssoc`, `CheckParAssoc` and `CheckEncodeAssoc`
read file and drivers, compare and open the question; `Listen` is one reading of the command queue;
`Over` ends the question, with a *y* or with the count at its limit, and leads to `todo`, what is still to be written
of the block of `writing`: the setting of the file, the line with the number, and the rows of the drivers, taken in this order,
each by `LogFileWriteString` to wherever `log_file` points by then
(`RecordElsewhere`: a client connects and the acceptor moves it to the general log; `Restart`:
the server is killed).  The arrays `Paragorn`, `Array` and `Tmp` keep what
`bzero` does not reach: it is told the number of drivers and clears that many bytes, so `Kept(d, value)` is the whole
value in an entry behind them, nothing in an entry before their end, and the bytes above that end in the entry they cut.  The drivers outside
`Varying` answer what is usual.  A row that `LoadEncoderFromFile` has no entry left for overwrites what lies behind its array;
that is not modelled.

### Dispatcher

`GetInput`, `GetCommand`, `Dispatch`, one action for each function called, `EndOfMessage`, the `sleep` of the turn and the
periodic check.  `PerDriver` is the table of branches with what each calls with
and without a connection; `Drivers` the arguments a loop reads; `Branch` the first pattern of the chain that matches
either line.  `Producer` is the stdin thread, whose one slot a new line overwrites; `Listen` the wait for an answer, which consumes
lines of all clients.  `Accept` is the acceptor, which may take a client at any moment and aims the output at it (`Welcomes`), also between
the taking of a line and its `END OF MESSAGE`: `EndOfMessage` goes to whoever `target` is by then.
`owed` counts, for each client, the lines that are not yet ended, with two exemptions.  A client whose `END OF MESSAGE` went to a newcomer, and the
newcomer, are `crossed`, and nothing is counted for them from then on.  A line taken by `Listen`
counts as an answer and gets no `END OF MESSAGE` of its own, whoever sent it.

### UserGUI, ExpertGUI, CheckExistence

A slot of a window is one action; a slot that runs `exec()` ends in a second action, for the event loop
goes on in between (`modal` is the stack of open dialogs).  `stream` holds texts and `Padding`, the null bytes behind
each; `readTcpData(k)` reads the first `k` parts as one string, so that all but the first text are lost
(`ServerStream`).  In `ExpertGUI` `readTcpData` opens dialogs itself: what arrives meanwhile is `unsignalled` and waits for the
next arrival (`Arrives`).  A question may come over a confirmation that is open, which then waits behind it (`Opens`, `Closes`,
`InFront`).  The fourteen slots of a kind (one per driver) are one action with a parameter.  The
server is seen as a window sees it: it starts, stops, connects the programmer, loads its table of encoder values and, while it has
both (`linked`, `loaded`; the condition at line 1018 of `Main.c`), reports what it finds of each driver.  Without the connection it refuses what needs the
programmer (`get_all_parameter` answers nothing else).  `AnotherClient` is another window or
terminal that makes or loads what this one has not asked for.

`CheckExistence` has one loop per process that runs it: the watchdog, and each child whose `execl` has failed, which
goes on as a second watchdog with a copy of the ring.  `process[p]` says what has become of a child (`forked`, `started`,
`listening`, `deaf` when its bind failed, `killed`, `zombie`, `gone`, `copy`, or `stuck`: a worker held the lock of the ring at the
fork, which nobody in the child will ever release); `port` is who listens, or `Lingering` for connections in
TIME_WAIT.  Processes are numbered as they are created.  `ExpertGUI` sends it its lines and loses its connection with the server when that process dies.

## 3. Runs

`CHECK_DEADLOCK FALSE` is set where the system may really stop: clients, checks, commands or clicks run
out in `CommandQueue`, `AssocCheck`, `Parameters`, `ExpertGUI` and the watchdog.  In the others a step is always
possible, and TLC looks for deadlocks.

| run | bounds | shows |
|---|---|---|
| `queue` | 2 workers, 2 slots, 3 lines each, spurious wakeups | indices and counter agree after any overrun, nothing is taken twice, no worker blocks for ever; FIFO up to the first overrun |
| `motion` | positions 0..2, one fault, one repetition of the wait loop, one lost step between homings | the status register follows its sequence; homed means calibrated, concluded means arrived; pairs and position checks are true up to a misled step; every request is executed |
| `threads` | 2 clients, table of 2, one line each, one unread message | a worker with its own socket leaves nothing in the table, answers follow the command unless a client is welcomed in between, every line is executed |
| `threads_worker` (violated) | as above | two workers on one socket, none on the other |
| `assoc` | three kinds, 4 drivers of which 2 vary, values 2 and 258, question of 2 turns, 3 sets of files at the start, 2 checks, restarts, another client | what was shown and accepted is what the scanner finds, numbers of blocks grow, the report is about the file as it is up to what `bzero` leaves of earlier blocks, every question ends |
| `assoc_first` (violated) | one encoder check, no file | the first accepted encoder check goes to the log of the parameters |
| `params` | 2 drivers, 2 faults, 2 commands, driver numbers 0, 2, 300 (two of them for setmult_par), one list of inputs | only lawful values are stored, answers are registers, an answered SetPar is stored, no freed context, every command ends |
| `dispatcher` | 2 clients accepted at any moment, and stdin, 9 lines, 2 drivers, 2 waiting lines, check every 2 turns, question of 2 turns, all 3 input modes | one `END OF MESSAGE` per line up to the two exemptions, every named driver is answered for, positions are checked for ever |
| `usergui` | one reported slit with three statuses, one distance and spread, 3 clicks, stream of 2 | nothing moves without a login, who is logged in sees a green lock, the leds follow a server that reports |
| `usergui_asymmetric` (violated) | as above | the asymmetric tab leaves two slits out and gives two others two targets |
| `expertgui` | one driver, two of the names of a parameter, one check, 3 clicks, stream of 1, two processes of the server | the welcome shown is of a connection, also when the next server follows, the labels follow a server that reports |
| `watchdog` | two processes, two clients, 3 requests, no clicks | a killed child is gone, every request ends |

A violated run checks one sentence of a comment; PROJECT.json quotes it and says what the
code does.

### Why the bounds are enough

- Queue: an overrun needs a full ring, a blocked worker and a barging one, so two workers and
  two slots; three lines each let the indices wrap three times.  The theorems cover every size.
- Motion: three positions give a movement that passes an intermediate position and both
  directions.  `LIMITSTATUS_STATE = 1` (20 in the code) has a repetition that goes on and
  one that gives up.  `POSITION_TOLERATED_ERROR = 0` (5) separates equal from different.
  `EncoderOffset = 1`: the encoder never reads 0, as with the
  intercepts of the sample EncoderLog; 0 would make the program's
  first comparison ambiguous (hazard at line 222 of the firmware).  The
  counter runs down to -1 during homing and stays there: only the difference from 0 matters.
  `PromptFirmware = TRUE`: the 5 ms `SLEEPMODBUS` after every access outlast the turns of an idle
  driver, so a request is picked up before the next access.
- Threads: two clients are needed for each of the races and suffice for them; one
  line each, so that two commands can be queued.  The table holds both: with room for one
  the refused client would hide that a socket can be entered after a worker that
  read it by mistake has ended, which is why `NoGhosts` speaks of workers with their own socket.
- AssocCheck: with four drivers `bzero` clears the first entry of `SerialNumberArrayTmp` and keeps the others, so one of
  the two drivers that vary is cleared and one is not; an entry cleared in part takes five drivers and is left to the theorem.
  Two drivers can answer differently, two values can agree or not (2 and 258 have the low byte in common), and the second
  check of a run finds what the first has written, left half written or left in the arrays.
  At the start there are the logs of all kinds, only that of the parameters, or
  only that of the serial numbers.  `LIMITCHECKLOG = 2` has a turn that goes on and one that gives up.
- Parameters: two faults can hit a request and its repetition, or two of the six writings.  300 is no driver
  of the line and passes a byte, 0 is the address of a broadcast, which nobody answers.  The list
  of inputs has numbers that lose their high bits (70000, 65536), one that turns negative (40000), a zero,
  and two above their limits; the theorem covers all integers.
- Dispatcher: one line per shape of branch (none, one driver, several drivers by the three ways of
  counting, a question, the table, the connection, exit); two drivers, so that a loop can miss one.  Two clients are one that
  waits for its answer and one that is accepted meanwhile.
  `COUNTCHECK_LIMIT = 2` (the code's is larger) has a turn that counts and one that checks.
- Windows: three clicks are a login, a movement and whatever comes between; the fourteen slits
  differ by index only, and slit 4 belongs to two tabs.  A stream of two has an answer that is lost because
  another was read first.  `expertgui` has a stream of one, because the answers to a slot, the report of
  a driver and a question already compete for it.  The label of a driver has more than one status to follow: `Findings` is -1, and -2 is
  what the server answers without a programmer.  That answers are read together there is `readTcpData(k)` on a text
  with its padding.  The second process of `expertgui` is the server that comes after a killed one.
- Watchdog: two processes are a server and the next one; the first may be a copy of the watchdog.  A second client is
  one whose connections keep the port.

### Fairness

- `CommandQueue`: the consumer polls for ever (weak fairness), a woken worker gets the mutex.
- `MotionControl`: the command thread and the block program run on; a motor that is told to turn or
  to rest does.  Commands and faults are not fair.
- `ServerThreads`: weak fairness of workers and command thread, whose rivals for a mutex do only
  so much.  Strong fairness of the acceptor: the command thread takes the output mutex in every
  periodic check, for ever, but sleeps `SLEEPCOMMAND` in each turn, which is when the acceptor gets it.  A connected
  client reads what it is sent; one that does not would stop the server, since `send` blocks under
  the output mutex.  Nobody is obliged to call, send or hang up.
- `AssocCheck`: the command thread goes on listening and writing; nobody is obliged to answer.
- `Parameters`: the command thread goes on (its `select` has a timeout), and a reply that was sent arrives
  some day, in time or not.  Faults are not fair.
- `Dispatcher`: weak fairness of the loop of `Main.c`, nothing of stdin or clients.
- `UserGUI`, `ExpertGUI`: the event loop of Qt delivers what has arrived.  While the server has its connection with the
  programmer and its table, its periodic check (`Main.c:1014-1027`) reports every driver again and again; otherwise it reports nothing,
  the fairness promises nothing, and `LedsFollow` and `LabelsFollow` claim nothing.  Among these reports are some that find the stream empty (strong
  fairness): the server sleeps `SLEEPTCP` after each text.  The server takes its lines, listens to answers and gives up a
  question.  Clicks, answers of dialogs, the end and start of a server, what another client does are not fair.
- `CheckExistence`: every loop of a watchdog runs on, and a process that was killed dies.  The two runs of
  `ExpertGUI` need different halves: `FairSpec` has event loop and server, `FairWatchdog` the loops of the watchdog.

## 4. What is proved

All theorems hold for every value of the constants the named assumptions allow.  Nothing else is
assumed, but for five theorems of `MotionControlProofs`, whose hypothesis `PromptFirmware` is discussed there.

**`CommandQueueProofs`**, for any finite or infinite set of workers and any `MAXCOMMAND` of at least 2:

1. `TypeCorrect`: `Spec => []TypeOK`.  Inductive together with `WorkerOK` (what a worker has in
   hand in each program state).
2. `RingConsistent`: `Spec => [](IndicesAgree /\ FreeSlotsClear)`.  `coda` is the last of the
   `num_mex` slots that start at `testa`, and all others are clear.  The conjunction is inductive given type
   correctness; the argument rests on lemmas about `%` (`ModAdd`, `ModDistinct`) and on `StoreWindow` and
   `TakeWindow`, one per access of the ring.  It holds after overruns too, which is
   what keeps an overrun from being worse than a lost command.
3. `RingIsFifo`: `Spec => FifoUntilOverrun`: every step is a step of `CommandFifo` or a stutter, until
   the first overrun.  The property speaks only of
   what was stored and taken, so it needs `RingHoldsFifo`: without an overrun, the k-th line stored sits in slot
   `k % MAXCOMMAND` until it is taken, and both indices count the lines.
4. `SingleClientNeverOverruns`: with one worker and no spurious wakeups the ring is never overrun, so
   the missing loop around `wait` needs a second producer.
5. `NothingTakenTwice`: `Spec => []TakenOnce`.  `OncePut` says that a line in a slot is in no other and has not been
   taken, and that whatever is in a slot or was taken has been put in (its number is not above `sent` of its worker), so that the next
   line of a worker is new.  It needs no order of the slots, and so holds after overruns.

**`ServerThreadsProofs`**, for any clients, any table and any number of lines:

6. `NothingIsLeftBehind`: `Spec => []NoGhosts`.  That a worker takes its socket out last is not
   enough: the acceptor must not enter it later.  The invariant `GInv` says what can be left of each
   thread's program (`Programs`: the acceptor's is a tail of `Accepting`, whose last operation is the start of the
   worker), that a client not yet accepted has no worker (`Fresh`), and that the one the acceptor is busy
   with has none either (`Guarded`).
7. `AnswersGoHome`: `Spec => AnswerGoesToTheSender`.  `Aimed`: when the output does not go to the sender of the line in execution, then the acceptor has welcomed
   somebody in between, or the command thread has not aimed yet, or it says nothing more.
8. `TypeCorrect`: `Spec => []TypeOK`.  That a mutex which is held has a holder who will release it takes more than types: the thread with the
   output mutex is about to send (`Holder`), the one with the log mutex has its `fclose` still to do (`Reader`, `Closes`), and a worker that has begun was given a socket (`Begun`).

**`DispatcherProofs`**, for any clients, lines, drivers, limits and input mode; `LinesAssumption` says that a line has a name
and numbers for arguments:

9. `EveryLineHasItsEnd`: `Spec => []OneEndForEachLine`.  The invariant `DInv` follows a line through the
   turn: which client the answers of the command in execution go to unless one was `welcomed` since (`TargetIs`), and what each client that is not
    `crossed` is owed in each state of the loop (`OwedIs`).  The acceptor takes part: it moves the target at any moment, and only a command
    in whose execution it did so can end for the wrong client.
10. `LoopsAnswerForAll`: `Spec => EveryDriverIsAnsweredFor`.  `ToldIs`: in a loop the drivers answered for are those
    of the arguments already read, so that at its end they are all that the line names.
11. `TypeCorrect`: `Spec => []TypeOK`.

**`MotionControlProofs`**, for any travel, any encoder offset, any limit of the wait loop and any number of failed transactions and slips:

12. `MotionTypes`: `Spec => []TypeOK`, without further hypotheses.  `TypeInv` adds what the command can still have to do (`Control`).
13. `CounterTellsOpening`: `Spec => []HomedMeansCalibrated`.
14. `StatusTakesItsSteps`: `Spec => StatusSequence`.
15. `ConcludedIsArrived`: `Spec => ConcludedMeansArrived`.
16. `CheckIsTruthful`: `Spec => CheckTellsTheTruth`.
17. `EncodePairsOnTheLine`: `Spec => []PairsOnTheLine`.

The last five are about `PromptFirmware`: an idle driver picks a request up before the next access, because the 5 ms `SLEEPMODBUS`
outlast its main loop.  That is a hypothesis about the time both take, which the code does not enforce; without it the
server can read the status before the driver has seen the request, and the properties are false (the hazard at line 107 of the
firmware).  The argument: `SyncInv` relates the block the driver is at with the status it shows and the call the server is in (`Phase`, `InStep`, `RequestWaits`:
a request is only written to a driver that is idle), up to the first time the server was led astray; `MoveInv` adds what counter, opening and
target have to do with each other in each phase of a homing or movement (`Moving`, `Calibrated`); `PairInv` that the reading in hand and the
pairs collected are of the position asked for (`OnTheLine`).

**`ParametersProofs`**, for any drivers, registers, driver numbers, inputs (all integers) and number of faults:

18. `LimitsAreKept`: `Spec => []RegistersWithinLimits`.  A value goes through `int`, `uint16_t`, the limits and the
    register; between them it sits in the list of calls, so the invariant `IInv` says that every writing
    still to be done is lawful (`CallSet`), whatever becomes of the ones before it.  `WantedIsLawful` is the fact about the
    conversions.  `FactoryWithinLimits` is assumed: a register that no command wrote is as the factory left it.
19. `ContextIsOpen`: `Spec => []NeverOnAFreedContext`, with `STATE_CONNECT = (ctx = "open")`
    in the invariant: nothing but that flag keeps a function from a context that `modbus_free` has released.
20. `TypeCorrect`: `Spec => []TypeOK`.
21. `AnswersAreTrue`: `Spec => AnswersAreTheRegisters`.  Nothing in a reply says which request it answers, so the invariant has to say it:
    unless one was left behind, every reply under way that would pass for the answer to the request in hand is `Genuine`, and without a request there is none
    (`LInv`).  What was read is still what the driver holds when the client is told, because no command reads behind
    a writing without a flush (`TellInv`: the calls still to make are `Quiet` ones and then `Mute` ones, which tell nothing before they flush).
22. `AnsweredIsStored`: `Spec => AnsweredMeansStored`.  `Stage` is how far a set_par has come: the calls left, and that each writing
    that succeeded is in the register it names; with six of them the setting is `Stored`, and stays so while it is read back.  For `setmult_par` the
    stages of the second driver follow those of the first.

**`AssocCheckProofs`**, for any drivers, readings of the drivers, answers, moves of `log_file` to the general log and restarts; a file
has at most one block at first, with a row of every driver, and may grow to any length:

23. `QuestionIsTrue`: `Spec => []ReportIsOfThisFile`.  What the check found was computed from arrays that keep what the last check left in
    them.  `Remembered`: whatever `SerialNumberArrayTmp` still holds comes from a row of the file, as such or less the bytes that were
    cleared since (clearing twice is clearing once, `KeptTwice`), and rows are only ever added (`AppendKeepsRows`).  `SerialsAre` and `Tells` then say of each entry what
    the question shows: the row of the last block if there is one, otherwise nothing, or, in an entry
    that is not cleared to its last byte, what is left of an earlier row.
24. `BlocksAreNumbered`: `Spec => []LogNumbersGrow`.  Every file has a largest number (`HasLast`), and the next block gets one above it; the first block, which gets 1
    without a look, finds its file still empty (`Fresh`).
25. `AcceptedIsOnRecord`: `Spec => []SavedAsShown`.  `Recorded`: the last accepted block begins with its number, which is the
    largest of the file, and every row behind it is as it was shown; the rows not found there are the ones still in `todo`
    (`InOrder`: the number is written before any row).  While a block is written its content is what was on show (`AsShown`).  Nothing is claimed of a block a line of which
    went elsewhere, or that a restart cut short, but the next one is recorded behind it.  What the scanner makes of such a file is in the
    lemmas about the operators (`LastLogIs`, `NextLogIs`, `RowsFound`, `BlockIsFound`), which hold for files of any length.
26. `TypeCorrect`: `Spec => []TypeOK`.

**`UserGUIProofs`**, for any reported slits, statuses, distances and lengths of the stream:

27. `LoginIsNeeded`: `Spec => NothingMovesWithoutALogin`.  The lines are written when a dialog closes, the login was tested
    when it opened.  The invariant says that at most one dialog is open (`OneDialog`), and that
    the one which confirms a movement is of a tab whose user is logged in (`Granted`): no login is lost while it is open.
28. `LoginIsShown`: `Spec => []EnabledMeansGreen`.  Inductive with what an open login dialog means (`Granted`): while it is shown its tab
    is not logged in, so the red lock of a wrong password takes nothing from anybody.
29. `TypeCorrect`: `Spec => []TypeOK`.

**`ExpertGUIProofs`**, for any processes, clients and drivers:

30. `NoStaleWelcome`: `Spec => []WelcomeMeansConnection`.  Inductive with the fact that texts are only in the stream of a
    connection that has begun.
31. `KilledServersAreGone`: `Spec => []KilledMeansGone`.  `WInv` adds that the port belongs to a process that lives and
    that a loop in `waitpid` waits for a process there is; one lemma per action of the watchdog.

32. `TypeCorrect`: `Spec => []TypeOK`, from the further hypothesis that `Names` is finite (the server puts the parameters of a
    driver in some order).  That no more lines are written than there were clicks is not inductive: an answer of the server may open
    a dialog, and the dialog writes a line.  `TInv` counts what a click is still owed (`OwedOK`: lines
    under way, questions in the stream and in the answers, and open dialogs together are no more than the clicks; lemmas
    `NumberOf...` say what reading, sending and taking do to the number), what the server sees unread (`StreamOK`: up to `2 * MaxStream`
    besides what a dialog has kept from being signalled), and that only a dialog of `readTcpData` stands before another (`ModalOK`).

Only model-checked: every liveness property, for fairness and ENABLED are beyond the prover.  Every invariant and action property
the passing runs check is a theorem.
No module uses a RECURSIVE operator.

## 5. Behaviours met while modelling that no run shows

- `num_mex` exceeds the capacity after an overrun (`CommandQueue` allows it; `IndicesAgree` bounds the harm).
- A lost reply to a reading of the status is taken for standby: a command may clear the status of a moving driver (`astray`).
- A movement before any homing passes the test of the firmware, against `doc_firmware.txt:22-23`.
- A position check says that all is okay when a reading failed.
- `Encode` stores the position it asked for, reached or not.
- Answers go to a client that was accepted while they were given (`welcomed`), the `END OF MESSAGE` among them: the sender waits for one that the
  newcomer gets (`crossed`).  `read_serial_log` may print the general log.
- A question takes the lines of every client for answers, and those lines get no `END OF MESSAGE`.
- `bzero` clears as many bytes of `SerialNumberArrayTmp` as there are drivers, three entries and a half of fourteen.  For a driver behind them that is
  not in the last block the comparison shows the serial number of an earlier block, and for the fourth driver the upper half of one,
  a number that need not be in any row.
- `LoadEncoderFromFile` puts values in the order of the rows: with a driver missing from the file, all behind it move up.  It does not
  count them either: rows beyond the drivers go behind the array.
- A window whose server has no table, or has lost its programmer, shows the leds as they last were: nobody tells it.
- `UserGUI` says that the automatic setting has succeeded when the connection with the programmer has failed: `if (status_1 = true)` (`mainwindow.cpp:146`)
  assigns, and only the last answer is looked at.
- A reply that comes late may be taken for the serial number of the next driver.
- A connect with a path of 16 characters or more goes on with a null context.
- With a line from stdin and one from a client in the same turn, the one may be executed while the output goes to the other.
- `UserGUI` sums `prevalent_color` by slit number in an array that starts at 0 (`mainwindow.cpp:450-452`).
- A server started over connections of the last one has no port (`deaf`): `CommunicationObject.cpp:92` does not look at what `bind` returns.

## 6. Not modelled

- The regression of `Linear.cpp` (floating point): a pair stands for its line.
- `serialib.c`, a third-party library, and the automata generated by flex: the rules of
  the scanners are modelled, not their tables.
- `recv` splitting a line: all models start from whole lines.
- The Qt widgets, the logs of the windows, their warnings and the update window; paths and
  formats.
- The watchdog's own death, and the race of `fork` and `prctl`; `pidof` is taken not to
  list zombies.
- `setConfig` and `resetPosition` of the firmware, which the server never requests, and its temperature check,
  which `check_T = 0` disables; a main loop slower than `SLEEPMODBUS`.
- Rows of a file behind the last entry of an array (`LoadEncoderFromFile`).
- `MotionControl` is not put over `ModbusLink`: during a motion a late reply is a loss.  One driver is modelled there; the
  loops over several are in `Dispatcher` and `Parameters`.
- The function codes of the Modbus library the server does not use, its server side, and its error recovery, which is never
  switched on.
- `stdout` as an output, apart from the choice of the input mode.

----------------------------- MODULE AssocCheck ------------------------------
(***************************************************************************)
(* The three association checks (CheckDrvAssoc, CheckParAssoc and          *)
(* CheckEncodeAssoc), the log files they compare the drivers with, the     *)
(* scanners that read those files, the question put to the user, and       *)
(* LoadEncoderFromFile.                                                    *)
(*                                                                         *)
(* A check reads file and drivers and asks its question in one step; the   *)
(* wait for the answer and the writing of the new block are taken line by  *)
(* line, because workers and acceptor move the log file singleton to the   *)
(* general log in between (module ServerThreads).  A line of a file is a   *)
(* "Log n" line or the row of a driver.                                    *)
(***************************************************************************)
EXTENDS Integers, Sequences, FiniteSets, FiniteSetsExt

CONSTANTS
  Kinds,            \* the checks in use: among "serial", "par" and "encoder"
  MAXIMUM_DRIVER,
  LIMITCHECKLOG,    \* readings of the command queue before a check gives up
  Values,           \* bound: the parameters or serial number a driver may show
  Varying,          \* bound: the drivers that may be silent, or show any of these
  InitialFiles,     \* bound: the log files that may exist at the start
  MaxChecks,        \* bound: checks
  Disturbed         \* do clients connect while a block is written?

ASSUME KindAssumption   == Kinds \subseteq {"serial", "par", "encoder"}
ASSUME FileAssumption   == InitialFiles \subseteq SUBSET Kinds
ASSUME DriverAssumption == MAXIMUM_DRIVER \in Nat \ {0}
ASSUME CheckAssumption  == LIMITCHECKLOG \in Nat \ {0} /\ MaxChecks \in Nat
ASSUME ValueAssumption  == Values \subseteq Nat \ {0} /\ Disturbed \in BOOLEAN
ASSUME VaryAssumption   == Varying \subseteq 1 .. MAXIMUM_DRIVER

Drivers == 1 .. MAXIMUM_DRIVER

\* What the arrays hold for a driver that did not answer.  In the array
\* CheckDrvAssoc uses when there is no file it is -1, as an unsigned number.
NotFound == 0
MinusOne == -1

\* Parameters are one value here; with this one their vel_home is -1.
VelHomeMinusOne == 2

VARIABLES
  exists,       \* the log files that exist
  file,         \* their lines
  log_file,     \* where LogFileWriteString writes
  Paragorn,     \* SerialNumberArrayParagorn, ParameterArrayParagorn, EncoderArrayValue
  Array,        \* SerialNumberArray, ParameterArray; of "encoder" unused
  Tmp,          \* SerialNumberArrayTmp, ParameterArrayTmp: the rows of the file
  GeneralStatus,
  loaded,       \* loading_encoder_from_file_okay
  asking,       \* the check whose question is open, or "none"
  count,
  writing,      \* the check whose block is being written, or "none"
  todo,         \* what of that block the command thread has still to do
  report,       \* the comparison sent with the open question
  checks,       \* bound: checks made
  shown,     \* history: the drivers as the question showed them, unless rejected
  created,      \* history: the checks that found no file
  cut           \* history: the files a line of the last block did not reach

arrays  == <<Paragorn, Array, Tmp>>
files   == <<exists, file, log_file>>
dialog  == <<asking, count, report>>
history == <<shown, created, cut>>
pending == <<writing, todo>>
vars    == <<files, arrays, GeneralStatus, loaded, dialog, pending, checks, history>>

Log(n) == [kind |-> "log", number |-> n, value |-> 0]
Row(k, d, v) == [kind |-> k, number |-> d, value |-> v]

NothingShown == [d \in Drivers |-> NotFound]
Everywhere(v) == [k \in Kinds |-> [d \in Drivers |-> v]]

NoReport == [d \in Drivers |-> "nothing"]

\* What a driver shows that does not vary.
Usual(k, d) == IF k = "par" THEN 1 ELSE d

\* A log file that is there at the start has a block with a row of every driver.
FirstBlock(k) == <<Log(1)>> \o [d \in Drivers |-> Row(k, d, Usual(k, d))]

Init ==
  /\ exists \in InitialFiles
  /\ file = [k \in Kinds |-> IF k \in exists THEN FirstBlock(k) ELSE <<>>]
  /\ log_file = "general"
  /\ Paragorn = Everywhere(NotFound) /\ Array = Everywhere(NotFound)
  /\ Tmp = Everywhere(NotFound)
  /\ GeneralStatus = [k \in Kinds |-> 0] /\ loaded = FALSE
  /\ asking = "none" /\ count = 0 /\ writing = "none" /\ todo = {}
  /\ report = NoReport /\ checks = 0
  /\ shown = Everywhere(NotFound) /\ created = {} /\ cut = {}

------------------------------------------------------------------------------
(* The scanners.  The first pass, in state LASTLOG, finds the largest log  *)
(* number; the second, in SERIALOG, looks for it and in FINALOG takes      *)
(* every row from there to the end of the file.                            *)

LogNumbers(lines) == {lines[i].number : i \in {j \in DOMAIN lines : lines[j].kind = "log"}}

LastLog_Smallest(lines) == IF LogNumbers(lines) = {} THEN -1 ELSE Min(LogNumbers(lines))
LastLog(lines) == Max(LogNumbers(lines) \cup {-1})

\* The rules of a scanner match the rows of its own file only; what it takes
\* are the lines at these places.
FromLastLog(lines, k) ==
  {i \in DOMAIN lines :
     lines[i].kind = k /\ \E j \in DOMAIN lines : j < i /\ lines[j] = Log(LastLog(lines))}

Analizza1(lines)           == FromLastLog(lines, "serial")
AnalizzaFilePar(lines)     == FromLastLog(lines, "par")
AnalizzaFileEncoder(lines) == FromLastLog(lines, "encoder")

Scan(k) ==
  CASE k = "serial" -> Analizza1(file[k])
    [] k = "par"    -> AnalizzaFilePar(file[k])
    [] OTHER        -> AnalizzaFileEncoder(file[k])

\* max_log stays 0 where no log number is found.
max_log(k) == Max({LastLog(file[k]), 0})

------------------------------------------------------------------------------
(* Reading and comparing. *)

\* A driver with several rows keeps the last, one without what it had.
Reordered(lines, rows, cleared) ==
  [d \in Drivers |->
     LET own == {i \in rows : lines[i].number = d}
     IN  IF own = {} THEN cleared[d] ELSE lines[Max(own)].value]

\* bzero clears MAXIMUM_DRIVER bytes, four to an entry, the low ones first:
\* what it leaves of the value of entry d.  The entries behind those bytes
\* keep it, the one across their end its high bytes.
Kept(d, value) ==
  LET bytes == MAXIMUM_DRIVER - 4 * (d - 1)
  IN  CASE bytes >= 4 -> NotFound
        [] bytes = 3  -> (value \div 16777216) * 16777216
        [] bytes = 2  -> (value \div 65536) * 65536
        [] bytes = 1  -> (value \div 256) * 256
        [] OTHER      -> value

BzeroedSerials_Not(array) == array
BzeroedSerials(array) == [d \in Drivers |-> Kept(d, array[d])]

ClearedParameters(array) == [d \in Drivers |-> NotFound]

Compared(real, logged) ==
  CASE real = NotFound /\ logged # NotFound -> "only in the file"
    [] real # NotFound /\ logged = NotFound -> "only connected"
    [] real = NotFound /\ logged = NotFound -> "nowhere"
    [] real = logged                        -> "same"
    [] OTHER                                -> "different"

\* What the drivers answer: each a value, or nothing.  All six readings of
\* the parameters of a driver must succeed.
\* Bound: the encoder of a driver stays what it is.
Answers(k, d) == {NotFound} \cup IF k = "encoder" THEN {Usual(k, d)} ELSE Values

Readings(k) ==
  {[d \in Drivers |-> IF d \in Varying THEN shows[d] ELSE Usual(k, d)] :
     shows \in {s \in [Varying -> Values \cup Drivers \cup {NotFound}] :
                 \A d \in Varying : s[d] \in Answers(k, d)}}

Unread(reading) ==
  [d \in Drivers |-> IF reading[d] = NotFound THEN MinusOne ELSE reading[d]]

\* The three functions, from modbus_flush to the question.
Compares(reading, rows) ==
  report' = [d \in Drivers |-> Compared(reading[d], rows[d])]

CheckDrvAssoc(reading) ==
  IF "serial" \in exists
    THEN LET rows == Reordered(file["serial"], Scan("serial"),
                               BzeroedSerials(Tmp["serial"]))
         IN  /\ log_file' = "serial"
             /\ Paragorn' = [Paragorn EXCEPT !["serial"] = reading]
             /\ Tmp' = [Tmp EXCEPT !["serial"] = rows]
             /\ Compares(reading, rows)
             /\ UNCHANGED Array
    ELSE /\ log_file' = "general"
         /\ Array' = [Array EXCEPT !["serial"] = Unread(reading)]
         /\ report' = NoReport
         /\ UNCHANGED <<Paragorn, Tmp>>

CheckParAssoc(reading) ==
  /\ log_file' = "general"
  /\ IF "par" \in exists
       THEN LET rows == Reordered(file["par"], Scan("par"),
                                 ClearedParameters(Tmp["par"]))
            IN  /\ Paragorn' = [Paragorn EXCEPT !["par"] = reading]
                /\ Tmp' = [Tmp EXCEPT !["par"] = rows]
                /\ Compares(reading, rows)
                /\ UNCHANGED Array
       ELSE /\ Array' = [Array EXCEPT !["par"] = reading]
            /\ report' = NoReport
            /\ UNCHANGED <<Paragorn, Tmp>>

\* There is one array of encoder values, and no comparison.
CheckEncodeAssoc(reading) ==
  /\ log_file' = "general"
  /\ Paragorn' = [Paragorn EXCEPT !["encoder"] = reading]
  /\ report' = NoReport
  /\ UNCHANGED <<Array, Tmp>>

Idle == asking = "none" /\ writing = "none"

Check(k) ==
  /\ Idle /\ checks < MaxChecks
  /\ \E reading \in Readings(k) :
       /\ CASE k = "serial" -> CheckDrvAssoc(reading)
            [] k = "par"    -> CheckParAssoc(reading)
            [] OTHER        -> CheckEncodeAssoc(reading)
       /\ shown' = [shown EXCEPT ![k] = reading]
  /\ created' = IF k \in exists THEN created \ {k} ELSE created \cup {k}
  /\ asking' = k /\ count' = 0
  /\ checks' = checks + 1
  /\ UNCHANGED <<exists, file, GeneralStatus, loaded, pending, cut>>

------------------------------------------------------------------------------
(* The question, and the block that is written. *)

\* Without a file the parameters are taken from the array of the other branch.
Actual(k) == IF k = "serial" /\ k \in created THEN Array[k] ELSE Paragorn[k]

\* The drivers with a row in the new block.
Rows_Unconditional(k) == Drivers
Rows(k) ==
  {d \in Drivers : Actual(k)[d] # NotFound /\ ~(k = "par" /\ Actual(k)[d] = VelHomeMinusOne)}

\* Without a file the encoder values go to the log of the parameters.
Target(k) == IF k = "encoder" /\ k \in created THEN "par" ELSE k

NextLog_Same(k) == Max({max_log(k), 1})
NextLog(k) == IF k \in created THEN 1 ELSE max_log(k) + 1

\* What is done for a block, in this order: LogFileSet, the line with its
\* number, the rows of the drivers.
LogFileSetting == -1
LogLine        == 0
Block(k) == {LogFileSetting, LogLine} \cup Rows(k)

Line(k, d) == IF d = LogLine THEN Log(NextLog(k)) ELSE Row(k, d, Actual(k)[d])

\* One turn of the wait: GetCommand takes the command of any client, and
\* there may be none.  Only its first letter matters; a command that is not
\* an answer is lost.
Turns_Wraps == (count + 1) % LIMITCHECKLOG
Turns == count + 1

Over(answer) == answer \in {"y", "n"} \/ Turns = LIMITCHECKLOG

Listen ==
  /\ asking # "none"
  /\ \E answer \in {"y", "n", "another command", "nothing"} :
       IF ~Over(answer)
         THEN count' = Turns /\ UNCHANGED <<asking, report, GeneralStatus, pending,
                                                         shown, cut>>
         ELSE /\ asking' = "none" /\ count' = 0 /\ report' = NoReport
              /\ GeneralStatus' =
                   [GeneralStatus EXCEPT ![asking] = IF answer = "y" THEN 1 ELSE 0]
              /\ IF answer = "y"
                   THEN /\ writing' = asking /\ todo' = Block(asking)
                        /\ cut' = cut \ {asking} /\ UNCHANGED shown
                   ELSE /\ shown' = [shown EXCEPT ![asking] = NothingShown]
                        /\ UNCHANGED <<pending, cut>>
  /\ UNCHANGED <<files, arrays, loaded, checks, created>>

Does(d) ==
  /\ d \in todo /\ \A e \in todo : d <= e
  /\ todo' = todo \ {d}
  /\ writing' = IF todo = {d} THEN "none" ELSE writing

\* fopen(path, "a") creates the file.
LogFileSet ==
  /\ Does(LogFileSetting)
  /\ log_file' = Target(writing)
  /\ exists' = exists \cup ({log_file'} \cap Kinds)
  /\ UNCHANGED <<file, arrays, GeneralStatus, loaded, dialog, checks, history>>

LogFileWriteString ==
  /\ \E d \in {LogLine} \cup Drivers :
       /\ Does(d)
       /\ file' = [f \in Kinds |->
                     IF f = log_file THEN Append(file[f], Line(writing, d)) ELSE file[f]]
  /\ cut' = IF log_file = Target(writing) THEN cut ELSE cut \cup {writing}
  /\ UNCHANGED <<exists, log_file, arrays, GeneralStatus, loaded, dialog,
                 checks, shown, created>>

\* Another thread records a connection or a disconnection.
RecordElsewhere ==
  /\ Disturbed /\ writing # "none" /\ log_file # "general"
  /\ log_file' = "general"
  /\ UNCHANGED <<exists, file, arrays, GeneralStatus, loaded, dialog, pending,
                 checks, history>>

\* read_serial_log and the like, when their file is not there yet.
ReadLog(k) ==
  /\ Idle /\ k \notin exists
  /\ log_file' = k /\ exists' = exists \cup {k}
  /\ UNCHANGED <<file, arrays, GeneralStatus, loaded, dialog, pending, checks, history>>

\* The i-th row of the file goes to the i-th entry.  The code does not bound
\* that number: rows beyond the array overwrite what lies behind it, which is
\* not modelled.
LoadedEncoders(lines, rows) ==
  [d \in Drivers |->
     LET own == {i \in rows : Cardinality({j \in rows : j <= i}) = d}
     IN  IF own = {} THEN Paragorn["encoder"][d] ELSE lines[Max(own)].value]

LoadEncoderFromFile ==
  /\ Idle /\ "encoder" \in Kinds
  /\ loaded' = ("encoder" \in exists)
  /\ Paragorn' = IF loaded'
                   THEN [Paragorn EXCEPT !["encoder"] =
                           LoadedEncoders(file["encoder"], Scan("encoder"))]
                   ELSE Paragorn
  /\ log_file' = "general"
  /\ UNCHANGED <<exists, file, Array, Tmp, GeneralStatus, dialog, pending, checks, history>>

\* What read_actual_encoder_value tells: the values position checks use.
ReadActualEncoderValue == [done |-> loaded, values |-> Paragorn["encoder"]]

\* The server is stopped at any moment and started again: the files stay.
Restart ==
  /\ log_file' = "general"
  /\ Paragorn' = Everywhere(NotFound) /\ Array' = Everywhere(NotFound)
  /\ Tmp' = Everywhere(NotFound)
  /\ GeneralStatus' = [k \in Kinds |-> 0] /\ loaded' = FALSE
  /\ asking' = "none" /\ count' = 0 /\ writing' = "none" /\ todo' = {}
  /\ report' = NoReport
  /\ shown' = Everywhere(NotFound) /\ created' = {} /\ cut' = {}
  /\ UNCHANGED <<exists, file, checks>>

Next ==
  \/ \E k \in Kinds : Check(k) \/ ReadLog(k)
  \/ Listen \/ LogFileSet \/ LogFileWriteString \/ RecordElsewhere
  \/ LoadEncoderFromFile \/ Restart

Spec == Init /\ [][Next]_vars

\* The command thread runs on once a check has begun; nobody need answer.
FairSpec == Spec /\ WF_vars(Listen) /\ WF_vars(LogFileSet) /\ WF_vars(LogFileWriteString)

------------------------------------------------------------------------------
(* Properties. *)

(* Types; a check is either asking or writing.                             *)
TypeOK ==
  /\ exists \subseteq Kinds /\ log_file \in {"general", "serial", "par", "encoder"}
  /\ \A k \in Kinds : \A i \in DOMAIN file[k] :
       /\ file[k][i].number \in Nat
       /\ file[k][i].value = 0 <=> file[k][i].kind = "log"
  /\ \A k \in Kinds, d \in Drivers :
       /\ Paragorn[k][d] \in Values \cup Drivers \cup {NotFound}
       /\ Array[k][d] \in Drivers \cup Values \cup {NotFound, MinusOne}
       /\ shown[k][d] \in Values \cup Drivers \cup {NotFound}
  /\ GeneralStatus \in [Kinds -> {0, 1}] /\ loaded \in BOOLEAN
  /\ asking \in Kinds \cup {"none"} /\ count \in 0 .. LIMITCHECKLOG
  /\ writing \in Kinds \cup {"none"} /\ todo \subseteq {LogFileSetting, LogLine} \cup Drivers
  /\ writing = "none" <=> todo = {}
  /\ asking # "none" => writing = "none"
  /\ checks \in 0 .. MaxChecks /\ created \cup cut \subseteq Kinds

\* What the next check, or a load, will find for driver d.
InFile(k, d) == Reordered(file[k], Scan(k), NothingShown)[d]

(* An accepted check is on record: as long as its status is 1, the scanner *)
(* finds in the log file exactly what the question showed, driver by       *)
(* driver, however many blocks came before.  Not so for the first block of *)
(* a file, for parameters with a vel_home of -1, or when a client          *)
(* connected while the block was written.                                  *)
SavedAsShown ==
  \A k \in Kinds \ ({asking} \cup created \cup cut), d \in Drivers :
    writing = "none" /\ GeneralStatus[k] = 1 =>
      \/ InFile(k, d) = shown[k][d]
      \/ k = "par" /\ shown[k][d] = VelHomeMinusOne

(* The numbers in a log file grow, so that the largest is the last and the *)
(* rows that follow it are one block (max_log + 1 in the three functions), *)
(* whatever a disturbance or a restart has left in it; the file of the     *)
(* parameters aside, where a block of encoder values may land.             *)
LogNumbersGrow ==
  \A k \in Kinds : \A i, j \in DOMAIN file[k] :
    k # "par" /\ i < j /\ file[k][i].kind = "log" /\ file[k][j].kind = "log"
      => file[k][i].number < file[k][j].number

(* The comparison of the question is between the drivers and the last      *)
(* block of the file, driver by driver.  The one exception are the entries *)
(* of SerialNumberArrayTmp that bzero does not clear to the last byte: for *)
(* a driver without a row in the last block, the question may show what    *)
(* bzero leaves of a row of an earlier block, as this process read it      *)
(* before - and nothing that no row of the file ever said.                 *)
ReportIsOfThisFile ==
  asking \in {"serial", "par"} \ created =>
    \A d \in Drivers :
      \/ report[d] = Compared(Paragorn[asking][d], InFile(asking, d))
      \/ /\ asking = "serial" /\ InFile(asking, d) = NotFound
         /\ \E i \in DOMAIN file[asking] :
              /\ file[asking][i].kind = "serial" /\ file[asking][i].number = d
              /\ report[d] = Compared(Paragorn[asking][d], Kept(d, file[asking][i].value))

(* A question does not stop the server for ever, answered or not: after    *)
(* LIMITCHECKLOG turns at most the check is over and its block written.    *)
EveryQuestionEnds == asking # "none" ~> asking = "none" /\ writing = "none"

(* The following does not hold. *)

(* CommandExecutor.c 989: after a yes the program writes the actual values *)
(* to the log file, the first time too.                                    *)
FirstCheckIsSaved ==
  \A k \in Kinds \ ({asking} \cup cut), d \in Drivers :
    writing = "none" /\ GeneralStatus[k] = 1 => InFile(k, d) = shown[k][d]
==============================================================================

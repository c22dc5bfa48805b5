---------------------------- MODULE CommandQueue -----------------------------
(***************************************************************************)
(* The circular buffer command[MAXCOMMAND] of CommunicationObject: every   *)
(* Worker thread splits what it receives from its client into lines and    *)
(* puts them in; the command thread takes one per turn with the            *)
(* non-blocking GetCommand.  Each critical section of                      *)
(* ReservedKeyBoardInputArea is one action.  The k-th line of worker w is  *)
(* the pair <<w, k>>: the text of a command does not matter here.          *)
(***************************************************************************)
EXTENDS Integers, Sequences, FiniteSets

CONSTANTS
  Workers,          \* the Worker threads, one per accepted client
  MAXCOMMAND,       \* slots of the buffer (100 in DefineGeneral.h)
  MaxLines,         \* bound: lines a client sends in its life
  SpuriousWakeups,  \* may condition_variable::wait return without a notify?
  NoCommand         \* a cleared slot: user_sockid = -1, empty text

ASSUME CapacityAssumption == MAXCOMMAND \in Nat /\ MAXCOMMAND >= 2
ASSUME BoundAssumption    == MaxLines \in Nat
ASSUME SpuriousAssumption == SpuriousWakeups \in BOOLEAN

Lines == Workers \X (1 .. MaxLines)
Slots == 0 .. MAXCOMMAND - 1

ASSUME NoCommandAssumption == NoCommand \notin Lines

VARIABLES
  command,    \* the slots
  num_mex,    \* the counter the code compares with MAXCOMMAND and with 0
  coda,       \* index of the slot written last
  testa,      \* index of the slot read next
  pc,         \* where each worker is
  received,   \* lines worker w has received and split
  sent,       \* lines worker w has put in the buffer
  stored,     \* history: lines in the order they were put in
  taken,      \* history: what GetCommand returned (when num_mex # 0)
  overrun     \* history: has num_mex ever exceeded MAXCOMMAND?

buffer  == <<command, num_mex, coda, testa>>
history == <<stored, taken, overrun>>
vars    == <<buffer, pc, received, sent, history>>

InitialHead_SameAsTail == 0
InitialHead == 1

Init ==
  /\ command = [i \in Slots |-> NoCommand]
  /\ num_mex = 0
  /\ coda = 0
  /\ testa = InitialHead
  /\ pc = [w \in Workers |-> "running"]
  /\ received = [w \in Workers |-> 0]
  /\ sent = [w \in Workers |-> 0]
  /\ stored = <<>>
  /\ taken = <<>>
  /\ overrun = FALSE

\* (i + 1) % MAXCOMMAND, and a variant that does not wrap.
Following_NoWrap(i) == i + 1
Following(i) == (i + 1) % MAXCOMMAND

------------------------------------------------------------------------------
(* The Worker thread. *)

\* recv returned a chunk of n lines; the worker only calls recv again once
\* it has put all of them in the buffer.
Receive(w) ==
  /\ pc[w] = "running" /\ sent[w] = received[w]
  /\ \E n \in 1 .. MaxLines - received[w] :
       received' = [received EXCEPT ![w] = @ + n]
  /\ UNCHANGED <<buffer, pc, sent, history>>

\* recv returned 0 or an error: the thread ends.
Disconnect(w) ==
  /\ pc[w] = "running" /\ sent[w] = received[w]
  /\ pc' = [pc EXCEPT ![w] = "gone"]
  /\ UNCHANGED <<buffer, received, sent, history>>

\* The body of the loop after the capacity test: no test is repeated here.
Store(w) ==
  LET line == <<w, sent[w] + 1>>
  IN  /\ coda' = Following(coda)
      /\ command' = [command EXCEPT ![Following(coda)] = line]
      /\ num_mex' = num_mex + 1
      /\ sent' = [sent EXCEPT ![w] = @ + 1]
      /\ stored' = Append(stored, line)
      /\ overrun' = (overrun \/ num_mex' > MAXCOMMAND)
      /\ UNCHANGED <<testa, received, taken>>

Insert(w) ==
  /\ pc[w] = "running" /\ sent[w] < received[w]
  /\ num_mex # MAXCOMMAND
  /\ Store(w)
  /\ UNCHANGED pc

\* BlockedProducerInput.wait releases the mutex.
Block(w) ==
  /\ pc[w] = "running" /\ sent[w] < received[w]
  /\ num_mex = MAXCOMMAND
  /\ pc' = [pc EXCEPT ![w] = "waiting"]
  /\ UNCHANGED <<buffer, received, sent, history>>

SpuriousWakeup(w) ==
  /\ SpuriousWakeups
  /\ pc[w] = "waiting"
  /\ pc' = [pc EXCEPT ![w] = "notified"]
  /\ UNCHANGED <<buffer, received, sent, history>>

\* The awakened worker gets the mutex back.  The code tests num_mex with an
\* "if", so it goes on to store its line whatever num_mex is by now.
Resume(w) ==
  /\ pc[w] = "notified"
  /\ Store(w)
  /\ pc' = [pc EXCEPT ![w] = "running"]

Worker(w) == Insert(w) \/ Block(w) \/ Resume(w)

------------------------------------------------------------------------------
(* The command thread. *)

\* The command GetCommand returns, and the slots it leaves behind.
Front_Newest == command[coda]
Front == command[testa]

Cleared_Forgotten == command
Cleared == [command EXCEPT ![testa] = NoCommand]

\* notify_one wakes one of the threads that wait, if there is one.
NotifyProducer_Never == UNCHANGED pc
NotifyProducer ==
  \/ /\ \A w \in Workers : pc[w] # "waiting"
     /\ UNCHANGED pc
  \/ \E w \in Workers :
       /\ pc[w] = "waiting"
       /\ pc' = [pc EXCEPT ![w] = "notified"]

\* With num_mex = 0 GetCommand changes nothing and returns no command.
GetCommand ==
  /\ num_mex # 0
  /\ taken' = Append(taken, Front)
  /\ command' = Cleared
  /\ testa' = Following(testa)
  /\ num_mex' = num_mex - 1
  /\ NotifyProducer
  /\ UNCHANGED <<coda, received, sent, stored, overrun>>

Next ==
  \/ GetCommand
  \/ \E w \in Workers :
       Receive(w) \/ Disconnect(w) \/ Insert(w) \/ Block(w)
         \/ SpuriousWakeup(w) \/ Resume(w)

Spec == Init /\ [][Next]_vars

\* The command thread calls GetCommand in every turn of its loop, and a
\* worker that is runnable is scheduled.  Clients need not send anything.
FairSpec ==
  Spec /\ WF_vars(GetCommand) /\ \A w \in Workers : WF_vars(Worker(w))

------------------------------------------------------------------------------
(* Properties. *)

TypeOK ==
  /\ command \in [Slots -> Lines \cup {NoCommand}]
  /\ num_mex \in Nat
  /\ coda \in Slots
  /\ testa \in Slots
  /\ pc \in [Workers -> {"running", "waiting", "notified", "gone"}]
  /\ received \in [Workers -> 0 .. MaxLines]
  /\ sent \in [Workers -> 0 .. MaxLines]
  /\ stored \in Seq(Lines)
  /\ taken \in Seq(Lines \cup {NoCommand})
  /\ overrun \in BOOLEAN

\* The slots between testa and coda that num_mex counts.
Window == { (testa + i) % MAXCOMMAND : i \in 0 .. num_mex - 1 }

\* Head, tail and counter of the ring never drift apart, whatever the
\* producers do: the ring heals once it is drained, even after an overrun
\* (CommunicationObject.cpp, Worker and GetCommand).
IndicesAgree == coda = (testa + num_mex - 1) % MAXCOMMAND

\* A slot outside the window is clear, so the command thread never receives
\* a command twice or one left over from an earlier turn of the ring.
FreeSlotsClear == \A i \in Slots \ Window : command[i] = NoCommand

\* Until the ring is first overrun it is the bounded FIFO of CommandFifo:
\* every step is one of the FIFO's, or invisible to it.
Fifo == INSTANCE CommandFifo WITH Messages <- Lines, Capacity <- MAXCOMMAND

FifoUntilOverrun ==
  Fifo!Init /\ [][~overrun' => Fifo!Next]_<<stored, taken>>

\* No line of a client is executed twice, even after an overrun.
TakenOnce ==
  \A j, k \in 1 .. Len(taken) :
    j # k /\ taken[j] # NoCommand => taken[j] # taken[k]

\* Every line a worker received is put in the buffer some day: no wakeup of
\* a worker blocked on a full buffer is lost.
NobodyBlockedForever ==
  \A w \in Workers : sent[w] < received[w] ~> sent[w] = received[w]
==============================================================================

----------------------------- MODULE ModbusLink ------------------------------
(***************************************************************************)
(* The library that speaks Modbus with the drivers (BasicModbusLibrary.c): *)
(* one request at a time, a reply that may be lost, damaged, cut in two or *)
(* late, and the serial buffer it is read from.  A reply that comes after  *)
(* its timeout stays there, and nothing in it tells which request it       *)
(* answers.  The drivers are external: they execute a request that reaches *)
(* them and send one reply; to a broadcast they send none.                 *)
(***************************************************************************)
EXTENDS Integers, Sequences

CONSTANTS
  Drivers,      \* the addresses of the drivers on the bus
  Registers,    \* the registers of a driver
  Factory,      \* what each register of each driver holds at the start
  MaxFaults     \* bound: requests and replies that go wrong, or are late

ASSUME LinkAssumption  == Drivers \subseteq 1 .. 247 /\ MaxFaults \in Nat

\* A register holds sixteen bits.
MAXWORD == 65535
Words == 0 .. MAXWORD

ASSUME FactoryAssumption == Factory \in [Drivers -> [Registers -> Words]]

VARIABLES
  ctx,            \* "null", "freed" or "open"
  STATE_CONNECT,
  regs,           \* the registers of the drivers
  request,        \* the request being made, or NoRequest
  inflight,       \* what the drivers have sent and has not arrived yet
  rx,             \* what has arrived: the input buffer of the serial port
  result,         \* what the last transaction returned
  faults,
  missed     \* history: a reply was left behind by an earlier request

link == <<ctx, STATE_CONNECT, regs, request, inflight, rx, result, faults, missed>>

READ  == 3     \* _FC_READ_HOLDING_REGISTERS
WRITE == 16    \* _FC_WRITE_MULTIPLE_REGISTERS

NoRequest == [slave |-> -1, function |-> 0, reg |-> "none", nb |-> 0, word |-> 0]

\* nb counts registers: a serial number takes two.
build_request_basis(slave, function, reg, word) ==
  [slave |-> slave, function |-> function, reg |-> reg,
   nb |-> IF reg = "SerialNumber" THEN 2 ELSE 1, word |-> word]

Failed == [ok |-> FALSE, word |-> 0]
Done(word) == [ok |-> TRUE, word |-> word]

LinkInit ==
  /\ ctx = "null" /\ STATE_CONNECT = FALSE
  /\ regs = Factory
  /\ request = NoRequest /\ inflight = <<>> /\ rx = <<>>
  /\ result = Failed
  /\ faults = 0 /\ missed = FALSE

\* modbus_new_rtu and modbus_connect.  A context that could not be connected
\* is freed, and the pointer kept.  Of a path of 16 characters or more
\* modbus_new_rtu makes no context: the program dies on the null pointer, and
\* is started again.
Connected_Stays(opened) == opened = "open" \/ STATE_CONNECT
Connected(opened) == opened = "open"

modbus_new_rtu == {"open", "freed", "null"}

Connect(opened) ==
  /\ STATE_CONNECT' = Connected(opened)
  /\ ctx' = opened
  /\ UNCHANGED <<regs, request, inflight, rx, result, faults, missed>>

modbus_set_slave(slave) == slave \in 0 .. 247

\* tcflush discards what has arrived, not what is still to come.
Flushed_Nothing == rx
Flushed == <<>>

modbus_flush ==
  /\ rx' = Flushed
  /\ missed' = (inflight # <<>>)
  /\ UNCHANGED <<ctx, STATE_CONNECT, regs, request, inflight, result, faults>>

------------------------------------------------------------------------------
(* The drivers. *)

\* A reply, whole or in the two pieces a pause of the line makes of it: its
\* first two bytes and the rest.
Reply(req, damaged) ==
  [function |-> req.function, nb |-> req.nb, damaged |-> damaged,
   word |-> IF req.function = READ THEN regs[req.slave][req.reg] ELSE 0,
   piece |-> "whole"]

Piece(reply, piece) == [reply EXCEPT !.piece = piece]

Exception(req) == [Reply(req, FALSE) EXCEPT !.function = @ + 128]

Sends(req, fate) ==
  CASE fate \in {"request lost", "reply lost"} -> <<>>
    [] fate = "damaged"   -> <<Reply(req, TRUE)>>
    [] fate = "exception" -> <<Exception(req)>>
    [] fate = "cut"       -> <<Piece(Reply(req, FALSE), "head"), Piece(Reply(req, FALSE), "rest")>>
    [] OTHER              -> <<Reply(req, FALSE)>>

\* 0 is the broadcast address.
Reached(req) == IF req.slave = 0 THEN Drivers ELSE Drivers \cap {req.slave}

Executed(req) ==
  IF req.function = WRITE
    THEN [d \in Drivers |->
            IF d \in Reached(req) THEN [regs[d] EXCEPT ![req.reg] = req.word] ELSE regs[d]]
    ELSE regs

Fates == {"arrives", "request lost", "reply lost", "damaged", "exception", "cut"}

------------------------------------------------------------------------------
(* read_registers and modbus_write_registers: send_msg, receive_msg and     *)
(* check_confirmation.  The link is not in recovery mode: nothing is sent   *)
(* twice and nothing is flushed on an error.                                *)

send_msg(req, fate) ==
  /\ request = NoRequest
  /\ request' = req
  /\ fate # "arrives" => faults < MaxFaults
  /\ faults' = IF fate = "arrives" THEN faults ELSE faults + 1
  /\ regs' = IF fate \in {"request lost", "exception"} THEN regs ELSE Executed(req)
  /\ inflight' = IF req.slave \in Drivers THEN inflight \o Sends(req, fate) ELSE inflight
  /\ UNCHANGED <<ctx, STATE_CONNECT, rx, result, missed>>

Arrive ==
  /\ inflight # <<>>
  /\ rx' = Append(rx, Head(inflight)) /\ inflight' = Tail(inflight)
  /\ UNCHANGED <<ctx, STATE_CONNECT, regs, request, result, faults, missed>>

\* The lengths in bytes by which receive_msg finds the end of a reply; the
\* byte count of a reading is twice the number of registers.
compute_meta_length_after_function(function) == IF function = WRITE THEN 4 ELSE 1
compute_data_length_after_meta(reply) ==
  2 + (IF reply.function <= 4 THEN 2 * reply.nb ELSE 0)
MessageLength(reply) ==
  2 + compute_meta_length_after_function(reply.function) + compute_data_length_after_meta(reply)

compute_response_length_from_request(req) ==
  1 + (IF req.function = READ THEN 2 + 2 * req.nb ELSE 5) + 2

\* The assumption on the CRC: no damaged reply and no piece of one passes.
check_integrity(reply) == ~reply.damaged

\* Neither slave nor register of the reply is compared with the request.
check_confirmation(req, reply) ==
  /\ MessageLength(reply) = compute_response_length_from_request(req)
  /\ reply.function = req.function
  /\ reply.nb = req.nb

\* The transaction returns, and the function behind it sleeps SLEEPMODBUS.
Return(value, buffer) ==
  /\ result' = value
  /\ request' = NoRequest
  /\ rx' = buffer
  /\ missed' = (missed \/ inflight # <<>> \/ buffer # <<>>)
  /\ UNCHANGED <<ctx, STATE_CONNECT, regs>>

Confirmed(reply) ==
  IF check_integrity(reply) /\ check_confirmation(request, reply)
    THEN Done(reply.word) ELSE Failed

receive_whole ==
  /\ rx # <<>> /\ Head(rx).piece = "whole"
  /\ Return(Confirmed(Head(rx)), Tail(rx))
  /\ UNCHANGED <<inflight, faults>>

\* The second piece comes within the byte timeout.
receive_pieces ==
  /\ Len(rx) > 1 /\ Head(rx).piece = "head"
  /\ Return(Confirmed(Head(rx)), SubSeq(rx, 3, Len(rx)))
  /\ UNCHANGED <<inflight, faults>>

\* A rest taken for the start of a reply: what its bytes say decides how much
\* of the buffer is read before the reading fails, possibly half a reply.
receive_garbage ==
  /\ rx # <<>> /\ Head(rx).piece = "rest"
  /\ \E n \in 1 .. Len(rx) :
       \E half \in {<<>>, <<Piece(rx[n], "rest")>>} :
         Return(Failed, half \o SubSeq(rx, n + 1, Len(rx)))
  /\ UNCHANGED <<inflight, faults>>

\* Nothing, or nothing after the first two bytes, within 50 ms.
TimesOut_Never == FALSE
TimesOut == rx = <<>> \/ (Len(rx) = 1 /\ Head(rx).piece = "head")

receive_timeout ==
  /\ TimesOut
  /\ inflight # <<>> => faults < MaxFaults
  /\ faults' = IF inflight # <<>> THEN faults + 1 ELSE faults
  /\ Return(Failed, <<>>)
  /\ UNCHANGED inflight

receive_msg ==
  /\ request # NoRequest
  /\ receive_whole \/ receive_pieces \/ receive_garbage \/ receive_timeout

LinkTypeOK ==
  /\ ctx \in {"null", "freed", "open"} /\ STATE_CONNECT \in BOOLEAN
  /\ regs \in [Drivers -> [Registers -> Words]]
  /\ request.function \in {0, READ, WRITE} /\ request.word \in Words
  /\ faults \in 0 .. MaxFaults
  /\ result.word \in Words
  /\ missed \in BOOLEAN
==============================================================================

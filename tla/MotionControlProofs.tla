------------------------- MODULE MotionControlProofs ---------------------------
(***************************************************************************)
(* Proofs about a command of the server against one driver, for every      *)
(* travel of the slit, every offset of its encoder and every number of     *)
(* failed transactions.                                                    *)
(***************************************************************************)
EXTENDS MotionControl, SequenceTheorems, TLAPS

------------------------------------------------------------------------------
(* The types, and what the command thread still has to do.                 *)

Names == {"Homing", "MoveTo", "GetMovePar", "CheckPositionEncoder", "Ready",
          "Sample"}

Calls == [name : Names, arg : Positions]
Pairs == [x : Positions, y : Nat]

\* The last function of Encode.
LastOfLoop == 2 * (MaxPosition + 1)

\* Encode is about to execute its k-th function; the wait is the function 0.
InLoop(calls, k) ==
  /\ Len(calls) = LastOfLoop + 1 - k
  /\ \A j \in 1 .. Len(calls) :
       calls[j] = IF k + j = 1 THEN Call("Ready", 0) ELSE EncodeLoop[k + j - 1]

\* The functions still to be called are the last ones of a command, and pairs
\* are pushed by Encode only, one by every second function.
TodoIs(calls, pairs) ==
  \/ calls = <<>> /\ Len(pairs) <= MaxPosition + 1
  \/ /\ Len(calls) = 1 /\ pairs = <<>>
     /\ calls[1].name \in {"GetMovePar", "CheckPositionEncoder"}
  \/ /\ Len(calls) = 2 /\ pairs = <<>>
     /\ calls[1].name \in {"Homing", "MoveTo"} /\ calls[2].name = "GetMovePar"
  \/ \E k \in 0 .. LastOfLoop :
       InLoop(calls, k) /\ (pairs = <<>> \/ 2 * Len(pairs) < k)

\* The accesses still to be made are the last ones of the function.
LeftIs(name, l) ==
  /\ name = "Homing" => l \in {Homing, <<"clear", "request">>, <<"request">>}
  /\ name = "MoveTo" => l \in {MoveTo, <<"clear", "target", "request">>,
                               <<"target", "request">>, <<"request">>}
  /\ name = "GetMovePar" =>
       l \in {GetMovePar, <<"position", "analog">>, <<"analog">>}
  /\ name = "CheckPositionEncoder" =>
       l \in {CheckPositionEncoder, <<"position", "analog">>, <<"analog">>}
  /\ name = "Sample" => l \in {Sample, <<"analog">>}
  /\ name = "Ready" => l = Ready

\* What the command thread does next.
Control ==
  /\ todo \in Seq(Calls)
  /\ todo = <<>> => left = <<>>
  /\ todo # <<>> => LeftIs(Current.name, left)
  /\ TodoIs(todo, samples)
  /\ count \in 0 .. LIMITSTATUS_STATE
  /\ samples \in Seq(Pairs)

Readings ==
  /\ seen \in Counts \cup {NoReading}
  /\ answer.result \in -2 .. 5
  /\ faults \in 0 .. MaxFaults
  /\ misread \in BOOLEAN /\ astray \in BOOLEAN

TypeInv == DriverTypeOK /\ Control /\ Readings

------------------------------------------------------------------------------
(* The functions and their accesses.                                       *)

LEMMA AccessNames == DOMAIN Accesses = Names
BY DEF Accesses, Names

\* A function starts with its list of accesses.
LEMMA Starts ==
  ASSUME NEW name \in Names
  PROVE  /\ LeftIs(name, Accesses[name])
         /\ Head(Accesses[name]) = "wait" /\ Accesses[name] # <<>>
BY DEF Names, LeftIs, Accesses, Homing, MoveTo, GetMovePar, CheckPositionEncoder,
       Sample, Ready

LEMMA Tails ==
  /\ Tail(Homing) = <<"clear", "request">>
  /\ Tail(MoveTo) = <<"clear", "target", "request">>
  /\ Tail(<<"clear", "target", "request">>) = <<"target", "request">>
  /\ Tail(<<"clear", "request">>) = <<"request">>
  /\ Tail(<<"target", "request">>) = <<"request">>
  /\ Tail(GetMovePar) = <<"position", "analog">>
  /\ Tail(CheckPositionEncoder) = <<"position", "analog">>
  /\ Tail(<<"position", "analog">>) = <<"analog">>
  /\ Tail(Sample) = <<"analog">>
BY DEF Homing, MoveTo, GetMovePar, CheckPositionEncoder, Sample

\* What the next access tells of the function in execution.
LEMMA Heads ==
  ASSUME NEW name \in Names, NEW l, LeftIs(name, l)
  PROVE  /\ l # <<>>
         /\ Head(l) \in {"wait", "clear", "target", "request", "position", "analog"}
         /\ Head(l) = "clear" => Len(l) # 1 /\ name \in {"Homing", "MoveTo"}
         /\ Head(l) = "target" => Len(l) # 1 /\ name = "MoveTo"
         /\ Head(l) = "request" => Len(l) = 1 /\ name \in {"Homing", "MoveTo"}
         /\ Head(l) = "position" =>
              Len(l) # 1 /\ name \in {"GetMovePar", "CheckPositionEncoder"}
         /\ Head(l) = "analog" =>
              Len(l) = 1 /\ name \in {"GetMovePar", "CheckPositionEncoder", "Sample"}
         /\ Head(l) = "wait" => (Len(l) = 1 <=> name = "Ready")
BY DEF Names, LeftIs, Homing, MoveTo, GetMovePar, CheckPositionEncoder, Sample, Ready

\* One access after the other.
LEMMA GoesOn ==
  ASSUME NEW name \in Names, NEW l, LeftIs(name, l), Len(l) # 1
  PROVE  /\ LeftIs(name, Tail(l)) /\ Tail(l) # <<>>
         /\ Head(l) = "wait" => Head(Tail(l)) \in {"clear", "position", "analog"}
         /\ Head(l) = "wait" /\ Head(Tail(l)) = "analog" => name = "Sample"
         /\ Head(l) = "clear" => Head(Tail(l)) \in {"target", "request"}
         /\ Head(l) = "target" => Head(Tail(l)) = "request"
         /\ Head(l) = "position" => Head(Tail(l)) = "analog"
<1> USE DEF LeftIs, Homing, MoveTo, GetMovePar, CheckPositionEncoder, Sample, Ready
<1>1. CASE name = "Homing"
  <2>1. l = Homing \/ l = <<"clear", "request">>
    BY <1>1
  <2>2. CASE l = Homing
    BY <1>1, <2>2, Tails
  <2>3. CASE l = <<"clear", "request">>
    BY <1>1, <2>3, Tails
  <2> QED BY <2>1, <2>2, <2>3
<1>2. CASE name = "MoveTo"
  <2>1. \/ l = MoveTo \/ l = <<"clear", "target", "request">>
        \/ l = <<"target", "request">>
    BY <1>2
  <2>2. CASE l = MoveTo
    BY <1>2, <2>2, Tails
  <2>3. CASE l = <<"clear", "target", "request">>
    BY <1>2, <2>3, Tails
  <2>4. CASE l = <<"target", "request">>
    BY <1>2, <2>4, Tails
  <2> QED BY <2>1, <2>2, <2>3, <2>4
<1>3. CASE name \in {"GetMovePar", "CheckPositionEncoder"}
  <2>1. l = <<"wait", "position", "analog">> \/ l = <<"position", "analog">>
    BY <1>3
  <2>2. CASE l = <<"wait", "position", "analog">>
    BY <1>3, <2>2, Tails
  <2>3. CASE l = <<"position", "analog">>
    BY <1>3, <2>3, Tails
  <2> QED BY <2>1, <2>2, <2>3
<1>4. CASE name = "Sample"
  <2>1. l = <<"wait", "analog">> \/ l = <<"analog">>
    BY <1>4
  <2>2. l = <<"wait", "analog">>
    BY <2>1
  <2>3. Tail(l) = <<"analog">>
    BY <2>2, Tails
  <2> QED BY <1>4, <2>2, <2>3
<1>5. CASE name = "Ready"
  BY <1>5
<1> QED BY <1>1, <1>2, <1>3, <1>4, <1>5 DEF Names

\* The functions of Encode alternate.
LEMMA LoopFunction ==
  ASSUME NEW k \in 1 .. LastOfLoop
  PROVE  \E x \in Positions :
           \/ k = 2 * x + 1 /\ EncodeLoop[k] = Call("MoveTo", x)
           \/ k = 2 * x + 2 /\ EncodeLoop[k] = Call("Sample", x)
<1> DEFINE x == (k - 1) \div 2
<1>1. x \in Positions /\ (k = 2 * x + 1 \/ k = 2 * x + 2)
  BY TravelAssumption DEF LastOfLoop, Positions
<1>2. EncodeLoop[k] = Call(IF k % 2 = 1 THEN "MoveTo" ELSE "Sample", x)
  BY DEF EncodeLoop, LastOfLoop
<1>3. k = 2 * x + 1 => k % 2 = 1
  BY <1>1 DEF Positions
<1>4. k = 2 * x + 2 => k % 2 # 1
  BY <1>1 DEF Positions
<1> QED BY <1>1, <1>2, <1>3, <1>4

LEMMA SequenceTail ==
  ASSUME NEW S, NEW s \in Seq(S), s # <<>>
  PROVE  /\ Len(s) \in Nat \ {0} /\ s[1] \in S /\ Head(s) = s[1]
         /\ Tail(s) \in Seq(S) /\ Len(Tail(s)) = Len(s) - 1
         /\ \A j \in 1 .. Len(s) - 1 : Tail(s)[j] = s[j + 1]
         /\ Len(s) = 1 => Tail(s) = <<>>
<1>1. Len(s) \in Nat \ {0} /\ s[1] \in S /\ Head(s) = s[1]
  OBVIOUS
<1>2. Tail(s) \in Seq(S) /\ Len(Tail(s)) = Len(s) - 1
  OBVIOUS
<1>3. \A j \in 1 .. Len(s) - 1 : Tail(s)[j] = s[j + 1]
  OBVIOUS
<1>4. \A t \in Seq(S) : Len(t) = 0 => t = <<>>
  OBVIOUS
<1>5. Len(s) = 1 => Tail(s) = <<>>
  <2>1. SUFFICES ASSUME Len(s) = 1 PROVE Tail(s) = <<>>
    OBVIOUS
  <2>2. Len(Tail(s)) = 0
    BY <1>2, <2>1
  <2> QED BY <1>2, <1>4, <2>2, Zenon
<1> QED BY <1>1, <1>2, <1>3, <1>5

\* Encode executes one function after the other, from the wait at its head.
LEMMA LoopHead ==
  ASSUME NEW calls \in Seq(Calls), NEW k \in 0 .. LastOfLoop, InLoop(calls, k)
  PROVE  /\ calls # <<>>
         /\ Head(calls) = IF k = 0 THEN Call("Ready", 0) ELSE EncodeLoop[k]
<1>1. Len(calls) = LastOfLoop + 1 - k /\ LastOfLoop \in Nat
  BY TravelAssumption DEF InLoop, LastOfLoop
<1>2. 1 \in 1 .. Len(calls)
  BY <1>1
<1>3. calls[1] = IF k + 1 = 1 THEN Call("Ready", 0) ELSE EncodeLoop[k + 1 - 1]
  BY <1>2, Zenon DEF InLoop
<1>4. (k + 1 = 1 <=> k = 0) /\ k + 1 - 1 = k
  OBVIOUS
<1>5. calls[1] = IF k = 0 THEN Call("Ready", 0) ELSE EncodeLoop[k]
  BY <1>3, <1>4
<1>6. calls # <<>>
  BY <1>1
<1>7. Head(calls) = calls[1]
  BY <1>6
<1> QED BY <1>5, <1>6, <1>7

LEMMA LoopTail ==
  ASSUME NEW calls \in Seq(Calls), NEW k \in 0 .. LastOfLoop, InLoop(calls, k)
  PROVE  IF k = LastOfLoop THEN Tail(calls) = <<>> ELSE InLoop(Tail(calls), k + 1)
<1>1. Len(calls) = LastOfLoop + 1 - k /\ LastOfLoop \in Nat /\ calls # <<>>
  BY LoopHead, TravelAssumption DEF InLoop, LastOfLoop
<1>2. /\ Tail(calls) \in Seq(Calls) /\ Len(Tail(calls)) = Len(calls) - 1
      /\ \A j \in 1 .. Len(calls) - 1 : Tail(calls)[j] = calls[j + 1]
      /\ Len(calls) = 1 => Tail(calls) = <<>>
  BY <1>1, SequenceTail
<1>3. CASE k = LastOfLoop
  BY <1>1, <1>2, <1>3
<1>4. CASE k # LastOfLoop
  <2>1. Len(Tail(calls)) = LastOfLoop + 1 - (k + 1)
    BY <1>1, <1>2
  <2>2. ASSUME NEW j \in 1 .. Len(Tail(calls))
        PROVE  Tail(calls)[j] = IF (k + 1) + j = 1 THEN Call("Ready", 0)
                                ELSE EncodeLoop[(k + 1) + j - 1]
    <3>1. /\ j \in 1 .. Len(calls) - 1 /\ j + 1 \in 1 .. Len(calls)
          /\ k + (j + 1) # 1 /\ (k + 1) + j # 1
          /\ k + (j + 1) - 1 = (k + 1) + j - 1
      BY <1>1, <1>2, <2>1
    <3>2. Tail(calls)[j] = calls[j + 1]
      BY <1>2, <3>1, Zenon
    <3>3. calls[j + 1] = IF k + (j + 1) = 1 THEN Call("Ready", 0)
                         ELSE EncodeLoop[k + (j + 1) - 1]
      BY <3>1, Zenon DEF InLoop
    <3> QED BY <3>1, <3>2, <3>3
  <2> QED BY <1>4, <2>1, <2>2, Zenon DEF InLoop
<1> QED BY <1>3, <1>4

\* There is one place in Encode for what is left of it.
LEMMA LoopPlace ==
  ASSUME NEW calls, NEW k \in 0 .. LastOfLoop, NEW m \in 0 .. LastOfLoop,
         InLoop(calls, k), InLoop(calls, m)
  PROVE  k = m
BY TravelAssumption DEF InLoop, LastOfLoop

\* The function that ends and pushes no pair.
LEMMA DropOne ==
  ASSUME NEW calls \in Seq(Calls), calls # <<>>, NEW pairs \in Seq(Pairs),
         TodoIs(calls, pairs)
  PROVE  TodoIs(Tail(calls), pairs)
<1>0. /\ Tail(calls) \in Seq(Calls) /\ Len(Tail(calls)) = Len(calls) - 1
      /\ \A j \in 1 .. Len(calls) - 1 : Tail(calls)[j] = calls[j + 1]
      /\ Len(calls) = 1 => Tail(calls) = <<>>
  BY SequenceTail
<1>1. CASE Len(calls) = 1 /\ pairs = <<>>
  BY <1>0, <1>1, TravelAssumption DEF TodoIs
<1>2. CASE /\ Len(calls) = 2 /\ pairs = <<>>
           /\ calls[2].name = "GetMovePar"
  BY <1>0, <1>2 DEF TodoIs
<1>3. CASE \E k \in 0 .. LastOfLoop :
             InLoop(calls, k) /\ (pairs = <<>> \/ 2 * Len(pairs) < k)
  <2>1. PICK k \in 0 .. LastOfLoop :
          InLoop(calls, k) /\ (pairs = <<>> \/ 2 * Len(pairs) < k)
    BY <1>3
  <2>2. IF k = LastOfLoop THEN Tail(calls) = <<>> ELSE InLoop(Tail(calls), k + 1)
    BY <2>1, LoopTail
  <2>3. LastOfLoop \in Nat /\ Len(pairs) \in Nat
    BY TravelAssumption DEF LastOfLoop
  <2>4. CASE k = LastOfLoop
    <3>1. Len(pairs) <= MaxPosition + 1
      BY <2>1, <2>4, TravelAssumption DEF LastOfLoop
    <3> QED BY <2>2, <2>4, <3>1 DEF TodoIs
  <2>5. CASE k # LastOfLoop
    <3>1. k + 1 \in 0 .. LastOfLoop /\ (pairs = <<>> \/ 2 * Len(pairs) < k + 1)
      BY <2>1, <2>3, <2>5
    <3>2. InLoop(Tail(calls), k + 1)
      BY <2>2, <2>5
    <3> QED BY <3>1, <3>2, Zenon DEF TodoIs
  <2> QED BY <2>4, <2>5
<1> QED BY <1>1, <1>2, <1>3 DEF TodoIs

\* The function of Encode that pushes one.
LEMMA DropSample ==
  ASSUME NEW calls \in Seq(Calls), calls # <<>>, NEW pairs \in Seq(Pairs),
         TodoIs(calls, pairs), Head(calls).name = "Sample", NEW p \in Pairs
  PROVE  TodoIs(Tail(calls), Append(pairs, p))
<1>1. Head(calls) = calls[1]
  BY SequenceTail
<1>2. PICK k \in 0 .. LastOfLoop :
        InLoop(calls, k) /\ (pairs = <<>> \/ 2 * Len(pairs) < k)
  BY <1>1 DEF TodoIs
<1>3. Head(calls) = IF k = 0 THEN Call("Ready", 0) ELSE EncodeLoop[k]
  BY <1>2, LoopHead
<1>4. k \in 1 .. LastOfLoop
  BY <1>3 DEF Call
<1>5. PICK x \in Positions :
        \/ k = 2 * x + 1 /\ EncodeLoop[k] = Call("MoveTo", x)
        \/ k = 2 * x + 2 /\ EncodeLoop[k] = Call("Sample", x)
  BY <1>4, LoopFunction
<1>6. k = 2 * x + 2
  BY <1>3, <1>4, <1>5 DEF Call
<1>7. Len(Append(pairs, p)) = Len(pairs) + 1 /\ Len(pairs) \in Nat
  OBVIOUS
<1>8. 2 * Len(Append(pairs, p)) < k + 1
  BY <1>2, <1>6, <1>7 DEF Positions
<1>9. IF k = LastOfLoop THEN Tail(calls) = <<>> ELSE InLoop(Tail(calls), k + 1)
  BY <1>2, LoopTail
<1>10. CASE k = LastOfLoop
  <2>1. Len(Append(pairs, p)) <= MaxPosition + 1
    BY <1>7, <1>8, <1>10, TravelAssumption DEF LastOfLoop
  <2> QED BY <1>9, <1>10, <2>1 DEF TodoIs
<1>11. CASE k # LastOfLoop
  <2>1. k + 1 \in 0 .. LastOfLoop /\ InLoop(Tail(calls), k + 1)
    <3>1. k + 1 \in 0 .. LastOfLoop
      BY <1>11, TravelAssumption DEF LastOfLoop
    <3> QED BY <1>9, <1>11, <3>1
  <2> QED BY <1>8, <2>1, Zenon DEF TodoIs
<1> QED BY <1>10, <1>11

LEMMA EnoughPairs ==
  ASSUME NEW calls, NEW pairs \in Seq(Pairs), TodoIs(calls, pairs)
  PROVE  Len(pairs) <= MaxPosition + 1
<1>1. \A k \in 0 .. LastOfLoop : 2 * Len(pairs) < k => Len(pairs) <= MaxPosition + 1
  BY TravelAssumption DEF LastOfLoop
<1> QED BY <1>1, TravelAssumption DEF TodoIs

LEMMA CallsAre ==
  /\ \A n \in Names, x \in Positions : Call(n, x) \in Calls
  /\ 0 \in Positions
BY TravelAssumption DEF Call, Calls, Positions

LEMMA LoopIsSeq ==
  LastOfLoop \in Nat /\ EncodeLoop \in Seq(Calls) /\ Len(EncodeLoop) = LastOfLoop
<1>1. LastOfLoop \in Nat /\ DOMAIN EncodeLoop = 1 .. LastOfLoop
  BY TravelAssumption DEF EncodeLoop, LastOfLoop
<1>2. \A k \in 1 .. LastOfLoop : EncodeLoop[k] \in Calls
  <2> TAKE k \in 1 .. LastOfLoop
  <2>1. PICK x \in Positions :
          \/ k = 2 * x + 1 /\ EncodeLoop[k] = Call("MoveTo", x)
          \/ k = 2 * x + 2 /\ EncodeLoop[k] = Call("Sample", x)
    BY LoopFunction
  <2> QED BY CallsAre, <2>1 DEF Names
<1>3. EncodeLoop = [k \in 1 .. LastOfLoop |-> EncodeLoop[k]]
  BY <1>1 DEF EncodeLoop, LastOfLoop
<1> QED BY <1>1, <1>2, <1>3

\* Encode waits, and then executes its loop.
LEMMA EncodeStarts ==
  ASSUME NEW calls, calls = <<Call("Ready", 0)>> \o EncodeLoop
  PROVE  /\ calls \in Seq(Calls) /\ calls # <<>> /\ TodoIs(calls, <<>>)
         /\ calls[1] = Call("Ready", 0)
<1>0. /\ \A n \in Names, x \in Positions : Call(n, x) \in Calls
      /\ 0 \in Positions
  BY CallsAre
<1>1. LastOfLoop \in Nat /\ EncodeLoop \in Seq(Calls) /\ Len(EncodeLoop) = LastOfLoop
  BY LoopIsSeq
<1>2. <<Call("Ready", 0)>> \in Seq(Calls) /\ Len(<<Call("Ready", 0)>>) = 1
  BY <1>0 DEF Names
<1>3. /\ calls \in Seq(Calls) /\ Len(calls) = LastOfLoop + 1
      /\ calls[1] = Call("Ready", 0)
      /\ \A j \in 2 .. LastOfLoop + 1 : calls[j] = EncodeLoop[j - 1]
  BY <1>1, <1>2
<1>4. InLoop(calls, 0)
  <2>1. Len(calls) = LastOfLoop + 1 - 0
    BY <1>1, <1>3
  <2>2. ASSUME NEW j \in 1 .. Len(calls)
        PROVE  calls[j] = IF 0 + j = 1 THEN Call("Ready", 0) ELSE EncodeLoop[0 + j - 1]
    BY <1>1, <1>3
  <2> QED BY <2>1, <2>2, Zenon DEF InLoop
<1>5. 0 \in 0 .. LastOfLoop /\ calls # <<>>
  BY <1>1, <1>3
<1> QED BY <1>3, <1>4, <1>5, Zenon DEF TodoIs

\* Every command is one of the lists of functions above.
LEMMA CommandsAreTodos ==
  ASSUME NEW calls \in Commands
  PROVE  calls \in Seq(Calls) /\ calls # <<>> /\ TodoIs(calls, <<>>)
<1>0. \A n \in Names, x \in Positions : Call(n, x) \in Calls
  BY CallsAre
<1>1. 0 \in Positions
  BY CallsAre
<1>2. CASE calls = <<Call("Homing", 0), Call("GetMovePar", 0)>>
  <2>1. calls \in Seq(Calls)
    BY <1>0, <1>1, <1>2 DEF Names
  <2> QED BY <1>2, <2>1 DEF TodoIs, Call
<1>3. CASE calls = <<Call("GetMovePar", 0)>>
  <2>1. calls \in Seq(Calls)
    BY <1>0, <1>1, <1>3 DEF Names
  <2> QED BY <1>3, <2>1 DEF TodoIs, Call
<1>4. CASE calls = <<Call("CheckPositionEncoder", 0)>>
  <2>1. calls \in Seq(Calls)
    BY <1>0, <1>1, <1>4 DEF Names
  <2> QED BY <1>4, <2>1 DEF TodoIs, Call
<1>5. CASE \E x \in Positions : calls = <<Call("MoveTo", x), Call("GetMovePar", 0)>>
  <2>1. PICK x \in Positions : calls = <<Call("MoveTo", x), Call("GetMovePar", 0)>>
    BY <1>5
  <2>2. calls \in Seq(Calls)
    BY <1>0, <1>1, <2>1 DEF Names
  <2> QED BY <2>1, <2>2 DEF TodoIs, Call
<1>6. CASE calls = <<Call("Ready", 0)>> \o EncodeLoop
  BY <1>6, EncodeStarts
<1> QED BY <1>2, <1>3, <1>4, <1>5, <1>6 DEF Commands

------------------------------------------------------------------------------
(* What a step of the command thread leaves to be done.                    *)

LEMMA FirstCall ==
  ASSUME NEW calls \in Seq(Calls), calls # <<>>
  PROVE  Head(calls) \in Calls /\ Head(calls).name \in Names
         /\ Head(calls).arg \in Positions
<1>1. Head(calls) \in Calls
  BY SequenceTail
<1> QED BY <1>1 DEF Calls

\* A function begins at its wait, and with no function left nothing is.
LEMMA Begins ==
  ASSUME NEW calls \in Seq(Calls), Begin(calls)
  PROVE  /\ todo' = calls
         /\ calls = <<>> => left' = <<>>
         /\ calls # <<>> => /\ LeftIs(Head(calls).name, left')
                            /\ left' # <<>> /\ Head(left') = "wait"
BY FirstCall, Starts DEF Begin

LEMMA BeginKeeps ==
  ASSUME NEW calls \in Seq(Calls), Begin(calls), samples' \in Seq(Pairs),
         TodoIs(calls, samples')
  PROVE  Control'
<1>1. todo' = calls /\ count' = 0
  BY DEF Begin
<1>2. count' \in 0 .. LIMITSTATUS_STATE
  BY <1>1, LimitAssumption
<1>3. /\ calls = <<>> => left' = <<>>
      /\ calls # <<>> => LeftIs(Head(calls).name, left')
  BY Begins
<1> QED BY <1>1, <1>2, <1>3 DEF Control, Current

\* In the middle of a function.
LEMMA InFunction ==
  ASSUME Control, left # <<>>
  PROVE  /\ todo # <<>> /\ Current.name \in Names /\ Current.arg \in Positions
         /\ LeftIs(Current.name, left)
         /\ Tail(todo) \in Seq(Calls)
BY FirstCall, SequenceTail DEF Control, Current

LEMMA AdvanceKeeps ==
  ASSUME Control, left # <<>>, Advance, samples' \in Seq(Pairs),
         Len(left) = 1 => TodoIs(Tail(todo), samples'),
         Len(left) # 1 => samples' = samples
  PROVE  Control'
<1>1. CASE Len(left) = 1
  BY <1>1, InFunction, BeginKeeps DEF Advance
<1>2. CASE Len(left) # 1
  <2>1. left' = Tail(left) /\ count' = 0 /\ todo' = todo /\ samples' = samples
    BY <1>2 DEF Advance
  <2>2. LeftIs(Current.name, Tail(left)) /\ todo # <<>>
    BY <1>2, InFunction, GoesOn
  <2>3. count' \in 0 .. LIMITSTATUS_STATE
    BY <2>1, LimitAssumption
  <2> QED BY <2>1, <2>2, <2>3 DEF Control, Current
<1> QED BY <1>1, <1>2

LEMMA GiveUpKeeps ==
  ASSUME Control, left # <<>>, GiveUp, samples' \in Seq(Pairs),
         samples' = samples \/ (samples' = <<>> /\ Current.name = "Sample")
  PROVE  Control'
<1>1. TodoIs(<<>>, samples')
  <2>1. TodoIs(<<>>, samples)
    BY EnoughPairs DEF Control, TodoIs
  <2>2. TodoIs(<<>>, <<>>)
    BY TravelAssumption DEF TodoIs
  <2> QED BY <2>1, <2>2
<1>2. CASE Current.name \in {"Ready", "Sample"}
  <2>1. Begin(<<>>)
    BY <1>2 DEF GiveUp
  <2>2. <<>> \in Seq(Calls)
    OBVIOUS
  <2> QED BY <1>1, <2>1, <2>2, BeginKeeps
<1>3. CASE Current.name \notin {"Ready", "Sample"}
  <2>1. Begin(Tail(todo)) /\ samples' = samples
    BY <1>3 DEF GiveUp
  <2>2. TodoIs(Tail(todo), samples)
    BY InFunction, DropOne DEF Control
  <2> QED BY <2>1, <2>2, InFunction, BeginKeeps
<1> QED BY <1>2, <1>3

\* The functions that follow the one in execution.
LEMMA NextFunctions ==
  ASSUME Control, left # <<>>
  PROVE  TodoIs(Tail(todo), samples)
BY InFunction, DropOne DEF Control

------------------------------------------------------------------------------
(* Type correctness.                                                       *)

LEMMA TypeInit == Init => TypeInv
<1> SUFFICES ASSUME Init PROVE TypeInv
  OBVIOUS
<1> USE TravelAssumption, LimitAssumption, FaultAssumption
<1>1. DriverTypeOK
  <2>1. {bEnable, spinning, advanced, slipped} \subseteq BOOLEAN
    BY Zenon DEF Init, FirmwareInit
  <2>2. opening \in Positions
    BY DEF Init, FirmwareInit
  <2> QED BY <2>1, <2>2
          DEF Init, FirmwareInit, DriverTypeOK, Positions, Counts, HOMING, MOVEREL
<1>2. <<>> \in Seq(Calls) /\ <<>> \in Seq(Pairs) /\ Len(<<>>) = 0
  OBVIOUS
<1>3. Control
  BY <1>2 DEF Init, Control, TodoIs
<1>4. Readings
  <2>1. misread \in BOOLEAN /\ astray \in BOOLEAN
    BY Zenon DEF Init
  <2> QED BY <2>1 DEF Init, Readings, NoReading, NoAnswer
<1> QED BY <1>1, <1>3, <1>4 DEF TypeInv

LEMMA TypeStart == TypeInv /\ StartCommand => TypeInv'
<1> SUFFICES ASSUME TypeInv, StartCommand PROVE TypeInv'
  OBVIOUS
<1>1. DriverTypeOK'
  BY DEF TypeInv, StartCommand, DriverTypeOK, driver, registers, motion, motor
<1>2. PICK calls \in Commands : Begin(calls)
  BY DEF StartCommand
<1>3. samples' = <<>> /\ <<>> \in Seq(Pairs)
  BY DEF StartCommand
<1>4. Control'
  BY <1>2, <1>3, CommandsAreTodos, BeginKeeps
<1>5. Readings'
  <2>1. misread' \in BOOLEAN /\ astray' = astray
    BY Zenon DEF StartCommand
  <2> QED BY <2>1 DEF TypeInv, StartCommand, Readings, NoAnswer
<1> QED BY <1>1, <1>4, <1>5 DEF TypeInv

\* The faults are counted up to their bound.
LEMMA Faults ==
  ASSUME NEW access, NEW outcome, Transaction(access, outcome),
         faults \in 0 .. MaxFaults
  PROVE  /\ faults' \in 0 .. MaxFaults /\ left # <<>> /\ Head(left) = access
         /\ outcome # "done" => faults' # 0
BY FaultAssumption DEF Transaction

LEMMA TypeReadStatus ==
  ASSUME TypeInv, NEW outcome \in Outcomes, ReadStatus(outcome)
  PROVE  TypeInv'
<1>0. DriverTypeOK /\ Control /\ Readings
  BY DEF TypeInv
<1>1. DriverTypeOK'
  BY <1>0 DEF ReadStatus, DriverTypeOK, driver, registers, motion, motor
<1>2. /\ faults' \in 0 .. MaxFaults /\ left # <<>>
      /\ samples' = samples /\ samples' \in Seq(Pairs) /\ astray' = astray
  BY <1>0, Faults DEF ReadStatus, Readings, Control
<1>3. StatusRead(outcome) \in 0 .. 5
  BY <1>0 DEF StatusRead, DriverTypeOK
<1> DEFINE status == StatusRead(outcome)
<1>4. CASE ~LetsGoOn(status) /\ ~GivenUp
  <2>1. /\ count' = count + 1 /\ UNCHANGED <<todo, left, seen, answer, misread>>
    BY <1>4 DEF ReadStatus
  <2>2. count' \in 0 .. LIMITSTATUS_STATE
    BY <1>0, <1>4, <2>1, LimitAssumption DEF Control, GivenUp
  <2>3. Control'
    BY <1>0, <1>2, <2>1, <2>2 DEF Control, Current
  <2> QED BY <1>0, <1>1, <1>2, <2>1, <2>3 DEF TypeInv, Readings
<1>5. CASE ~(~LetsGoOn(status) /\ ~GivenUp)
  <2>1. misread' = (outcome # "done") /\ seen' = seen
    BY <1>5, Zenon DEF ReadStatus
  <2>2. CASE GivenUp
    <3>1. /\ GiveUp
          /\ CASE Current.name = "CheckPositionEncoder" -> Answer(status)
               [] Current.name = "GetMovePar" -> Answer(-2)
               [] OTHER -> UNCHANGED answer
      BY <1>5, <2>2, Zenon DEF ReadStatus
    <3>2. \/ Answer(status) \/ Answer(-2) \/ UNCHANGED answer
      BY <3>1, Zenon
    <3>3. answer'.result \in -2 .. 5
      BY <1>0, <1>3, <3>2 DEF Answer, Readings
    <3>4. Control'
      BY <1>0, <1>2, <3>1, GiveUpKeeps
    <3> QED BY <1>0, <1>1, <1>2, <2>1, <3>3, <3>4 DEF TypeInv, Readings
  <2>3. CASE ~GivenUp
    <3>1. Advance /\ UNCHANGED answer
      BY <1>5, <2>3, Zenon DEF ReadStatus
    <3>2. Control'
      BY <1>0, <1>2, <3>1, AdvanceKeeps, NextFunctions
    <3> QED BY <1>0, <1>1, <1>2, <2>1, <3>1, <3>2 DEF TypeInv, Readings
  <2> QED BY <2>2, <2>3
<1> QED BY <1>4, <1>5

\* A write that succeeds goes on, and one that fails ends the function.
LEMMA WriteKeeps ==
  ASSUME Control, left # <<>>, NEW outcome, Write(outcome)
  PROVE  Control'
<1>1. samples' = samples /\ samples' \in Seq(Pairs)
  BY DEF Write, Control
<1>2. Advance \/ GiveUp
  BY DEF Write
<1> QED BY <1>1, <1>2, AdvanceKeeps, NextFunctions, GiveUpKeeps

LEMMA TypeClear ==
  ASSUME TypeInv, NEW outcome \in Outcomes, ClearStatus(outcome)
  PROVE  TypeInv'
<1>0. DriverTypeOK /\ Control /\ Readings
  BY DEF TypeInv
<1>1. faults' \in 0 .. MaxFaults /\ left # <<>>
  BY <1>0, Faults DEF ClearStatus, Readings
<1>2. Control'
  BY <1>0, <1>1, WriteKeeps DEF ClearStatus
<1>3. DriverTypeOK'
  <2>1. status_state' \in 0 .. 5
    BY <1>0 DEF ClearStatus, DriverTypeOK
  <2> QED BY <1>0, <2>1 DEF ClearStatus, DriverTypeOK, motion, motor
<1>4. Readings'
  <2>1. astray' \in BOOLEAN
    BY <1>0 DEF ClearStatus, Readings
  <2> QED BY <1>0, <1>1, <2>1 DEF ClearStatus, Write, Readings
<1> QED BY <1>2, <1>3, <1>4 DEF TypeInv

LEMMA TypeTarget ==
  ASSUME TypeInv, NEW outcome \in Outcomes, WriteTarget(outcome)
  PROVE  TypeInv'
<1>0. DriverTypeOK /\ Control /\ Readings
  BY DEF TypeInv
<1>1. faults' \in 0 .. MaxFaults /\ left # <<>>
  BY <1>0, Faults DEF WriteTarget, Readings
<1>2. Control'
  BY <1>0, <1>1, WriteKeeps DEF WriteTarget
<1>3. DriverTypeOK'
  <2>1. count_TargetPos' \in Positions
    BY <1>0, <1>1, InFunction DEF WriteTarget, DriverTypeOK
  <2> QED BY <1>0, <2>1 DEF WriteTarget, DriverTypeOK, motion, motor
<1> QED BY <1>0, <1>1, <1>2, <1>3 DEF TypeInv, WriteTarget, Write, Readings

LEMMA TypeRequest ==
  ASSUME TypeInv, NEW outcome \in Outcomes, WriteRequest(outcome)
  PROVE  TypeInv'
<1>0. DriverTypeOK /\ Control /\ Readings
  BY DEF TypeInv
<1>1. faults' \in 0 .. MaxFaults /\ left # <<>>
  BY <1>0, Faults DEF WriteRequest, Readings
<1>2. Control'
  BY <1>0, <1>1, WriteKeeps DEF WriteRequest
<1>3. DriverTypeOK'
  <2>1. request_state' \in {request_state, HOMING, MOVEREL}
    BY Zenon DEF WriteRequest
  <2>2. request_state' \in {0, HOMING, MOVEREL}
    BY <1>0, <2>1 DEF DriverTypeOK
  <2> QED BY <1>0, <2>2 DEF WriteRequest, DriverTypeOK, motion, motor
<1> QED BY <1>0, <1>1, <1>2, <1>3 DEF TypeInv, WriteRequest, Write, Readings

LEMMA TypeReadPosition ==
  ASSUME TypeInv, NEW outcome \in Outcomes, ReadPosition(outcome)
  PROVE  TypeInv'
<1>0. DriverTypeOK /\ Control /\ Readings
  BY DEF TypeInv
<1>1. faults' \in 0 .. MaxFaults /\ left # <<>>
  BY <1>0, Faults DEF ReadPosition, Readings
<1>2. samples' = samples /\ samples' \in Seq(Pairs) /\ Advance
  BY <1>0 DEF ReadPosition, Control
<1>3. Control'
  BY <1>0, <1>1, <1>2, AdvanceKeeps, NextFunctions
<1>4. DriverTypeOK'
  BY <1>0 DEF ReadPosition, DriverTypeOK, driver, registers, motion, motor
<1>5. seen' \in Counts \cup {NoReading}
  BY <1>0 DEF ReadPosition, DriverTypeOK
<1> QED BY <1>0, <1>1, <1>3, <1>4, <1>5 DEF TypeInv, ReadPosition, Readings, history

\* The reading of the encoder: a pair for Encode, or an answer.
LEMMA AnalogCases ==
  ASSUME TypeInv, NEW outcome \in Outcomes, ReadAnalog(outcome)
  PROVE  \/ /\ Current.name = "Sample" /\ UNCHANGED answer
            /\ \/ outcome # "done" /\ GiveUp /\ samples' = <<>>
               \/ /\ outcome = "done" /\ Advance
                  /\ samples' = Append(samples, [x |-> Current.arg, y |-> AnalogInput0])
         \/ /\ Current.name # "Sample" /\ Advance /\ UNCHANGED samples
            /\ \/ Answer(-2)
               \/ Current.name = "GetMovePar" /\ Answer(0)
               \/ outcome = "done" /\ seen # NoReading /\ Answer(Verdict(AnalogInput0))
<1>1. CASE Current.name = "Sample"
  BY <1>1, Zenon DEF ReadAnalog
<1>2. CASE Current.name = "GetMovePar"
  BY <1>2, Zenon DEF ReadAnalog
<1>3. CASE Current.name # "Sample" /\ Current.name # "GetMovePar"
  BY <1>3, Zenon DEF ReadAnalog
<1> QED BY <1>1, <1>2, <1>3, Zenon

LEMMA TypeReadAnalog ==
  ASSUME TypeInv, NEW outcome \in Outcomes, ReadAnalog(outcome)
  PROVE  TypeInv'
<1>0. DriverTypeOK /\ Control /\ Readings
  BY DEF TypeInv
<1>1. faults' \in 0 .. MaxFaults /\ left # <<>> /\ Head(left) = "analog"
  BY <1>0, Faults DEF ReadAnalog, Readings
<1>2. Len(left) = 1
  BY <1>0, <1>1, InFunction, Heads
<1>3. [x |-> Current.arg, y |-> AnalogInput0] \in Pairs
  BY <1>0, <1>1, InFunction, TravelAssumption
     DEF Pairs, AnalogInput0, DriverTypeOK, Positions
<1>4. Control' /\ answer'.result \in -2 .. 5
  <2>1. CASE Current.name = "Sample"
    <3>1. answer' = answer
      BY <2>1, AnalogCases, Zenon
    <3>2. CASE outcome # "done" /\ GiveUp /\ samples' = <<>>
      <4>1. samples' \in Seq(Pairs)
        BY <3>2
      <4> QED BY <1>0, <1>1, <2>1, <3>1, <3>2, <4>1, GiveUpKeeps DEF Readings
    <3>3. CASE /\ outcome = "done" /\ Advance
               /\ samples' = Append(samples, [x |-> Current.arg, y |-> AnalogInput0])
      <4>1. samples' \in Seq(Pairs)
        BY <1>0, <1>3, <3>3 DEF Control
      <4>2. TodoIs(Tail(todo), samples')
        BY <1>0, <1>1, <1>3, <2>1, <3>3, InFunction, DropSample DEF Control, Current
      <4> QED BY <1>0, <1>1, <1>2, <3>1, <3>3, <4>1, <4>2, AdvanceKeeps DEF Readings
    <3> QED BY <2>1, <3>2, <3>3, AnalogCases, Zenon
  <2>2. CASE Current.name # "Sample"
    <3>1. Advance /\ samples' = samples /\ samples' \in Seq(Pairs)
      BY <1>0, <2>2, AnalogCases, Zenon DEF Control
    <3>2. Control'
      BY <1>0, <1>1, <3>1, AdvanceKeeps, NextFunctions
    <3>3. Verdict(AnalogInput0) \in {-1, 0}
      BY DEF Verdict
    <3>4. Answer(-2) \/ Answer(0) \/ Answer(Verdict(AnalogInput0))
      BY <2>2, AnalogCases, Zenon
    <3>5. answer'.result \in -2 .. 5
      BY <3>3, <3>4 DEF Answer
    <3> QED BY <3>2, <3>5
  <2> QED BY <2>1, <2>2
<1>5. DriverTypeOK'
  BY <1>0 DEF ReadAnalog, DriverTypeOK, driver, registers, motion, motor
<1> QED BY <1>0, <1>1, <1>4, <1>5 DEF TypeInv, ReadAnalog, Readings, history

LEMMA TowardKeeps ==
  ASSUME NEW p \in Counts, NEW t \in Counts, p # t
  PROVE  Toward(p, t) \in Counts
BY TravelAssumption DEF Toward, Counts

\* The blocks of the program
LEMMA TypeBlocks == DriverTypeOK /\ Blocks => DriverTypeOK'
<1> SUFFICES ASSUME DriverTypeOK, Blocks PROVE DriverTypeOK'
  OBVIOUS
<1> USE DEF DriverTypeOK, registers, motion, motor
<1>1. CASE Loop
  <2>1. /\ status_state' \in 0 .. 5 /\ state' \in {0, HOMING, MOVEREL}
        /\ request_state' \in {0, HOMING, MOVEREL}
    BY <1>1 DEF Loop
  <2> QED BY <1>1, <2>1 DEF Loop
<1>2. CASE initMov
  <2>1. CASE status_state = 1
    <3>1. count_TargetPos \in Counts
      BY DEF Positions, Counts
    <3>2. bEnable' = TRUE /\ advanced' = FALSE
      BY <1>2, <2>1, Zenon DEF initMov
    <3>3. /\ ControlMode' \in {0, 1} /\ RefVel' \in {0, 1} /\ TargetPos' \in Counts
          /\ status_state' \in 0 .. 5
      BY <1>2, <2>1, <3>1 DEF initMov
    <3>4. {bEnable', spinning', advanced', slipped'} \subseteq BOOLEAN
      BY <1>2, <3>2 DEF initMov
    <3>5. /\ block' = "rotation" /\ prev_analoginput0' = 0 /\ ismoving_flag' = 0
          /\ UNCHANGED <<request_state, state, home_done, count_TargetPos,
                         Position, opening>>
      BY <1>2, <2>1 DEF initMov
    <3> QED BY <3>3, <3>4, <3>5
  <2>2. CASE status_state # 1
    BY <1>2, <2>2 DEF initMov
  <2> QED BY <2>1, <2>2
<1>3. CASE checkRotation
  <2>1. AnalogInput0 \in Nat
    BY TravelAssumption DEF AnalogInput0, Positions
  <2>2. advanced' \in BOOLEAN
    BY <1>3 DEF checkRotation
  <2> QED BY <1>3, <2>1, <2>2 DEF checkRotation
<1>4. CASE stopMotor
  <2>1. (bEnable /\ spinning) \in BOOLEAN
    OBVIOUS
  <2>2. bEnable' \in BOOLEAN
    BY <1>4, <2>1 DEF stopMotor
  <2>3. /\ TargetPos' \in Counts /\ status_state' \in 0 .. 5
        /\ home_done' \in {30, 31} /\ RefVel' \in {0, 1}
    BY <1>4 DEF stopMotor
  <2> QED BY <1>4, <2>2, <2>3 DEF stopMotor
<1>5. CASE checkMoveDone
  <2>1. /\ Position' \in Counts /\ TargetPos' \in Counts
        /\ status_state' \in 0 .. 5 /\ state' \in {0, HOMING, MOVEREL}
    BY <1>5, TravelAssumption DEF checkMoveDone, Counts
  <2>2. (slipped /\ state # HOMING) \in BOOLEAN
    OBVIOUS
  <2>3. slipped' \in BOOLEAN
    BY <1>5, <2>2 DEF checkMoveDone
  <2> QED BY <1>5, <2>1, <2>3 DEF checkMoveDone
<1> QED BY <1>1, <1>2, <1>3, <1>4, <1>5 DEF Blocks

\* The motor
LEMMA TypeMotor == DriverTypeOK /\ (Rotate \/ Slip \/ Rest) => DriverTypeOK'
<1> SUFFICES ASSUME DriverTypeOK, Rotate \/ Slip \/ Rest PROVE DriverTypeOK'
  OBVIOUS
<1> USE DEF DriverTypeOK, registers, motion
<1>1. CASE Rotate
  <2>1. CASE ControlMode = 1
    <3>1. opening' \in Positions
      BY <1>1, <2>1, TravelAssumption DEF Rotate, Clamp, Positions
    <3>2. Position' \in Counts
      BY <1>1, <2>1, TravelAssumption DEF Rotate, Down, Counts
    <3> QED BY <1>1, <3>1, <3>2 DEF Rotate
  <2>2. CASE ControlMode # 1
    <3>1. Position' = Toward(Position, TargetPos)
          /\ opening' = Clamp(opening + Position' - Position)
      BY <1>1, <2>2 DEF Rotate
    <3>2. Position # TargetPos
      BY <1>1, <2>2 DEF Rotate, Commanded
    <3>3. Position' \in Counts
      BY <3>1, <3>2, TowardKeeps
    <3>4. opening' \in Positions
      BY <3>1, <3>3, TravelAssumption DEF Clamp, Positions, Counts
    <3> QED BY <1>1, <3>3, <3>4 DEF Rotate
  <2> QED BY <2>1, <2>2
<1>2. CASE Slip
  <2>1. Position # TargetPos
    BY <1>2 DEF Slip, Commanded
  <2>2. Position' \in Counts
    BY <1>2, <2>1, TowardKeeps DEF Slip
  <2> QED BY <1>2, <2>2 DEF Slip
<1>3. CASE Rest
  BY <1>3 DEF Rest
<1> QED BY <1>1, <1>2, <1>3

LEMMA TypeDriver == TypeInv /\ DriverStep => TypeInv'
<1> SUFFICES ASSUME TypeInv, DriverStep PROVE TypeInv'
  OBVIOUS
<1>1. DriverTypeOK'
  BY TypeBlocks, TypeMotor DEF TypeInv, DriverStep, Driver
<1>2. Control' /\ Readings'
  BY DEF TypeInv, DriverStep, server, history, Control, Readings, Current
<1> QED BY <1>1, <1>2 DEF TypeInv

LEMMA TypeNext == TypeInv /\ [Next]_vars => TypeInv'
<1> SUFFICES ASSUME TypeInv, [Next]_vars PROVE TypeInv'
  OBVIOUS
<1>1. CASE StartCommand
  BY <1>1, TypeStart
<1>2. CASE Access
  <2>1. PICK outcome \in Outcomes :
          \/ ReadStatus(outcome) \/ ClearStatus(outcome) \/ WriteTarget(outcome)
          \/ WriteRequest(outcome) \/ ReadPosition(outcome) \/ ReadAnalog(outcome)
    BY <1>2 DEF Access
  <2> QED BY <2>1, TypeReadStatus, TypeClear, TypeTarget, TypeRequest,
             TypeReadPosition, TypeReadAnalog
<1>3. CASE DriverStep
  BY <1>3, TypeDriver
<1>4. CASE UNCHANGED vars
  BY <1>4 DEF vars, driver, registers, motion, motor, server, history, TypeInv,
              DriverTypeOK, Control, Readings, Current
<1> QED BY <1>1, <1>2, <1>3, <1>4 DEF Next

\* Every state has the types of TypeOK: the counter of the driver and its
\* target stay in the travel, an answer is a status or -2, and Encode pushes
\* no more pairs than there are positions (Homing, MoveTo, GetMovePar, Encode
\* and CheckPositionEncoderSingle, with the program of the driver).
THEOREM MotionTypes == Spec => []TypeOK
<1>1. TypeInv => TypeOK
  <2> SUFFICES ASSUME TypeInv PROVE TypeOK
    OBVIOUS
  <2>1. DriverTypeOK /\ Control /\ Readings
    BY DEF TypeInv
  <2>2. todo = <<>> <=> left = <<>>
    <3>1. ASSUME todo # <<>> PROVE left # <<>>
      BY <2>1, <3>1, FirstCall, Heads DEF Control, Current
    <3> QED BY <2>1, <3>1 DEF Control
  <2>3. \A i \in 1 .. Len(todo) : todo[i].name \in DOMAIN Accesses
    <3>1. \A i \in 1 .. Len(todo) : todo[i] \in Calls
      BY <2>1 DEF Control
    <3> QED BY <3>1, AccessNames DEF Calls
  <2>4. Len(left) <= 4
    <3>1. CASE todo = <<>>
      BY <2>1, <3>1 DEF Control
    <3>2. CASE todo # <<>>
      <4>1. Current.name \in Names /\ LeftIs(Current.name, left)
        BY <2>1, <3>2, FirstCall DEF Control, Current
      <4>2. \/ Len(left) = 1 \/ left = Homing \/ left = <<"clear", "request">>
            \/ left = MoveTo \/ left = <<"clear", "target", "request">>
            \/ left = <<"target", "request">>
            \/ left = GetMovePar \/ left = <<"position", "analog">>
            \/ left = CheckPositionEncoder \/ left = Sample
        BY <4>1 DEF Names, LeftIs, Ready
      <4>3. /\ Len(Homing) = 3 /\ Len(MoveTo) = 4 /\ Len(GetMovePar) = 3
            /\ Len(CheckPositionEncoder) = 3 /\ Len(Sample) = 2
        BY DEF Homing, MoveTo, GetMovePar, CheckPositionEncoder, Sample
      <4>4. /\ Len(<<"clear", "request">>) = 2
            /\ Len(<<"clear", "target", "request">>) = 3
            /\ Len(<<"target", "request">>) = 2 /\ Len(<<"position", "analog">>) = 2
        OBVIOUS
      <4> QED BY <4>2, <4>3, <4>4
    <3> QED BY <3>1, <3>2
  <2>5. Len(samples) <= MaxPosition + 1
    BY <2>1, EnoughPairs DEF Control
  <2> QED BY <2>1, <2>2, <2>3, <2>4, <2>5 DEF TypeOK, Control, Readings
<1> QED BY <1>1, TypeInit, TypeNext, PTL DEF Spec

------------------------------------------------------------------------------
(* The driver that the server leaves to its program.                       *)

Phase ==
  \/ status_state \in {0, 5} /\ state = 0 /\ block = "loop"
  \/ status_state = 1 /\ state # 0 /\ block = "init"
  \/ status_state = 2 /\ state # 0
  \/ status_state = 3 /\ state # 0 /\ block = "done"

Powered ==
  IF status_state = 2 THEN bEnable /\ (ControlMode = 1 <=> state = HOMING)
  ELSE ~bEnable /\ ~spinning

RequestWaits == request_state # 0 => status_state = 0

\* Nothing is in execution and nothing requested.
Quiet == state = 0 /\ request_state = 0

\* Past the wait at the head of a function
AfterWait ==
  left # <<>> /\ Head(left) # "wait" =>
    /\ ~misread => Quiet
    /\ Head(left) \in {"target", "request"} => Quiet /\ status_state = 0

InStep == Phase /\ Powered /\ RequestWaits /\ AfterWait

\* Homing
Closing ==
  state = HOMING =>
    /\ status_state = 2 =>
         /\ RefVel = 0 => opening = 0
         /\ block = "stop" /\ ismoving_flag = 0 => opening = 0
         /\ prev_analoginput0 # 0 =>
              /\ AnalogInput0 <= prev_analoginput0
              /\ advanced => AnalogInput0 < prev_analoginput0 \/ opening = 0
    /\ status_state = 3 => opening = 0

\* A movement of a homed slit.
Between(p, a, b) == (a <= p /\ p <= b) \/ (b <= p /\ p <= a)

Moving ==
  state = MOVEREL /\ home_done = 31 /\ ~slipped =>
    /\ status_state = 2 =>
         /\ TargetPos = count_TargetPos
         /\ block = "stop" /\ ismoving_flag = 0 => Position = TargetPos
         /\ prev_analoginput0 # 0 =>
              /\ Between(AnalogInput0, prev_analoginput0, TargetPos + EncoderOffset)
              /\ advanced => AnalogInput0 # prev_analoginput0
         /\ advanced /\ Position < TargetPos => Position >= 1
    /\ status_state = 3 => Position = count_TargetPos

Calibrated ==
  home_done = 31 /\ state # HOMING /\ ~slipped => Position = opening

\* What CheckPositionEncoder and GetMovePar compare with.
SeenIsPosition ==
  /\ left # <<>> /\ Current.name \in {"GetMovePar", "CheckPositionEncoder"}
  /\ Head(left) = "analog" /\ ~misread
  => seen \in {Position, NoReading}

MoveInv == ~astray => Closing /\ Moving /\ Calibrated /\ SeenIsPosition

SyncInv == ~astray => InStep

------------------------------------------------------------------------------
(* The pairs of Encode.                                                    *)

OnTheLine ==
  home_done = 31 /\ ~slipped =>
    \A i \in 1 .. Len(samples) : samples[i].y = Estimate(samples[i].x)

\* The movement Encode asked for last
Asked(x) ==
  /\ count_TargetPos = x
  /\ \/ request_state = MOVEREL
     \/ state = MOVEREL
     \/ Quiet /\ status_state = 5 /\ (home_done = 31 /\ ~slipped => opening = x)

\* MoveTo is called by Encode
Encoding ==
  /\ todo # <<>> /\ Current.name = "MoveTo"
  /\ Tail(todo) # <<>> /\ Head(Tail(todo)).name = "Sample"

PairInv ==
  faults = 0 =>
    /\ ~misread /\ ~astray
    /\ OnTheLine
    /\ samples # <<>> => request_state # HOMING /\ state # HOMING
    /\ Encoding => Quiet /\ (Head(left) = "wait" => count = 0)
    /\ todo # <<>> /\ Current.name = "MoveTo" /\ Head(left) = "request" =>
         count_TargetPos = Current.arg
    /\ todo # <<>> /\ Current.name = "Sample"
         /\ (LIMITSTATUS_STATE # 0 \/ Head(left) # "wait") => Asked(Current.arg)
------------------------------------------------------------------------------
(* The server and the driver stay in step.                                 *)

\* AND with home_done, 30 or 31, hides no request: both states have a bit
\* above the lowest.
LEMMA AcceptsIs ==
  ASSUME DriverTypeOK
  PROVE  Accepts <=> status_state = 0 /\ request_state # 0
<1>1. \A h \in {30, 31} : And(0, h) = 0 /\ And(4, h) # 0 /\ And(17, h) # 0
  BY DEF And, Bit
<1>2. req_log_state # 0 <=> request_state # 0
  BY <1>1 DEF req_log_state, DriverTypeOK, HOMING, MOVEREL
<1> QED BY <1>2 DEF Accepts

DriverInStep == Phase /\ Powered /\ RequestWaits

LEMMA StepLoop ==
  ASSUME DriverTypeOK, DriverInStep, Loop
  PROVE  DriverInStep' /\ (Quiet => UNCHANGED <<status_state, state, request_state>>)
<1>1. HOMING # 0 /\ MOVEREL # 0 /\ state \in {0, HOMING, MOVEREL}
  BY DEF HOMING, MOVEREL, DriverTypeOK
<1>2. UNCHANGED <<ControlMode, bEnable, spinning>>
  BY DEF Loop, motion, motor
<1>3. CASE Accepts
  <2>1. status_state = 0 /\ request_state \in {HOMING, MOVEREL}
    BY <1>3, AcceptsIs DEF DriverTypeOK
  <2>2. status_state' = 1 /\ state' = request_state /\ request_state' = 0
        /\ block' = "init"
    BY <1>3, <2>1 DEF Loop
  <2>3. ~bEnable /\ ~spinning
    BY <2>1 DEF DriverInStep, Powered
  <2>4. Phase'
    BY <1>1, <2>1, <2>2 DEF Phase
  <2>5. Powered' /\ RequestWaits'
    BY <1>2, <2>2, <2>3 DEF Powered, RequestWaits
  <2> QED BY <1>1, <2>1, <2>4, <2>5 DEF DriverInStep, Quiet
<1>4. CASE ~Accepts
  <2>1. UNCHANGED <<status_state, state, request_state>>
    BY <1>4 DEF Loop
  <2>2. block = "loop" /\ block' = IF state \in {HOMING, MOVEREL} THEN "init" ELSE "loop"
    BY <2>1 DEF Loop
  <2>3. Phase'
    BY <1>1, <2>1, <2>2 DEF DriverInStep, Phase
  <2> QED BY <1>2, <2>1, <2>3 DEF DriverInStep, Powered, RequestWaits
<1> QED BY <1>3, <1>4

LEMMA StepInit ==
  ASSUME DriverTypeOK, DriverInStep, initMov
  PROVE  DriverInStep' /\ ~Quiet
<1>1. block = "init" /\ state # 0 /\ status_state \in {1, 2}
  BY DEF DriverInStep, Phase, initMov
<1>2. UNCHANGED <<state, request_state, spinning>>
  BY DEF initMov
<1>3. request_state = 0
  BY <1>1 DEF DriverInStep, RequestWaits
<1>4. status_state' = 2
  BY <1>1 DEF initMov
<1>5. bEnable' /\ (ControlMode' = 1 <=> state' = HOMING)
  <2>1. CASE status_state = 1
    BY <1>2, <2>1 DEF initMov
  <2>2. CASE status_state = 2
    BY <1>2, <2>2 DEF initMov, motion, DriverInStep, Powered
  <2> QED BY <1>1, <2>1, <2>2
<1> QED BY <1>1, <1>2, <1>3, <1>4, <1>5
        DEF DriverInStep, Phase, Powered, RequestWaits, Quiet

LEMMA StepRotation ==
  ASSUME DriverTypeOK, DriverInStep, checkRotation
  PROVE  DriverInStep' /\ ~Quiet
<1>1. status_state = 2 /\ state # 0
  BY DEF DriverInStep, Phase, checkRotation
<1>2. UNCHANGED <<status_state, state, request_state, spinning, bEnable, ControlMode>>
  BY DEF checkRotation, registers
<1> QED BY <1>1, <1>2 DEF DriverInStep, Phase, Powered, RequestWaits, Quiet

LEMMA StepStop ==
  ASSUME DriverTypeOK, DriverInStep, stopMotor
  PROVE  DriverInStep' /\ ~Quiet
<1>1. status_state = 2 /\ state # 0 /\ block' = "done"
  BY DEF DriverInStep, Phase, stopMotor
<1>2. UNCHANGED <<state, request_state, spinning, ControlMode>>
  BY DEF stopMotor, motor
<1>3. bEnable /\ (ControlMode = 1 <=> state = HOMING) /\ request_state = 0
  BY <1>1 DEF DriverInStep, Powered, RequestWaits
<1>4. CASE ismoving_flag = 0 /\ ~spinning
  <2>1. status_state' = 3 /\ ~bEnable'
    BY <1>4 DEF stopMotor
  <2> QED BY <1>1, <1>2, <1>3, <1>4, <2>1
          DEF DriverInStep, Phase, Powered, RequestWaits, Quiet
<1>5. CASE ~(ismoving_flag = 0 /\ ~spinning)
  <2>1. status_state' = 2 /\ bEnable'
    BY <1>1, <1>3, <1>5 DEF stopMotor
  <2> QED BY <1>1, <1>2, <1>3, <2>1
          DEF DriverInStep, Phase, Powered, RequestWaits, Quiet
<1> QED BY <1>4, <1>5

LEMMA StepDone ==
  ASSUME DriverTypeOK, DriverInStep, checkMoveDone
  PROVE  DriverInStep' /\ ~Quiet
<1>1. status_state \in {2, 3} /\ state # 0 /\ request_state = 0 /\ block' = "loop"
  BY DEF DriverInStep, Phase, RequestWaits, checkMoveDone
<1>2. UNCHANGED <<request_state, spinning, bEnable, ControlMode>>
  BY DEF checkMoveDone
<1>3. CASE status_state = 3
  <2>1. status_state' = 5 /\ state' = 0
    BY <1>3 DEF checkMoveDone
  <2> QED BY <1>1, <1>2, <1>3, <2>1
          DEF DriverInStep, Phase, Powered, RequestWaits, Quiet
<1>4. CASE status_state = 2
  <2>1. status_state' = 2 /\ state' = state
    BY <1>4 DEF checkMoveDone
  <2> QED BY <1>1, <1>2, <1>4, <2>1
          DEF DriverInStep, Phase, Powered, RequestWaits, Quiet
<1> QED BY <1>1, <1>3, <1>4

LEMMA StepMotor ==
  ASSUME DriverTypeOK, DriverInStep, Rotate \/ Slip \/ Rest
  PROVE  DriverInStep' /\ UNCHANGED <<status_state, state, request_state>>
<1>1. UNCHANGED <<block, status_state, state, request_state, bEnable, ControlMode>>
  BY DEF Rotate, Slip, Rest, registers, motion
<1>2. CASE Rest
  BY <1>1, <1>2 DEF Rest, DriverInStep, Phase, Powered, RequestWaits
<1>3. CASE Rotate \/ Slip
  <2>1. status_state = 2
    BY <1>3 DEF Rotate, Slip, Commanded, DriverInStep, Powered
  <2> QED BY <1>1, <2>1 DEF DriverInStep, Phase, Powered, RequestWaits
<1> QED BY <1>2, <1>3

\* A driver with nothing to do stays as it is, whatever it executes.
LEMMA StepDriver ==
  ASSUME DriverTypeOK, DriverInStep, Driver
  PROVE  DriverInStep' /\ (Quiet => UNCHANGED <<status_state, state, request_state>>)
<1>1. CASE Loop
  BY <1>1, StepLoop
<1>2. CASE initMov
  BY <1>2, StepInit
<1>3. CASE checkRotation
  BY <1>3, StepRotation
<1>4. CASE stopMotor
  BY <1>4, StepStop
<1>5. CASE checkMoveDone
  BY <1>5, StepDone
<1>6. CASE Rotate \/ Slip \/ Rest
  BY <1>6, StepMotor
<1> QED BY <1>1, <1>2, <1>3, <1>4, <1>5, <1>6 DEF Driver, Blocks

\* After a step of the command thread the next access is the wait of another
\* function, unless the thread goes on in the one it executes.
LEMMA WhatFollows ==
  ASSUME Control, left # <<>>, Advance \/ GiveUp
  PROVE  \/ left' = <<>> \/ Head(left') = "wait"
         \/ /\ Advance /\ Len(left) # 1
            /\ left' = Tail(left) /\ todo' = todo
<1>0. <<>> \in Seq(Calls)
  OBVIOUS
<1>1. CASE GiveUp
  BY <1>0, <1>1, InFunction, Begins DEF GiveUp
<1>2. CASE Advance /\ Len(left) = 1
  BY <1>2, InFunction, Begins DEF Advance
<1>3. CASE Advance /\ Len(left) # 1
  BY <1>3 DEF Advance
<1> QED BY <1>1, <1>2, <1>3

LEMMA SyncInit == Init => SyncInv
BY DEF Init, FirmwareInit, SyncInv, InStep, Phase, Powered, RequestWaits, AfterWait

\* With nothing read wrong, a status that lets go on is that of a driver with
\* nothing to do: no request waits, for SLEEPMODBUS outlasts the main loop.
LEMMA LetGoOn ==
  ASSUME PromptFirmware, DriverTypeOK, DriverInStep, ~Accepts, LetsGoOn(status_state)
  PROVE  Quiet
BY AcceptsIs DEF LetsGoOn, DriverInStep, Phase, RequestWaits, Quiet

LEMMA SyncReadStatus ==
  ASSUME PromptFirmware, TypeInv, SyncInv, NEW outcome \in Outcomes,
         ReadStatus(outcome)
  PROVE  SyncInv'
<1>0. DriverTypeOK /\ Control
  BY DEF TypeInv
<1>1. /\ UNCHANGED <<block, status_state, state, request_state, bEnable, spinning,
                     ControlMode, astray>>
      /\ left # <<>> /\ Head(left) = "wait" /\ ~Accepts
  BY DEF ReadStatus, Transaction, driver, registers, motion, motor
<1>2. SUFFICES ASSUME ~astray PROVE InStep'
  BY <1>1 DEF SyncInv
<1>3. DriverInStep
  BY <1>2 DEF SyncInv, InStep, DriverInStep
<1>4. DriverInStep' /\ (Quiet <=> Quiet')
  BY <1>1, <1>3 DEF DriverInStep, Phase, Powered, RequestWaits, Quiet
<1>5. AfterWait'
  <2> DEFINE status == StatusRead(outcome)
  <2>1. CASE ~LetsGoOn(status) /\ ~GivenUp
    <3>1. left' = left
      BY <2>1 DEF ReadStatus
    <3> QED BY <1>1, <3>1 DEF AfterWait
  <2>2. CASE GivenUp
    <3>1. GiveUp
      BY <2>2, Zenon DEF ReadStatus
    <3>2. left' = <<>> \/ Head(left') = "wait"
      <4>1. <<>> \in Seq(Calls)
        OBVIOUS
      <4> QED BY <1>0, <1>1, <3>1, <4>1, InFunction, Begins DEF GiveUp
    <3> QED BY <3>2 DEF AfterWait
  <2>3. CASE LetsGoOn(status) /\ ~GivenUp
    <3>1. Advance /\ misread' = (outcome # "done")
      BY <2>3, Zenon DEF ReadStatus
    <3>2. \/ left' = <<>> \/ Head(left') = "wait"
          \/ left' = Tail(left) /\ Len(left) # 1
      BY <1>0, <1>1, <3>1, WhatFollows
    <3>3. CASE left' = <<>> \/ Head(left') = "wait"
      BY <3>3 DEF AfterWait
    <3>4. CASE left' = Tail(left) /\ Len(left) # 1
      <4>1. Head(left') \in {"clear", "position", "analog"}
        BY <1>0, <1>1, <3>4, InFunction, GoesOn
      <4>2. ~misread' => Quiet
        BY <1>0, <1>1, <1>3, <2>3, <3>1, LetGoOn DEF StatusRead
      <4> QED BY <1>4, <4>1, <4>2 DEF AfterWait
    <3> QED BY <3>2, <3>3, <3>4
  <2> QED BY <2>1, <2>2, <2>3
<1> QED BY <1>4, <1>5 DEF InStep, DriverInStep

\* The server clears the status of a driver with nothing to do, or the run is
\* astray from then on.
LEMMA ClearsQuiet ==
  ASSUME PromptFirmware, TypeInv, SyncInv, NEW outcome \in Outcomes,
         ClearStatus(outcome), ~astray, outcome = "lostRequest" \/ ~astray'
  PROVE  DriverInStep /\ (outcome # "lostRequest" => Quiet /\ status_state \in {0, 5})
<1>1. /\ DriverTypeOK /\ DriverInStep /\ AfterWait
      /\ left # <<>> /\ Head(left) = "clear" /\ ~Accepts
  BY DEF TypeInv, SyncInv, InStep, DriverInStep, ClearStatus, Transaction
<1>2. CASE outcome # "lostRequest" /\ misread
  <2>1. ~(status_state \in 1 .. 3)
    BY <1>2 DEF ClearStatus
  <2>2. status_state \in {0, 5} /\ state = 0
    BY <1>1, <2>1 DEF DriverInStep, Phase
  <2> QED BY <1>1, <2>2, AcceptsIs DEF DriverInStep, RequestWaits, Quiet
<1>3. CASE outcome # "lostRequest" /\ ~misread
  <2>1. Quiet
    BY <1>1, <1>3 DEF AfterWait
  <2> QED BY <1>1, <2>1 DEF Quiet, DriverInStep, Phase
<1> QED BY <1>1, <1>2, <1>3

LEMMA SyncClear ==
  ASSUME PromptFirmware, TypeInv, SyncInv, NEW outcome \in Outcomes,
         ClearStatus(outcome)
  PROVE  SyncInv'
<1>0. DriverTypeOK /\ Control
  BY DEF TypeInv
<1>1. /\ UNCHANGED <<block, state, request_state, bEnable, spinning, ControlMode>>
      /\ left # <<>> /\ Head(left) = "clear"
      /\ ~astray' => ~astray
      /\ misread' = misread
      /\ IF outcome = "done" THEN Advance ELSE GiveUp
  BY DEF ClearStatus, Write, Transaction, motion, motor
<1>2. SUFFICES ASSUME ~astray' PROVE InStep'
  BY DEF SyncInv
<1>3. DriverInStep /\ (outcome # "lostRequest" => Quiet /\ status_state \in {0, 5})
  BY <1>1, <1>2, ClearsQuiet
<1>4. CASE outcome = "lostRequest"
  <2>1. status_state' = status_state /\ GiveUp
    BY <1>1, <1>4 DEF ClearStatus
  <2>2. left' = <<>> \/ Head(left') = "wait"
    <3>1. <<>> \in Seq(Calls)
      OBVIOUS
    <3> QED BY <1>0, <1>1, <2>1, <3>1, InFunction, Begins DEF GiveUp
  <2>3. AfterWait'
    BY <2>2 DEF AfterWait
  <2> QED BY <1>1, <1>3, <2>1, <2>3
          DEF InStep, DriverInStep, Phase, Powered, RequestWaits
<1>5. CASE outcome # "lostRequest"
  <2>1. status_state' = 0 /\ Quiet /\ Quiet'
    BY <1>1, <1>3, <1>5 DEF ClearStatus, Quiet
  <2>2. DriverInStep'
    BY <1>1, <1>3, <1>5, <2>1
       DEF DriverInStep, Phase, Powered, RequestWaits, Quiet
  <2>3. AfterWait'
    BY <2>1 DEF AfterWait
  <2> QED BY <2>2, <2>3 DEF InStep, DriverInStep
<1> QED BY <1>4, <1>5

LEMMA SyncTarget ==
  ASSUME PromptFirmware, TypeInv, SyncInv, NEW outcome \in Outcomes,
         WriteTarget(outcome)
  PROVE  SyncInv'
<1>0. DriverTypeOK /\ Control
  BY DEF TypeInv
<1>1. /\ UNCHANGED <<block, status_state, state, request_state, bEnable, spinning,
                     ControlMode, astray>>
      /\ left # <<>> /\ Head(left) = "target"
  BY DEF WriteTarget, Transaction, motion, motor
<1>2. SUFFICES ASSUME ~astray PROVE InStep'
  BY <1>1 DEF SyncInv
<1>3. DriverInStep /\ Quiet /\ status_state = 0
  BY <1>1, <1>2 DEF SyncInv, InStep, DriverInStep, AfterWait
<1> QED BY <1>1, <1>3 DEF InStep, DriverInStep, Phase, Powered, RequestWaits, Quiet,
                          AfterWait

LEMMA SyncRequest ==
  ASSUME PromptFirmware, TypeInv, SyncInv, NEW outcome \in Outcomes,
         WriteRequest(outcome)
  PROVE  SyncInv'
<1>0. DriverTypeOK /\ Control
  BY DEF TypeInv
<1>1. /\ UNCHANGED <<block, status_state, state, bEnable, spinning, ControlMode,
                     astray>>
      /\ left # <<>> /\ Head(left) = "request"
      /\ Advance \/ GiveUp
  BY DEF WriteRequest, Write, Transaction, motion, motor
<1>2. SUFFICES ASSUME ~astray PROVE InStep'
  BY <1>1 DEF SyncInv
<1>3. DriverInStep /\ Quiet /\ status_state = 0
  BY <1>1, <1>2 DEF SyncInv, InStep, DriverInStep, AfterWait
<1>4. Len(left) = 1
  BY <1>0, <1>1, InFunction, Heads
<1>5. left' = <<>> \/ Head(left') = "wait"
  BY <1>0, <1>1, <1>4, WhatFollows
<1>6. AfterWait'
  BY <1>5 DEF AfterWait
<1> QED BY <1>1, <1>3, <1>6 DEF InStep, DriverInStep, Phase, Powered, RequestWaits

LEMMA SyncReads ==
  ASSUME TypeInv, SyncInv, NEW outcome \in Outcomes,
         ReadPosition(outcome) \/ ReadAnalog(outcome)
  PROVE  SyncInv'
<1>0. DriverTypeOK /\ Control
  BY DEF TypeInv
<1>1. /\ UNCHANGED <<block, status_state, state, request_state, bEnable, spinning,
                     ControlMode, astray, misread>>
      /\ left # <<>> /\ Head(left) \in {"position", "analog"}
  BY DEF ReadPosition, ReadAnalog, Transaction, driver, registers, motion, motor,
         history
<1>2. Advance \/ GiveUp
  BY AnalogCases, Zenon DEF ReadPosition
<1>3. SUFFICES ASSUME ~astray PROVE InStep'
  BY <1>1 DEF SyncInv
<1>4. DriverInStep /\ (~misread => Quiet)
  BY <1>1, <1>3 DEF SyncInv, InStep, DriverInStep, AfterWait
<1>5. DriverInStep' /\ (Quiet <=> Quiet')
  BY <1>1, <1>4 DEF DriverInStep, Phase, Powered, RequestWaits, Quiet
<1>6. left' = <<>> \/ Head(left') \in {"wait", "analog"}
  <2>1. \/ left' = <<>> \/ Head(left') = "wait"
        \/ left' = Tail(left) /\ Len(left) # 1
    BY <1>0, <1>1, <1>2, WhatFollows
  <2>2. ASSUME left' = Tail(left), Len(left) # 1 PROVE Head(left') = "analog"
    BY <1>0, <1>1, <2>2, InFunction, Heads, GoesOn
  <2> QED BY <2>1, <2>2
<1>7. AfterWait'
  BY <1>1, <1>4, <1>5, <1>6 DEF AfterWait
<1> QED BY <1>5, <1>7 DEF InStep, DriverInStep

LEMMA SyncNext ==
  ASSUME PromptFirmware
  PROVE  TypeInv /\ SyncInv /\ [Next]_vars => SyncInv'
<1> SUFFICES ASSUME TypeInv, SyncInv, [Next]_vars PROVE SyncInv'
  OBVIOUS
<1>1. CASE StartCommand
  <2>1. /\ UNCHANGED <<block, status_state, state, request_state, bEnable, spinning,
                       ControlMode, astray>>
    BY <1>1 DEF StartCommand, driver, registers, motion, motor
  <2>2. left' = <<>> \/ Head(left') = "wait"
    BY <1>1, CommandsAreTodos, Begins DEF StartCommand
  <2>3. AfterWait'
    BY <2>2 DEF AfterWait
  <2> QED BY <2>1, <2>3 DEF SyncInv, InStep, Phase, Powered, RequestWaits
<1>2. CASE Access
  BY <1>2, SyncReadStatus, SyncClear, SyncTarget, SyncRequest, SyncReads DEF Access
<1>3. CASE DriverStep
  <2>1. Driver /\ UNCHANGED <<left, misread, astray>> /\ DriverTypeOK
    BY <1>3 DEF DriverStep, server, history, TypeInv
  <2>2. SUFFICES ASSUME ~astray PROVE InStep'
    BY <2>1 DEF SyncInv
  <2>3. DriverInStep /\ AfterWait
    BY <2>2 DEF SyncInv, InStep, DriverInStep
  <2>4. DriverInStep' /\ (Quiet => UNCHANGED <<status_state, state, request_state>>)
    BY <2>1, <2>3, StepDriver
  <2>5. AfterWait'
    BY <2>1, <2>3, <2>4 DEF AfterWait, Quiet
  <2> QED BY <2>4, <2>5 DEF InStep, DriverInStep
<1>4. CASE UNCHANGED vars
  BY <1>4 DEF vars, driver, registers, motion, motor, server, history, SyncInv,
              InStep, Phase, Powered, RequestWaits, AfterWait, Quiet
<1> QED BY <1>1, <1>2, <1>3, <1>4 DEF Next

------------------------------------------------------------------------------
(* The slit is where the counter and the encoder say.                      *)

CoreInStep == DriverTypeOK /\ DriverInStep

Travels == Closing /\ Moving /\ Calibrated

LEMMA TravelInit == Init => Closing /\ Moving /\ Calibrated /\ SeenIsPosition
BY DEF Init, FirmwareInit, Closing, Moving, Calibrated, SeenIsPosition, HOMING, MOVEREL

LEMMA TravelLoop ==
  ASSUME CoreInStep, Travels, Loop
  PROVE  Travels'
<1>1. /\ UNCHANGED <<home_done, count_TargetPos, RefVel, TargetPos, Position, opening,
                     ismoving_flag, prev_analoginput0, advanced, slipped>>
      /\ block' # "stop"
  BY DEF Loop, motion, motor
<1>2. CASE Accepts
  <2>1. status_state' = 1 /\ status_state = 0
    BY <1>2 DEF Loop, Accepts
  <2>2. state = 0
    BY <2>1 DEF CoreInStep, DriverInStep, Phase
  <2>3. Position = opening \/ home_done # 31 \/ slipped
    BY <2>2 DEF Travels, Calibrated, HOMING
  <2> QED BY <1>1, <2>1, <2>3 DEF Travels, Closing, Moving, Calibrated
<1>3. CASE ~Accepts
  <2>1. UNCHANGED <<status_state, state>>
    BY <1>3 DEF Loop
  <2>2. Closing'
    BY <1>1, <2>1 DEF Travels, Closing, AnalogInput0
  <2>3. Moving'
    BY <1>1, <2>1 DEF Travels, Moving, AnalogInput0, Between
  <2>4. Calibrated'
    BY <1>1, <2>1 DEF Travels, Calibrated
  <2> QED BY <2>2, <2>3, <2>4 DEF Travels
<1> QED BY <1>2, <1>3

LEMMA TravelInitMov ==
  ASSUME CoreInStep, Travels, initMov
  PROVE  Travels'
<1>1. /\ UNCHANGED <<state, home_done, count_TargetPos, Position, opening, slipped>>
      /\ block' = "rotation" /\ status_state \in {1, 2}
  BY DEF initMov, CoreInStep, DriverInStep, Phase
<1>2. Calibrated'
  BY <1>1 DEF Travels, Calibrated
<1>3. CASE status_state = 1
  <2>1. /\ prev_analoginput0' = 0 /\ advanced' = FALSE /\ status_state' = 2
        /\ state = HOMING => RefVel' = 1
        /\ state = MOVEREL => TargetPos' = count_TargetPos
    BY <1>3 DEF initMov
  <2>2. Closing'
    BY <1>1, <2>1 DEF Closing
  <2>3. Moving'
    BY <1>1, <2>1 DEF Moving
  <2> QED BY <1>2, <2>2, <2>3 DEF Travels
<1>4. CASE status_state = 2
  <2>1. UNCHANGED <<status_state, RefVel, TargetPos, ismoving_flag,
                    prev_analoginput0, advanced>>
    BY <1>4 DEF initMov, motion
  <2>2. Closing'
    BY <1>1, <2>1 DEF Travels, Closing, AnalogInput0
  <2>3. Moving'
    BY <1>1, <2>1 DEF Travels, Moving, AnalogInput0, Between
  <2> QED BY <1>2, <2>2, <2>3 DEF Travels
<1> QED BY <1>1, <1>3, <1>4

LEMMA TravelRotation ==
  ASSUME CoreInStep, Travels, checkRotation
  PROVE  Travels'
<1>1. /\ UNCHANGED <<state, status_state, home_done, count_TargetPos, RefVel, TargetPos,
                     Position, opening, slipped>>
      /\ block = "rotation" /\ status_state = 2
  BY DEF checkRotation, registers, CoreInStep, DriverInStep, Phase
<1>2. /\ advanced \/ ~Commanded
      /\ ismoving_flag' = IF AnalogInput0 # prev_analoginput0 THEN 1 ELSE 0
      /\ prev_analoginput0' = AnalogInput0 /\ AnalogInput0' = AnalogInput0
      /\ advanced' = FALSE
  BY <1>1 DEF checkRotation, AnalogInput0
<1>3. Calibrated'
  BY <1>1 DEF Travels, Calibrated
<1>4. bEnable /\ (ControlMode = 1 <=> state = HOMING)
  BY <1>1 DEF CoreInStep, DriverInStep, Powered
<1>5. opening \in Nat /\ EncoderOffset \in Nat /\ Position \in Int /\ TargetPos \in Int
  BY TravelAssumption DEF CoreInStep, DriverTypeOK, Positions, Counts
<1>6. Closing'
  <2> SUFFICES ASSUME state = HOMING PROVE Closing'
    BY <1>1 DEF Closing
  <2>1. ~Commanded => opening = 0
    BY <1>1, <1>4 DEF Commanded, Travels, Closing
  <2>2. ismoving_flag' = 0 => opening = 0
    <3> SUFFICES ASSUME ismoving_flag' = 0, advanced PROVE opening = 0
      BY <1>2, <2>1
    <3>1. AnalogInput0 = prev_analoginput0
      BY <1>2
    <3>2. CASE prev_analoginput0 = 0
      BY <1>5, <3>1, <3>2 DEF AnalogInput0
    <3>3. CASE prev_analoginput0 # 0
      <4>1. AnalogInput0 < prev_analoginput0 \/ opening = 0
        BY <1>1, <3>3 DEF Travels, Closing
      <4> QED BY <1>5, <3>1, <4>1 DEF AnalogInput0
    <3> QED BY <3>2, <3>3
  <2>3. AnalogInput0' <= prev_analoginput0'
    BY <1>2, <1>5 DEF AnalogInput0
  <2>4. RefVel' = 0 => opening' = 0
    BY <1>1 DEF Travels, Closing
  <2> QED BY <1>1, <1>2, <2>2, <2>3, <2>4 DEF Closing
<1>7. Moving'
  <2> SUFFICES ASSUME state = MOVEREL, home_done = 31, ~slipped PROVE Moving'
    BY <1>1 DEF Moving
  <2>1. Position = opening /\ TargetPos = count_TargetPos
    BY <1>1 DEF Travels, Calibrated, Moving, HOMING, MOVEREL
  <2>2. ~Commanded => Position = TargetPos
    BY <1>4 DEF Commanded, HOMING, MOVEREL
  <2>3. ismoving_flag' = 0 => Position = TargetPos
    <3> SUFFICES ASSUME ismoving_flag' = 0, advanced PROVE Position = TargetPos
      BY <1>2, <2>2
    <3>1. AnalogInput0 = prev_analoginput0
      BY <1>2
    <3>2. prev_analoginput0 = 0
      BY <1>1, <3>1 DEF Travels, Moving
    <3>3. Position = 0
      BY <1>5, <2>1, <3>1, <3>2 DEF AnalogInput0
    <3>4. ~(Position < TargetPos)
      BY <1>1, <3>3 DEF Travels, Moving
    <3>5. TargetPos \in Nat
      BY <2>1 DEF CoreInStep, DriverTypeOK, Positions
    <3> QED BY <3>3, <3>4, <3>5
  <2>4. Between(AnalogInput0', prev_analoginput0', TargetPos' + EncoderOffset)
    BY <1>1, <1>2, <1>5 DEF AnalogInput0, Between
  <2> QED BY <1>1, <1>2, <2>1, <2>3, <2>4 DEF Moving
<1> QED BY <1>3, <1>6, <1>7 DEF Travels

LEMMA TravelStop ==
  ASSUME CoreInStep, Travels, stopMotor
  PROVE  Travels'
<1>1. /\ UNCHANGED <<state, count_TargetPos, Position, opening, prev_analoginput0,
                     ismoving_flag, advanced, slipped>>
      /\ block = "stop" /\ block' = "done" /\ status_state = 2
  BY DEF stopMotor, motor, CoreInStep, DriverInStep, Phase
<1>2. CASE ismoving_flag = 0
  <2>1. /\ RefVel' = 0
        /\ TargetPos' = IF spinning THEN Position ELSE TargetPos
        /\ status_state' \in {2, 3}
        /\ home_done' = IF state = HOMING THEN 31 ELSE home_done
    BY <1>1, <1>2 DEF stopMotor
  <2>2. Calibrated'
    BY <1>1, <2>1 DEF Travels, Calibrated
  <2>3. Closing'
    BY <1>1, <1>2, <2>1 DEF Travels, Closing, AnalogInput0
  <2>4. Moving'
    <3> SUFFICES ASSUME state = MOVEREL, home_done = 31, ~slipped PROVE Moving'
      BY <1>1, <2>1 DEF Moving, HOMING, MOVEREL
    <3>1. Position = TargetPos /\ TargetPos = count_TargetPos
      BY <1>1, <1>2 DEF Travels, Moving
    <3>2. TargetPos' = TargetPos
      BY <2>1, <3>1
    <3> QED BY <1>1, <2>1, <3>1, <3>2 DEF Travels, Moving, AnalogInput0, Between
  <2> QED BY <2>2, <2>3, <2>4 DEF Travels
<1>3. CASE ismoving_flag # 0
  <2>1. UNCHANGED <<RefVel, TargetPos, status_state, home_done>>
    BY <1>3 DEF stopMotor
  <2>2. Closing'
    BY <1>1, <2>1 DEF Travels, Closing, AnalogInput0
  <2>3. Moving'
    BY <1>1, <2>1 DEF Travels, Moving, AnalogInput0, Between
  <2>4. Calibrated'
    BY <1>1, <2>1 DEF Travels, Calibrated
  <2> QED BY <2>2, <2>3, <2>4 DEF Travels
<1> QED BY <1>2, <1>3

LEMMA TravelDone ==
  ASSUME CoreInStep, Travels, checkMoveDone
  PROVE  Travels'
<1>1. /\ UNCHANGED <<home_done, count_TargetPos, RefVel, opening, prev_analoginput0,
                     ismoving_flag, advanced>>
      /\ block' = "loop"
  BY DEF checkMoveDone
<1>2. CASE status_state = 3
  <2>1. /\ Position' = IF state = HOMING THEN 0 ELSE Position
        /\ status_state' = 5 /\ state' = 0
        /\ slipped' = (slipped /\ state # HOMING)
    BY <1>2 DEF checkMoveDone
  <2>2. Calibrated'
    <3>1. CASE state = HOMING
      <4>1. opening = 0
        BY <1>2, <3>1 DEF Travels, Closing
      <4> QED BY <1>1, <2>1, <3>1, <4>1 DEF Calibrated
    <3>2. CASE state # HOMING
      BY <1>1, <2>1, <3>2 DEF Travels, Calibrated
    <3> QED BY <3>1, <3>2
  <2> QED BY <2>1, <2>2 DEF Travels, Closing, Moving, HOMING, MOVEREL
<1>3. CASE status_state # 3
  <2>1. UNCHANGED <<Position, TargetPos, status_state, state, slipped>>
    BY <1>3 DEF checkMoveDone
  <2>2. Closing'
    BY <1>1, <2>1 DEF Travels, Closing, AnalogInput0
  <2>3. Moving'
    BY <1>1, <2>1 DEF Travels, Moving, AnalogInput0, Between
  <2>4. Calibrated'
    BY <1>1, <2>1 DEF Travels, Calibrated
  <2> QED BY <2>2, <2>3, <2>4 DEF Travels
<1> QED BY <1>2, <1>3

\* A turn of the motor: homing closes the slit, and a movement brings counter
\* and slit one step nearer to the target.
LEMMA TravelRotate ==
  ASSUME CoreInStep, Travels, Rotate
  PROVE  Travels'
<1>1. /\ UNCHANGED <<block, status_state, state, home_done, count_TargetPos, RefVel,
                     TargetPos, ismoving_flag, prev_analoginput0, slipped>>
      /\ Commanded /\ advanced' = TRUE
  BY DEF Rotate, registers, motion
<1>2. status_state = 2 /\ bEnable /\ (ControlMode = 1 <=> state = HOMING)
  BY <1>1 DEF Commanded, CoreInStep, DriverInStep, Powered
<1>3. /\ opening \in 0 .. MaxPosition /\ EncoderOffset \in Nat /\ MaxPosition \in Nat
      /\ Position \in Int /\ TargetPos \in Int /\ prev_analoginput0 \in Nat
      /\ count_TargetPos \in 0 .. MaxPosition
  BY TravelAssumption DEF CoreInStep, DriverTypeOK, Positions, Counts
<1>4. CASE state = HOMING
  <2>1. opening' = Clamp(opening - 1) /\ RefVel # 0
    BY <1>1, <1>2, <1>4 DEF Rotate, Commanded
  <2>2. (opening = 0 /\ opening' = 0) \/ (opening > 0 /\ opening' = opening - 1)
    BY <1>3, <2>1 DEF Clamp
  <2>3. Closing'
    <3>1. block' = "stop" /\ ismoving_flag' = 0 => opening' = 0
      BY <1>1, <1>2, <1>4, <2>2 DEF Travels, Closing
    <3>2. ASSUME prev_analoginput0 # 0
          PROVE  /\ AnalogInput0' <= prev_analoginput0'
                 /\ AnalogInput0' < prev_analoginput0' \/ opening' = 0
      <4>1. AnalogInput0 <= prev_analoginput0
        BY <1>2, <1>4, <3>2 DEF Travels, Closing
      <4> QED BY <1>1, <1>3, <2>2, <4>1 DEF AnalogInput0
    <3> QED BY <1>1, <1>2, <2>1, <3>1, <3>2 DEF Closing
  <2> QED BY <1>1, <1>4, <2>3 DEF Travels, Moving, Calibrated, HOMING, MOVEREL
<1>5. CASE state # HOMING
  <2>1. /\ Position' = Toward(Position, TargetPos)
        /\ opening' = Clamp(opening + Position' - Position)
        /\ Position # TargetPos
    BY <1>1, <1>2, <1>5 DEF Rotate, Commanded
  <2>2. state = MOVEREL
    BY <1>2, <1>5 DEF CoreInStep, DriverTypeOK, DriverInStep, Phase
  <2> SUFFICES ASSUME home_done = 31, ~slipped PROVE Travels'
    BY <1>1, <1>5 DEF Travels, Closing, Moving, Calibrated
  <2>3. Position = opening /\ TargetPos = count_TargetPos
    BY <1>2, <1>5, <2>2 DEF Travels, Calibrated, Moving
  <2>4. /\ Position' = opening'
        /\ \/ Position < TargetPos /\ Position' = Position + 1
           \/ TargetPos < Position /\ Position' = Position - 1
    BY <1>3, <2>1, <2>3 DEF Toward, Clamp
  <2>5. ~(block = "stop" /\ ismoving_flag = 0)
    BY <1>2, <2>1, <2>2 DEF Travels, Moving
  <2>6. ASSUME prev_analoginput0 # 0
        PROVE  /\ Between(AnalogInput0', prev_analoginput0', TargetPos' + EncoderOffset)
               /\ AnalogInput0' # prev_analoginput0'
    <3>1. Between(AnalogInput0, prev_analoginput0, TargetPos + EncoderOffset)
      BY <1>2, <2>2, <2>6 DEF Travels, Moving
    <3> QED BY <1>1, <1>3, <2>3, <2>4, <3>1 DEF AnalogInput0, Between
  <2>7. Position' < TargetPos' => Position' >= 1
    BY <1>1, <1>3, <2>3, <2>4
  <2>8. Moving'
    BY <1>1, <1>2, <2>3, <2>5, <2>6, <2>7 DEF Moving
  <2> QED BY <1>1, <1>5, <2>4, <2>8 DEF Travels, Closing, Calibrated
<1> QED BY <1>4, <1>5

LEMMA TravelSlipRest ==
  ASSUME CoreInStep, Travels, Slip \/ Rest
  PROVE  Travels'
<1>1. UNCHANGED <<block, status_state, state, home_done, count_TargetPos, RefVel,
                  TargetPos, ismoving_flag, prev_analoginput0, opening>>
  BY DEF Slip, Rest, registers, motion
<1>2. CASE Slip
  <2>1. slipped' = TRUE /\ ControlMode = 0 /\ bEnable
    BY <1>2 DEF Slip, Commanded
  <2>2. state # HOMING
    BY <2>1 DEF CoreInStep, DriverInStep, Powered
  <2> QED BY <1>1, <2>1, <2>2 DEF Travels, Closing, Moving, Calibrated
<1>3. CASE Rest
  <2>1. UNCHANGED <<Position, advanced, slipped>>
    BY <1>3 DEF Rest
  <2>2. Closing'
    BY <1>1, <2>1 DEF Travels, Closing, AnalogInput0
  <2>3. Moving'
    BY <1>1, <2>1 DEF Travels, Moving, AnalogInput0, Between
  <2>4. Calibrated'
    BY <1>1, <2>1 DEF Travels, Calibrated
  <2> QED BY <2>2, <2>3, <2>4 DEF Travels
<1> QED BY <1>2, <1>3

LEMMA TravelDriver ==
  ASSUME CoreInStep, Travels, Driver
  PROVE  Travels'
BY TravelLoop, TravelInitMov, TravelRotation, TravelStop, TravelDone, TravelRotate,
   TravelSlipRest DEF Driver, Blocks

\* The counter of a driver with nothing to do stands still.
LEMMA QuietPosition ==
  ASSUME CoreInStep, Quiet, Driver
  PROVE  Position' = Position
<1>1. block = "loop" /\ status_state # 2
  BY DEF CoreInStep, DriverInStep, Phase, Quiet
<1>2. ~Commanded
  BY <1>1 DEF CoreInStep, DriverInStep, Powered, Commanded
<1> QED BY <1>1, <1>2 DEF Driver, Blocks, Loop, initMov, checkRotation, stopMotor,
                          checkMoveDone, Rotate, Slip, Rest, motor

LEMMA TravelServer ==
  ASSUME Travels,
         UNCHANGED <<block, status_state, state, home_done, count_TargetPos, RefVel,
                     TargetPos, ismoving_flag, prev_analoginput0, Position, opening,
                     advanced, slipped>>
  PROVE  Travels'
<1>1. Closing'
  BY DEF Travels, Closing, AnalogInput0
<1>2. Moving'
  BY DEF Travels, Moving, AnalogInput0, Between
<1>3. Calibrated'
  BY DEF Travels, Calibrated
<1> QED BY <1>1, <1>2, <1>3 DEF Travels

\* The server writes the status and the target of a driver with nothing to do.
LEMMA TravelQuiet ==
  ASSUME Travels, Quiet, Quiet',
         UNCHANGED <<home_done, Position, opening, slipped>>
  PROVE  Travels'
BY DEF Travels, Closing, Moving, Calibrated, Quiet, HOMING, MOVEREL

LEMMA MoveInit == Init => MoveInv
BY TravelInit DEF MoveInv

LEMMA MoveStart ==
  ASSUME TypeInv, MoveInv, StartCommand
  PROVE  MoveInv'
<1>1. /\ UNCHANGED <<block, status_state, state, home_done, count_TargetPos, RefVel,
                     TargetPos, ismoving_flag, prev_analoginput0, Position, opening,
                     advanced, slipped, astray>>
  BY DEF StartCommand, driver, registers, motion, motor
<1>2. left' = <<>> \/ Head(left') = "wait"
  BY CommandsAreTodos, Begins DEF StartCommand
<1>3. SeenIsPosition'
  BY <1>2 DEF SeenIsPosition
<1>4. ~astray => Travels'
  BY <1>1, TravelServer DEF MoveInv, Travels
<1> QED BY <1>1, <1>3, <1>4 DEF MoveInv, Travels

LEMMA MoveReadStatus ==
  ASSUME TypeInv, MoveInv, NEW outcome \in Outcomes, ReadStatus(outcome)
  PROVE  MoveInv'
<1>0. Control
  BY DEF TypeInv
<1>1. /\ UNCHANGED <<block, status_state, state, home_done, count_TargetPos, RefVel,
                     TargetPos, ismoving_flag, prev_analoginput0, Position, opening,
                     advanced, slipped, astray>>
      /\ left # <<>> /\ Head(left) = "wait"
  BY DEF ReadStatus, Transaction, driver, registers, motion, motor
<1>2. SeenIsPosition'
  <2>1. Advance \/ GiveUp \/ UNCHANGED left
    BY Zenon DEF ReadStatus
  <2>2. CASE UNCHANGED left
    BY <1>1, <2>2 DEF SeenIsPosition
  <2>3. CASE left' = <<>> \/ Head(left') = "wait"
    BY <2>3 DEF SeenIsPosition
  <2>4. CASE left' = Tail(left) /\ Len(left) # 1 /\ todo' = todo
    <3>1. Head(left') = "analog" => Current.name = "Sample"
      BY <1>0, <1>1, <2>4, InFunction, GoesOn
    <3> QED BY <2>4, <3>1 DEF SeenIsPosition, Current
  <2> QED BY <1>0, <1>1, <2>1, <2>2, <2>3, <2>4, WhatFollows
<1>3. ~astray => Travels'
  BY <1>1, TravelServer DEF MoveInv, Travels
<1> QED BY <1>1, <1>2, <1>3 DEF MoveInv, Travels

\* After a write comes another one, or the wait of the next function.
LEMMA AfterWrite ==
  ASSUME Control, left # <<>>, Head(left) \in {"clear", "target", "request"},
         NEW outcome, Write(outcome)
  PROVE  left' = <<>> \/ Head(left') \in {"wait", "target", "request"}
<1>1. \/ left' = <<>> \/ Head(left') = "wait"
      \/ left' = Tail(left) /\ Len(left) # 1
  BY WhatFollows DEF Write
<1>2. ASSUME left' = Tail(left), Len(left) # 1
      PROVE  Head(left') \in {"target", "request"}
  BY <1>2, InFunction, Heads, GoesOn
<1> QED BY <1>1, <1>2

LEMMA MoveWrites ==
  ASSUME PromptFirmware, TypeInv, SyncInv, MoveInv, NEW outcome \in Outcomes,
         ClearStatus(outcome) \/ WriteTarget(outcome) \/ WriteRequest(outcome)
  PROVE  MoveInv'
<1>0. Control
  BY DEF TypeInv
<1>1. /\ UNCHANGED <<block, state, home_done, RefVel, TargetPos, ismoving_flag,
                     prev_analoginput0, Position, opening, advanced, slipped>>
      /\ left # <<>> /\ Head(left) \in {"clear", "target", "request"}
      /\ Write(outcome)
      /\ ~astray' => ~astray
  <2>1. CASE ClearStatus(outcome)
    BY <2>1 DEF ClearStatus, Transaction, motion, motor
  <2>2. CASE WriteTarget(outcome)
    BY <2>2 DEF WriteTarget, Transaction, motion, motor
  <2>3. CASE WriteRequest(outcome)
    BY <2>3 DEF WriteRequest, Transaction, motion, motor
  <2> QED BY <2>1, <2>2, <2>3
<1>2. left' = <<>> \/ Head(left') \in {"wait", "target", "request"}
  BY <1>0, <1>1, AfterWrite
<1>3. SeenIsPosition'
  BY <1>2 DEF SeenIsPosition
<1>4. ASSUME ~astray' PROVE Travels'
  <2>0. ~astray /\ Travels
    BY <1>1, <1>4 DEF MoveInv, Travels
  <2>1. CASE ClearStatus(outcome)
    <3>1. CASE outcome = "lostRequest"
      <4>1. UNCHANGED <<status_state, count_TargetPos>>
        BY <2>1, <3>1 DEF ClearStatus
      <4> QED BY <1>1, <2>0, <4>1, TravelServer
    <3>2. CASE outcome # "lostRequest"
      <4>1. Quiet
        BY <1>4, <2>0, <2>1, <3>2, ClearsQuiet
      <4>2. UNCHANGED <<state, request_state>>
        BY <2>1 DEF ClearStatus
      <4> QED BY <1>1, <2>0, <4>1, <4>2, TravelQuiet DEF Quiet
    <3> QED BY <3>1, <3>2
  <2>2. CASE WriteTarget(outcome)
    <3>1. Head(left) = "target"
      BY <2>2 DEF WriteTarget, Transaction
    <3>2. Quiet
      BY <1>1, <2>0, <3>1 DEF SyncInv, InStep, AfterWait
    <3>3. UNCHANGED <<state, request_state>>
      BY <2>2 DEF WriteTarget
    <3> QED BY <1>1, <2>0, <3>2, <3>3, TravelQuiet DEF Quiet
  <2>3. CASE WriteRequest(outcome)
    <3>1. UNCHANGED <<status_state, count_TargetPos>>
      BY <2>3 DEF WriteRequest
    <3> QED BY <1>1, <2>0, <3>1, TravelServer
  <2> QED BY <2>1, <2>2, <2>3
<1> QED BY <1>3, <1>4 DEF MoveInv, Travels

LEMMA MoveReads ==
  ASSUME TypeInv, MoveInv, NEW outcome \in Outcomes,
         ReadPosition(outcome) \/ ReadAnalog(outcome)
  PROVE  MoveInv'
<1>0. Control
  BY DEF TypeInv
<1>1. /\ UNCHANGED <<block, status_state, state, home_done, count_TargetPos, RefVel,
                     TargetPos, ismoving_flag, prev_analoginput0, Position, opening,
                     advanced, slipped, astray>>
      /\ left # <<>> /\ Head(left) \in {"position", "analog"}
  BY DEF ReadPosition, ReadAnalog, Transaction, driver, registers, motion, motor, history
<1>2. SeenIsPosition'
  <2>1. CASE ReadPosition(outcome)
    BY <1>1, <2>1 DEF ReadPosition, SeenIsPosition
  <2>2. CASE ReadAnalog(outcome)
    <3>1. Head(left) = "analog"
      BY <2>2 DEF ReadAnalog, Transaction
    <3>2. Len(left) = 1
      BY <1>0, <1>1, <3>1, InFunction, Heads
    <3>3. Advance \/ GiveUp
      BY <2>2, AnalogCases, Zenon
    <3>4. left' = <<>> \/ Head(left') = "wait"
      BY <1>0, <1>1, <3>2, <3>3, WhatFollows
    <3> QED BY <3>4 DEF SeenIsPosition
  <2> QED BY <2>1, <2>2
<1>3. ~astray => Travels'
  BY <1>1, TravelServer DEF MoveInv, Travels
<1> QED BY <1>1, <1>2, <1>3 DEF MoveInv, Travels

LEMMA MoveNext ==
  ASSUME PromptFirmware
  PROVE  TypeInv /\ SyncInv /\ MoveInv /\ [Next]_vars => MoveInv'
<1> SUFFICES ASSUME TypeInv, SyncInv, MoveInv, [Next]_vars PROVE MoveInv'
  OBVIOUS
<1>1. CASE StartCommand
  BY <1>1, MoveStart
<1>2. CASE Access
  BY <1>2, MoveReadStatus, MoveWrites, MoveReads DEF Access
<1>3. CASE DriverStep
  <2>1. /\ Driver /\ UNCHANGED <<todo, left, seen, misread, astray>>
    BY <1>3 DEF DriverStep, server, history
  <2>2. SUFFICES ASSUME ~astray PROVE Travels' /\ SeenIsPosition'
    BY <2>1 DEF MoveInv, Travels
  <2>3. CoreInStep /\ Travels /\ SeenIsPosition /\ AfterWait
    BY <2>2 DEF TypeInv, SyncInv, InStep, MoveInv, CoreInStep, DriverInStep, Travels
  <2>4. Travels'
    BY <2>1, <2>3, TravelDriver
  <2>5. left # <<>> /\ Head(left) = "analog" /\ ~misread => Position' = Position
    BY <2>1, <2>3, QuietPosition DEF AfterWait
  <2>6. SeenIsPosition'
    BY <2>1, <2>3, <2>5 DEF SeenIsPosition, Current
  <2> QED BY <2>4, <2>6
<1>4. CASE UNCHANGED vars
  <2>1. UNCHANGED <<block, status_state, state, home_done, count_TargetPos, RefVel,
                    TargetPos, ismoving_flag, prev_analoginput0, Position, opening,
                    advanced, slipped, astray, todo, left, seen, misread>>
    BY <1>4 DEF vars, driver, registers, motion, motor, server, history
  <2>2. ~astray => Travels'
    BY <2>1, TravelServer DEF MoveInv, Travels
  <2> QED BY <2>1, <2>2 DEF MoveInv, Travels, SeenIsPosition, Current
<1> QED BY <1>1, <1>2, <1>3, <1>4 DEF Next

------------------------------------------------------------------------------
(* What follows for the commands.                                          *)

LEMMA MotionInvariant ==
  ASSUME PromptFirmware
  PROVE  Spec => [](TypeInv /\ SyncInv /\ MoveInv)
<1>1. Init => TypeInv /\ SyncInv /\ MoveInv
  BY TypeInit, SyncInit, MoveInit
<1>2. TypeInv /\ SyncInv /\ MoveInv /\ [Next]_vars
        => (TypeInv /\ SyncInv /\ MoveInv)'
  BY TypeNext, SyncNext, MoveNext
<1> QED BY <1>1, <1>2, PTL DEF Spec

\* Once a homing was concluded the counter of a driver tells the real opening
\* of its slit, whatever commands are sent and whichever transactions fail,
\* unless the motor lost a step or the server, misled by a failed reading,
\* took the status of a busy driver away (stopMotor and checkMoveDone of the
\* firmware with the functions of DriverFunction.c).
THEOREM CounterTellsOpening ==
  ASSUME PromptFirmware
  PROVE  Spec => []HomedMeansCalibrated
<1>1. MoveInv => HomedMeansCalibrated
  BY DEF MoveInv, Calibrated, HomedMeansCalibrated
<1> QED BY <1>1, MotionInvariant, PTL

\* Until such a misled write status_state takes the steps the firmware
\* document draws, whoever makes them, and the server takes back to standby
\* only a state that was concluded (mainLoop to checkMoveDone, ClearStatus).
THEOREM StatusTakesItsSteps ==
  ASSUME PromptFirmware
  PROVE  Spec => StatusSequence
<1> DEFINE A == [~astray' => <<status_state, status_state'>> \in Sequence]_status_state
<1>1. TypeInv /\ SyncInv /\ [Next]_vars => A
  <2> SUFFICES ASSUME TypeInv, SyncInv, [Next]_vars, ~astray',
                      status_state' # status_state
               PROVE  <<status_state, status_state'>> \in Sequence
    OBVIOUS
  <2>1. CASE StartCommand
    BY <2>1 DEF StartCommand, driver, registers
  <2>2. CASE Access
    <3>1. PICK outcome \in Outcomes :
            \/ ReadStatus(outcome) \/ ClearStatus(outcome) \/ WriteTarget(outcome)
            \/ WriteRequest(outcome) \/ ReadPosition(outcome) \/ ReadAnalog(outcome)
      BY <2>2 DEF Access
    <3>2. ClearStatus(outcome)
      BY <3>1 DEF ReadStatus, WriteTarget, WriteRequest, ReadPosition, ReadAnalog,
                  driver, registers
    <3>3. ~astray /\ outcome # "lostRequest" /\ status_state' = 0
      BY <3>2 DEF ClearStatus
    <3>4. status_state \in {0, 5}
      BY <3>2, <3>3, ClearsQuiet
    <3> QED BY <3>3, <3>4 DEF Sequence
  <2>3. CASE DriverStep
    <3>1. Driver /\ ~astray
      BY <2>3 DEF DriverStep, history
    <3>2. DriverInStep
      BY <3>1 DEF SyncInv, InStep, DriverInStep
    <3>3. CASE Loop
      <4>1. status_state = 0 /\ status_state' = 1
        BY <3>3 DEF Loop, Accepts
      <4> QED BY <4>1 DEF Sequence
    <3>4. CASE initMov
      <4>1. status_state = 1 /\ status_state' = 2
        BY <3>4 DEF initMov
      <4> QED BY <4>1 DEF Sequence
    <3>5. CASE stopMotor
      <4>1. status_state = 2 /\ status_state' = 3
        BY <3>2, <3>5 DEF stopMotor, DriverInStep, Phase
      <4> QED BY <4>1 DEF Sequence
    <3>6. CASE checkMoveDone
      <4>1. status_state = 3 /\ status_state' = 5
        BY <3>6 DEF checkMoveDone
      <4> QED BY <4>1 DEF Sequence
    <3>7. CASE checkRotation \/ Rotate \/ Slip \/ Rest
      BY <3>7 DEF checkRotation, Rotate, Slip, Rest, registers
    <3> QED BY <3>1, <3>3, <3>4, <3>5, <3>6, <3>7 DEF Driver, Blocks
  <2>4. CASE UNCHANGED vars
    BY <2>4 DEF vars, driver, registers
  <2> QED BY <2>1, <2>2, <2>3, <2>4 DEF Next
<1> QED BY <1>1, MotionInvariant, PTL DEF Spec, StatusSequence

\* A state the driver concludes with 5 did what was asked of it: a homing left
\* the slit closed, and a movement of a homed slit left it where MoveTo said
\* last (checkRotation, stopMotor and checkMoveDone of the firmware, MoveTo).
THEOREM ConcludedIsArrived ==
  ASSUME PromptFirmware
  PROVE  Spec => ConcludedMeansArrived
<1> DEFINE A == [ status_state = 3 /\ status_state' = 5 /\ ~astray =>
                    /\ state = HOMING => opening = 0
                    /\ state = MOVEREL /\ home_done = 31 /\ ~slipped =>
                         opening = count_TargetPos ]_status_state
<1>1. MoveInv => A
  <2> SUFFICES ASSUME MoveInv, status_state = 3, ~astray
               PROVE  /\ state = HOMING => opening = 0
                      /\ state = MOVEREL /\ home_done = 31 /\ ~slipped =>
                           opening = count_TargetPos
    OBVIOUS
  <2>1. Closing /\ Moving /\ Calibrated
    BY DEF MoveInv
  <2> QED BY <2>1 DEF Closing, Moving, Calibrated, HOMING, MOVEREL
<1> QED BY <1>1, MotionInvariant, PTL DEF ConcludedMeansArrived

\* A position check that compares tells whether counter and encoder agree at
\* the moment of its answer: between its two readings nothing moves, because
\* it waited for a driver with nothing to do (CheckPositionEncoderSingle).
THEOREM CheckIsTruthful ==
  ASSUME PromptFirmware
  PROVE  Spec => CheckTellsTheTruth
<1> DEFINE A ==
      [ answer'.to = "CheckPositionEncoder" /\ answer'.result \in {-1, 0}
          /\ ~GivenUp /\ ~misread /\ ~astray =>
        ( answer'.result = -1 <=>
            Distance(Estimate(Position), AnalogInput0) > POSITION_TOLERATED_ERROR )
      ]_answer
<1>1. TypeInv /\ SyncInv /\ MoveInv /\ [Next]_vars => A
  <2> SUFFICES ASSUME TypeInv, SyncInv, MoveInv, [Next]_vars, answer' # answer,
                      answer'.to = "CheckPositionEncoder", answer'.result \in {-1, 0},
                      ~GivenUp, ~misread, ~astray
               PROVE  answer'.result = -1 <=>
                        Distance(Estimate(Position), AnalogInput0)
                          > POSITION_TOLERATED_ERROR
    OBVIOUS
  <2>1. ~StartCommand
    BY DEF StartCommand, NoAnswer
  <2>2. ~DriverStep /\ ~UNCHANGED vars
    BY DEF DriverStep, vars, server
  <2>3. PICK outcome \in Outcomes :
          \/ ReadStatus(outcome) \/ ClearStatus(outcome) \/ WriteTarget(outcome)
          \/ WriteRequest(outcome) \/ ReadPosition(outcome) \/ ReadAnalog(outcome)
    BY <2>1, <2>2 DEF Next, Access
  <2>4. ~ReadStatus(outcome)
    <3>1. ReadStatus(outcome) => UNCHANGED answer
      BY Zenon DEF ReadStatus
    <3> QED BY <3>1
  <2>5. ReadAnalog(outcome)
    BY <2>3, <2>4 DEF ClearStatus, WriteTarget, WriteRequest, Write, ReadPosition
  <2>6. left # <<>> /\ Head(left) = "analog" /\ Control
    BY <2>5 DEF ReadAnalog, Transaction, TypeInv
  <2>7. \/ Answer(-2)
        \/ Current.name = "GetMovePar" /\ Answer(0)
        \/ seen # NoReading /\ Answer(Verdict(AnalogInput0))
    BY <2>5, AnalogCases, Zenon
  <2>8. /\ Current.name = "CheckPositionEncoder" /\ seen # NoReading
        /\ answer'.result = Verdict(AnalogInput0)
    BY <2>7 DEF Answer
  <2>9. seen = Position
    BY <2>6, <2>8 DEF MoveInv, SeenIsPosition
  <2> QED BY <2>8, <2>9 DEF Verdict
<1> QED BY <1>1, MotionInvariant, PTL DEF Spec, CheckTellsTheTruth

------------------------------------------------------------------------------
(* The pairs of Encode.                                                    *)

\* The function that follows the one in execution.
LEMMA Successor ==
  ASSUME Control, todo # <<>>
  PROVE  /\ Current.name = "Ready" =>
              /\ samples = <<>> /\ Tail(todo) # <<>>
              /\ Head(Tail(todo)).name = "MoveTo"
         /\ Current.name = "MoveTo" =>
              /\ Tail(todo) # <<>>
              /\ \/ samples = <<>> /\ Head(Tail(todo)).name = "GetMovePar"
                 \/ Head(Tail(todo)) = Call("Sample", Current.arg)
         /\ Current.name = "Sample" =>
              Tail(todo) = <<>> \/ Head(Tail(todo)).name = "MoveTo"
         /\ Current.name = "Homing" =>
              /\ samples = <<>> /\ Tail(todo) # <<>>
              /\ Head(Tail(todo)).name = "GetMovePar"
         /\ Current.name \in {"GetMovePar", "CheckPositionEncoder"} =>
              samples = <<>> /\ Tail(todo) = <<>>
<1>0. /\ todo \in Seq(Calls) /\ TodoIs(todo, samples)
      /\ Tail(todo) \in Seq(Calls) /\ Current = todo[1]
  BY SequenceTail DEF Control, Current
<1>1. CASE /\ Len(todo) = 1 /\ samples = <<>>
           /\ todo[1].name \in {"GetMovePar", "CheckPositionEncoder"}
  <2>1. Tail(todo) = <<>>
    BY <1>0, <1>1, SequenceTail
  <2> QED BY <1>0, <1>1, <2>1
<1>2. CASE /\ Len(todo) = 2 /\ samples = <<>>
           /\ todo[1].name \in {"Homing", "MoveTo"} /\ todo[2].name = "GetMovePar"
  <2>1. Tail(todo) # <<>> /\ Head(Tail(todo)) = todo[2]
    <3>1. /\ Tail(todo) \in Seq(Calls) /\ Len(Tail(todo)) = Len(todo) - 1
          /\ \A j \in 1 .. Len(todo) - 1 : Tail(todo)[j] = todo[j + 1]
      BY <1>0, SequenceTail
    <3>2. Len(Tail(todo)) = 1 /\ Tail(todo)[1] = todo[2]
      BY <1>2, <3>1
    <3>3. Tail(todo) # <<>>
      <4>1. Len(<<>>) # 1
        OBVIOUS
      <4> QED BY <3>2, <4>1, Zenon
    <3>4. Head(Tail(todo)) = Tail(todo)[1]
      BY <3>1, <3>3, SequenceTail
    <3> QED BY <3>2, <3>3, <3>4
  <2> QED BY <1>0, <1>2, <2>1
<1>3. CASE \E k \in 0 .. LastOfLoop :
             InLoop(todo, k) /\ (samples = <<>> \/ 2 * Len(samples) < k)
  <2>1. PICK k \in 0 .. LastOfLoop :
          InLoop(todo, k) /\ (samples = <<>> \/ 2 * Len(samples) < k)
    BY <1>3
  <2>2. LastOfLoop \in Nat \ {0} /\ LastOfLoop = 2 * (MaxPosition + 1)
        /\ MaxPosition \in Nat
    BY TravelAssumption DEF LastOfLoop
  <2>3. Current = IF k = 0 THEN Call("Ready", 0) ELSE EncodeLoop[k]
    BY <1>0, <2>1, LoopHead DEF Current
  <2>4. ASSUME k # LastOfLoop
        PROVE  Tail(todo) # <<>> /\ Head(Tail(todo)) = EncodeLoop[k + 1]
    <3>1. InLoop(Tail(todo), k + 1)
      BY <1>0, <2>1, <2>4, LoopTail
    <3>2. k + 1 \in 0 .. LastOfLoop /\ k + 1 # 0
      BY <2>2, <2>4
    <3> QED BY <1>0, <3>1, <3>2, LoopHead
  <2>5. k = LastOfLoop => Tail(todo) = <<>>
    BY <1>0, <2>1, LoopTail
  <2>6. CASE k = 0
    <3>1. samples = <<>>
      <4>1. ~(2 * Len(samples) < 0)
        BY DEF Control
      <4> QED BY <2>1, <2>6, <4>1
    <3>2. 0 + 1 \in 1 .. LastOfLoop /\ LastOfLoop # 0
      BY <2>2
    <3>3. PICK x \in Positions :
            \/ 0 + 1 = 2 * x + 1 /\ EncodeLoop[0 + 1] = Call("MoveTo", x)
            \/ 0 + 1 = 2 * x + 2 /\ EncodeLoop[0 + 1] = Call("Sample", x)
      BY <3>2, LoopFunction
    <3>4. EncodeLoop[0 + 1] = Call("MoveTo", x)
      BY <3>3 DEF Positions
    <3> QED BY <2>3, <2>4, <2>6, <3>1, <3>2, <3>4 DEF Call
  <2>7. CASE k # 0
    <3>1. k \in 1 .. LastOfLoop
      BY <2>7
    <3>2. PICK x \in Positions :
            \/ k = 2 * x + 1 /\ EncodeLoop[k] = Call("MoveTo", x)
            \/ k = 2 * x + 2 /\ EncodeLoop[k] = Call("Sample", x)
      BY <3>1, LoopFunction
    <3>3. k # LastOfLoop => k + 1 \in 1 .. LastOfLoop
      BY <2>2, <3>1
    <3>4. k # LastOfLoop =>
            \E y \in Positions :
              \/ k + 1 = 2 * y + 1 /\ EncodeLoop[k + 1] = Call("MoveTo", y)
              \/ k + 1 = 2 * y + 2 /\ EncodeLoop[k + 1] = Call("Sample", y)
      BY <3>3, LoopFunction
    <3>5. CASE k = 2 * x + 1 /\ EncodeLoop[k] = Call("MoveTo", x)
      <4>1. k # LastOfLoop
        BY <2>2, <3>5 DEF Positions
      <4>2. EncodeLoop[k + 1] = Call("Sample", x)
        BY <3>4, <3>5, <4>1 DEF Positions
      <4> QED BY <2>3, <2>4, <2>7, <3>5, <4>1, <4>2 DEF Call
    <3>6. CASE k = 2 * x + 2 /\ EncodeLoop[k] = Call("Sample", x)
      <4>1. k # LastOfLoop => EncodeLoop[k + 1].name = "MoveTo"
        <5> SUFFICES ASSUME k # LastOfLoop PROVE EncodeLoop[k + 1].name = "MoveTo"
          OBVIOUS
        <5>1. PICK y \in Positions :
                \/ k + 1 = 2 * y + 1 /\ EncodeLoop[k + 1] = Call("MoveTo", y)
                \/ k + 1 = 2 * y + 2 /\ EncodeLoop[k + 1] = Call("Sample", y)
          BY <3>4
        <5>2. EncodeLoop[k + 1] = Call("MoveTo", y)
          BY <3>6, <5>1 DEF Positions
        <5> QED BY <5>2 DEF Call
      <4>2. Current.name = "Sample"
        BY <2>3, <2>7, <3>6 DEF Call
      <4>3. Tail(todo) = <<>> \/ Head(Tail(todo)).name = "MoveTo"
        BY <2>4, <2>5, <4>1
      <4> QED BY <4>2, <4>3
    <3> QED BY <3>2, <3>5, <3>6
  <2> QED BY <2>6, <2>7
<1> QED BY <1>0, <1>1, <1>2, <1>3 DEF TodoIs

\* A command starts with another function than those of Encode's loop.
LEMMA FirstFunction ==
  ASSUME NEW calls \in Commands
  PROVE  /\ Head(calls).name # "Sample"
         /\ Head(calls).name = "MoveTo" => Head(Tail(calls)).name # "Sample"
<1>1. CASE \/ calls = <<Call("Homing", 0), Call("GetMovePar", 0)>>
           \/ calls = <<Call("GetMovePar", 0)>>
           \/ calls = <<Call("CheckPositionEncoder", 0)>>
  BY <1>1 DEF Call
<1>2. CASE \E x \in Positions : calls = <<Call("MoveTo", x), Call("GetMovePar", 0)>>
  <2>1. PICK x \in Positions : calls = <<Call("MoveTo", x), Call("GetMovePar", 0)>>
    BY <1>2
  <2>2. Tail(calls) = <<Call("GetMovePar", 0)>>
    BY <2>1
  <2> QED BY <2>1, <2>2 DEF Call
<1>3. CASE calls = <<Call("Ready", 0)>> \o EncodeLoop
  <2>1. calls \in Seq(Calls) /\ calls # <<>>
    BY CommandsAreTodos
  <2>2. calls[1] = Call("Ready", 0)
    BY <1>3, EncodeStarts
  <2>3. Head(calls) = calls[1]
    BY <2>1, SequenceTail
  <2> QED BY <2>2, <2>3 DEF Call
<1> QED BY <1>1, <1>2, <1>3 DEF Commands

LEMMA PairInit == Init => PairInv
BY DEF Init, FirmwareInit, PairInv, OnTheLine, Encoding

\* The step that begins the functions "calls" in a run without faults.
LEMMA PairBegins ==
  ASSUME NEW calls \in Seq(Calls), Begin(calls),
         calls # <<>> /\ Head(calls).name = "Sample" /\ LIMITSTATUS_STATE # 0
           => Asked(Head(calls).arg)',
         calls # <<>> /\ Head(calls).name = "MoveTo" /\ Tail(calls) # <<>>
             /\ Head(Tail(calls)).name = "Sample"
           => Quiet'
  PROVE  /\ Encoding' => Quiet' /\ (Head(left') = "wait" => count' = 0)
         /\ todo' # <<>> /\ (Current.name)' = "MoveTo" /\ Head(left') = "request" =>
              count_TargetPos' = (Current.arg)'
         /\ todo' # <<>> /\ (Current.name)' = "Sample"
              /\ (LIMITSTATUS_STATE # 0 \/ Head(left') # "wait") => Asked(Current.arg)'
<1>1. /\ todo' = calls /\ count' = 0
      /\ calls # <<>> => Head(left') = "wait"
  BY Begins DEF Begin
<1>2. Encoding' => Quiet'
  BY <1>1 DEF Encoding, Current
<1>3. todo' # <<>> /\ (Current.name)' = "Sample" /\ LIMITSTATUS_STATE # 0
        => Asked(Current.arg)'
  BY <1>1 DEF Current, Asked
<1> QED BY <1>1, <1>2, <1>3

\* A step that leaves the function, and the driver, as they are.
LEMMA PairGoesOn ==
  ASSUME PairInv, faults = 0, Control, left # <<>>, left' = Tail(left), Len(left) # 1,
         LIMITSTATUS_STATE = 0 => Head(left) # "wait" \/ Current.name # "Sample",
         UNCHANGED <<todo, samples, request_state, state, home_done, slipped, opening>>,
         Head(left) # "clear" => status_state' = status_state,
         Head(left) # "target" => count_TargetPos' = count_TargetPos,
         Head(left) = "target" => count_TargetPos' = Current.arg
  PROVE  /\ OnTheLine'
         /\ samples' # <<>> => request_state' # HOMING /\ state' # HOMING
         /\ Encoding' => Quiet' /\ (Head(left') = "wait" => count' = 0)
         /\ todo' # <<>> /\ (Current.name)' = "MoveTo" /\ Head(left') = "request" =>
              count_TargetPos' = (Current.arg)'
         /\ todo' # <<>> /\ (Current.name)' = "Sample"
              /\ (LIMITSTATUS_STATE # 0 \/ Head(left') # "wait") => Asked(Current.arg)'
<1>1. OnTheLine /\ OnTheLine'
  BY DEF PairInv, OnTheLine
<1>2. samples' # <<>> => request_state' # HOMING /\ state' # HOMING
  BY DEF PairInv
<1>3. Current.name \in Names /\ LeftIs(Current.name, left) /\ todo # <<>>
  BY InFunction
<1>4. LeftIs(Current.name, Tail(left)) /\ Tail(left) # <<>> /\ Head(Tail(left)) # "wait"
  <2>1. /\ LeftIs(Current.name, Tail(left)) /\ Tail(left) # <<>>
        /\ Head(left) = "wait" => Head(Tail(left)) \in {"clear", "position", "analog"}
        /\ Head(left) = "clear" => Head(Tail(left)) \in {"target", "request"}
        /\ Head(left) = "target" => Head(Tail(left)) = "request"
        /\ Head(left) = "position" => Head(Tail(left)) = "analog"
    BY <1>3, GoesOn
  <2>2. Head(left) \in {"wait", "clear", "target", "position"}
    BY <1>3, Heads
  <2> QED BY <2>1, <2>2
<1>5. Current' = Current /\ (Encoding' <=> Encoding) /\ (Quiet' <=> Quiet)
  BY DEF Current, Encoding, Quiet
<1>6. Encoding' => Quiet' /\ (Head(left') = "wait" => count' = 0)
  BY <1>4, <1>5 DEF PairInv
<1>7. ASSUME Current.name = "MoveTo", Head(left') = "request"
      PROVE  count_TargetPos' = Current.arg
  <2>1. Head(left) # "clear" /\ Head(left) # "wait"
    <3>1. left # <<"clear", "request">>
      BY <1>3, <1>7 DEF LeftIs, MoveTo
    <3>2. \/ left = MoveTo \/ left = <<"clear", "target", "request">>
          \/ left = <<"target", "request">> \/ left = <<"request">>
      BY <1>3, <1>7 DEF LeftIs
    <3>3. Head(Tail(MoveTo)) = "clear" /\ Head(MoveTo) = "wait"
          /\ Head(Tail(<<"clear", "target", "request">>)) = "target"
      BY DEF MoveTo
    <3>4. Len(<<"request">>) = 1 /\ Head(<<"target", "request">>) = "target"
      OBVIOUS
    <3> QED BY <1>7, <3>2, <3>3, <3>4
  <2>2. Head(left) = "target"
    BY <1>3, <1>7, <2>1, Heads
  <2> QED BY <2>2
<1>8. ASSUME Current.name = "Sample" PROVE Asked(Current.arg)'
  <2>1. Head(left) # "target" /\ Head(left) # "clear"
    BY <1>3, <1>8, Heads
  <2>2. Asked(Current.arg)
    BY <1>3, <1>8 DEF PairInv
  <2> QED BY <1>5, <2>1, <2>2 DEF Asked, Quiet
<1> QED BY <1>1, <1>2, <1>5, <1>6, <1>7, <1>8

LEMMA PairStart ==
  ASSUME PairInv, StartCommand
  PROVE  PairInv'
<1>1. PICK calls \in Commands : Begin(calls)
  BY DEF StartCommand
<1>2. samples' = <<>> /\ misread' = FALSE /\ faults' = faults /\ astray' = astray
  BY DEF StartCommand
<1>3. /\ Encoding' => Quiet' /\ (Head(left') = "wait" => count' = 0)
      /\ todo' # <<>> /\ (Current.name)' = "MoveTo" /\ Head(left') = "request" =>
           count_TargetPos' = (Current.arg)'
      /\ todo' # <<>> /\ (Current.name)' = "Sample"
           /\ (LIMITSTATUS_STATE # 0 \/ Head(left') # "wait") => Asked(Current.arg)'
  BY <1>1, CommandsAreTodos, FirstFunction, PairBegins
<1>4. OnTheLine'
  BY <1>2 DEF OnTheLine
<1> QED BY <1>2, <1>3, <1>4 DEF PairInv

\* In a run without faults every transaction succeeds.
LEMMA NoFault ==
  ASSUME NEW access, NEW outcome, Transaction(access, outcome), Readings, faults' = 0
  PROVE  outcome = "done" /\ faults = 0 /\ left # <<>> /\ Head(left) = access
         /\ (PromptFirmware => ~Accepts)
BY FaultAssumption DEF Transaction, Readings

\* The function in execution makes room for the next.
LEMMA PairNextFunction ==
  ASSUME PairInv, faults = 0, Control, todo # <<>>, Begin(Tail(todo)),
         NEW x, x = Current.arg,
         Current.name \in {"Ready", "Sample"} => Quiet',
         Encoding /\ LIMITSTATUS_STATE # 0 => Asked(x)'
  PROVE  /\ Encoding' => Quiet' /\ (Head(left') = "wait" => count' = 0)
         /\ todo' # <<>> /\ (Current.name)' = "MoveTo" /\ Head(left') = "request" =>
              count_TargetPos' = (Current.arg)'
         /\ todo' # <<>> /\ (Current.name)' = "Sample"
              /\ (LIMITSTATUS_STATE # 0 \/ Head(left') # "wait") => Asked(Current.arg)'
<1>0. PICK calls : calls = Tail(todo)
  OBVIOUS
<1>1. calls \in Seq(Calls) /\ Current.name \in Names /\ Begin(calls)
  BY <1>0, SequenceTail, FirstCall DEF Control, Current
<1>2. ASSUME calls # <<>>, Head(calls).name = "Sample", LIMITSTATUS_STATE # 0
      PROVE  Asked(Head(calls).arg)'
  <2>1. Current.name = "MoveTo"
    BY <1>0, <1>1, <1>2, Successor DEF Names
  <2>2. Head(calls) = Call("Sample", Current.arg)
    BY <1>0, <1>2, <2>1, Successor
  <2>3. Asked(x)'
    BY <1>0, <1>2, <2>1 DEF Encoding
  <2>4. Head(calls).arg = x
    BY <2>2 DEF Call
  <2> QED BY <2>3, <2>4 DEF Asked
<1>3. ASSUME calls # <<>>, Head(calls).name = "MoveTo"
      PROVE  Quiet'
  <2>1. Current.name \in {"Ready", "Sample"}
    <3>1. Current.name # "MoveTo"
      BY <1>0, <1>3, Successor DEF Call
    <3> QED BY <1>0, <1>1, <1>3, <3>1, Successor DEF Names
  <2> QED BY <2>1
<1> QED BY <1>1, <1>2, <1>3, PairBegins

LEMMA PairReadStatus ==
  ASSUME PromptFirmware, TypeInv, SyncInv, PairInv, faults' = 0,
         NEW outcome \in Outcomes, ReadStatus(outcome)
  PROVE  PairInv'
<1>0. DriverTypeOK /\ Control /\ Readings
  BY DEF TypeInv
<1>1. outcome = "done" /\ faults = 0 /\ left # <<>> /\ Head(left) = "wait" /\ ~Accepts
  BY <1>0, NoFault DEF ReadStatus
<1>2. UNCHANGED <<status_state, state, request_state, home_done, slipped, opening,
                  count_TargetPos, samples, astray>>
  BY DEF ReadStatus, driver, registers, motion, motor
<1>3. /\ todo # <<>> /\ Current.name \in Names /\ LeftIs(Current.name, left)
      /\ (Len(left) = 1 <=> Current.name = "Ready")
  BY <1>0, <1>1, InFunction, Heads
<1>4. ~misread /\ ~astray /\ DriverInStep
  BY <1>1 DEF PairInv, SyncInv, InStep, DriverInStep
<1>5. OnTheLine' /\ (samples' # <<>> => request_state' # HOMING /\ state' # HOMING)
  BY <1>1, <1>2 DEF PairInv, OnTheLine
<1>6. Encoding => Quiet /\ count = 0
  BY <1>1 DEF PairInv
<1> DEFINE Ahead ==
      /\ Encoding' => Quiet' /\ (Head(left') = "wait" => count' = 0)
      /\ todo' # <<>> /\ (Current.name)' = "MoveTo" /\ Head(left') = "request" =>
           count_TargetPos' = (Current.arg)'
      /\ todo' # <<>> /\ (Current.name)' = "Sample"
           /\ (LIMITSTATUS_STATE # 0 \/ Head(left') # "wait") => Asked(Current.arg)'
<1>7. CASE ~LetsGoOn(status_state) /\ ~GivenUp
  <2>1. UNCHANGED <<todo, left, misread>>
    BY <1>1, <1>7, Zenon DEF ReadStatus, StatusRead
  <2>2. ~Encoding
    BY <1>4, <1>6, <1>7 DEF DriverInStep, Phase, Quiet, LetsGoOn
  <2>3. Current' = Current /\ (Encoding' <=> Encoding)
    BY <2>1 DEF Current, Encoding
  <2>4. \A x : Asked(x) => Asked(x)'
    BY <1>2 DEF Asked, Quiet
  <2>5. Current.name = "MoveTo" /\ Head(left) = "request" =>
           count_TargetPos = Current.arg
    BY <1>1
  <2>6. Current.name = "Sample" /\ (LIMITSTATUS_STATE # 0 \/ Head(left) # "wait")
          => Asked(Current.arg)
    BY <1>1, <1>3 DEF PairInv
  <2>7. Ahead
    BY <1>2, <2>1, <2>2, <2>3, <2>5, <2>6 DEF Asked, Quiet
  <2> QED BY <1>2, <1>4, <1>5, <2>1, <2>7 DEF PairInv
<1>8. CASE GivenUp
  <2>1. GiveUp /\ misread' = FALSE
    BY <1>1, <1>8, Zenon DEF ReadStatus
  <2>2. CASE Current.name \in {"Ready", "Sample"}
    <3>1. Begin(<<>>) /\ <<>> \in Seq(Calls)
      BY <2>1, <2>2 DEF GiveUp
    <3>2. Ahead
      BY <3>1, PairBegins
    <3> QED BY <1>2, <1>4, <1>5, <2>1, <3>2 DEF PairInv
  <2>3. CASE Current.name \notin {"Ready", "Sample"}
    <3>1. Begin(Tail(todo))
      BY <2>1, <2>3 DEF GiveUp
    <3>2. ~(Encoding /\ LIMITSTATUS_STATE # 0)
      BY <1>6, <1>8 DEF GivenUp
    <3>3. PICK x : x = Current.arg
      OBVIOUS
    <3>4. Ahead
      BY <1>0, <1>1, <1>3, <2>3, <3>1, <3>2, <3>3, PairNextFunction
    <3> QED BY <1>2, <1>4, <1>5, <2>1, <3>4 DEF PairInv
  <2> QED BY <2>2, <2>3
<1>9. CASE LetsGoOn(status_state) /\ ~GivenUp
  <2>1. Advance /\ misread' = FALSE
    BY <1>1, <1>9, Zenon DEF ReadStatus, StatusRead
  <2>2. Quiet /\ Quiet'
    BY <1>0, <1>1, <1>2, <1>4, <1>9, LetGoOn DEF Quiet
  <2>3. CASE Len(left) = 1
    <3>1. Begin(Tail(todo)) /\ Current.name = "Ready"
      BY <1>3, <2>1, <2>3 DEF Advance
    <3>2. ~Encoding
      BY <3>1 DEF Encoding
    <3>3. PICK x : x = Current.arg
      OBVIOUS
    <3>4. Ahead
      BY <1>0, <1>1, <1>3, <2>2, <3>1, <3>2, <3>3, PairNextFunction
    <3> QED BY <1>2, <1>4, <1>5, <2>1, <3>4 DEF PairInv
  <2>4. CASE Len(left) # 1
    <3>1. left' = Tail(left) /\ todo' = todo
      BY <2>1, <2>4 DEF Advance
    <3>2. LIMITSTATUS_STATE # 0
      BY <1>0, <1>9, LimitAssumption DEF Control, GivenUp
    <3>3. Ahead
      BY <1>0, <1>1, <1>2, <2>4, <3>1, <3>2, PairGoesOn
    <3> QED BY <1>2, <1>4, <1>5, <2>1, <3>3 DEF PairInv
  <2> QED BY <2>3, <2>4
<1> QED BY <1>7, <1>8, <1>9

LEMMA PairWrites ==
  ASSUME TypeInv, PairInv, faults' = 0, NEW outcome \in Outcomes,
         ClearStatus(outcome) \/ WriteTarget(outcome)
  PROVE  PairInv'
<1>0. Control /\ Readings
  BY DEF TypeInv
<1>1. outcome = "done" /\ faults = 0 /\ left # <<>>
      /\ Head(left) = IF ClearStatus(outcome) THEN "clear" ELSE "target"
  BY <1>0, NoFault DEF ClearStatus, WriteTarget
<1>2. Len(left) # 1
  BY <1>0, <1>1, InFunction, Heads
<1>3. /\ UNCHANGED <<state, request_state, home_done, slipped, opening, samples, misread>>
      /\ Advance
  BY <1>1 DEF ClearStatus, WriteTarget, Write, motion, motor
<1>4. left' = Tail(left) /\ todo' = todo
  BY <1>2, <1>3 DEF Advance
<1>5. ~misread /\ ~astray
  BY <1>1 DEF PairInv
<1>6. ~astray'
  BY <1>1, <1>5 DEF ClearStatus, WriteTarget
<1>7. CASE ClearStatus(outcome)
  <2>1. count_TargetPos' = count_TargetPos /\ Head(left) = "clear"
    BY <1>1, <1>7 DEF ClearStatus
  <2> QED BY <1>0, <1>1, <1>2, <1>3, <1>4, <1>5, <1>6, <2>1, PairGoesOn DEF PairInv
<1>8. CASE WriteTarget(outcome)
  <2>1. /\ count_TargetPos' = Current.arg /\ Head(left) = "target"
        /\ status_state' = status_state
    BY <1>1, <1>8 DEF WriteTarget, Transaction
  <2> QED BY <1>0, <1>1, <1>2, <1>3, <1>4, <1>5, <1>6, <2>1, PairGoesOn DEF PairInv
<1> QED BY <1>7, <1>8

LEMMA PairRequest ==
  ASSUME TypeInv, PairInv, faults' = 0, NEW outcome \in Outcomes, WriteRequest(outcome)
  PROVE  PairInv'
<1>0. Control /\ Readings
  BY DEF TypeInv
<1>1. outcome = "done" /\ faults = 0 /\ left # <<>> /\ Head(left) = "request"
  BY <1>0, NoFault DEF WriteRequest
<1>2. /\ Len(left) = 1 /\ Current.name \in {"Homing", "MoveTo"} /\ todo # <<>>
  BY <1>0, <1>1, InFunction, Heads
<1>3. /\ UNCHANGED <<state, home_done, slipped, opening, samples, misread, astray,
                     count_TargetPos, status_state>>
      /\ Begin(Tail(todo))
      /\ request_state' = IF Current.name = "Homing" THEN HOMING ELSE MOVEREL
  <2>1. request_state' = IF Current.name = "Homing" THEN HOMING ELSE MOVEREL
    BY <1>1, <1>2, Zenon DEF WriteRequest
  <2> QED BY <1>1, <1>2, <2>1 DEF WriteRequest, Write, Advance, motion, motor
<1>4. ~misread' /\ ~astray' /\ OnTheLine'
  BY <1>1, <1>3 DEF PairInv, OnTheLine
<1>5. samples' # <<>> => request_state' # HOMING /\ state' # HOMING
  <2>1. Current.name = "Homing" => samples = <<>>
    BY <1>0, <1>2, Successor
  <2> QED BY <1>1, <1>2, <1>3, <2>1 DEF PairInv, HOMING, MOVEREL
<1>6. PICK x : x = Current.arg
  OBVIOUS
<1>7. Encoding => Asked(x)'
  <2>1. ASSUME Encoding PROVE request_state' = MOVEREL /\ count_TargetPos' = x
    BY <1>1, <1>2, <1>3, <1>6, <2>1 DEF Encoding, PairInv
  <2> QED BY <2>1 DEF Asked
<1> QED BY <1>0, <1>1, <1>2, <1>3, <1>4, <1>5, <1>6, <1>7, PairNextFunction DEF PairInv

LEMMA PairReadPosition ==
  ASSUME TypeInv, PairInv, faults' = 0, NEW outcome \in Outcomes, ReadPosition(outcome)
  PROVE  PairInv'
<1>0. Control /\ Readings
  BY DEF TypeInv
<1>1. outcome = "done" /\ faults = 0 /\ left # <<>> /\ Head(left) = "position"
  BY <1>0, NoFault DEF ReadPosition
<1>2. Len(left) # 1
  BY <1>0, <1>1, InFunction, Heads
<1>3. UNCHANGED <<state, request_state, home_done, slipped, opening, samples, misread,
                  astray, count_TargetPos, status_state>>
  BY DEF ReadPosition, driver, registers, motion, motor, history
<1>4. left' = Tail(left) /\ todo' = todo
  BY <1>2 DEF ReadPosition, Advance
<1> QED BY <1>0, <1>1, <1>2, <1>3, <1>4, PairGoesOn DEF PairInv

\* The pair pushed after the wait: the movement asked for has arrived.
LEMMA PairReadAnalog ==
  ASSUME TypeInv, SyncInv, PairInv, faults' = 0, NEW outcome \in Outcomes,
         ReadAnalog(outcome)
  PROVE  PairInv'
<1>0. Control /\ Readings
  BY DEF TypeInv
<1>1. outcome = "done" /\ faults = 0 /\ left # <<>> /\ Head(left) = "analog"
  BY <1>0, NoFault DEF ReadAnalog
<1>2. /\ Len(left) = 1 /\ todo # <<>>
      /\ Current.name \in {"GetMovePar", "CheckPositionEncoder", "Sample"}
  BY <1>0, <1>1, InFunction, Heads
<1>3. UNCHANGED <<state, request_state, home_done, slipped, opening, misread, astray,
                  count_TargetPos, status_state>>
  BY DEF ReadAnalog, driver, registers, motion, motor, history
<1>4. ~misread /\ ~astray /\ Quiet
  BY <1>1 DEF PairInv, SyncInv, InStep, AfterWait
<1>5. Quiet' /\ ~misread' /\ ~astray'
  BY <1>3, <1>4 DEF Quiet
<1>6. Begin(Tail(todo))
  <2>1. Advance
    BY <1>1, AnalogCases, Zenon
  <2> QED BY <1>2, <2>1 DEF Advance
<1>7. PICK x : x = Current.arg
  OBVIOUS
<1>8. ~Encoding
  BY <1>2 DEF Encoding
<1>9. OnTheLine'
  <2>1. CASE Current.name = "Sample"
    <3>1. samples' = Append(samples, [x |-> Current.arg, y |-> AnalogInput0])
      BY <1>1, <2>1, AnalogCases, Zenon
    <3>2. Asked(Current.arg)
      BY <1>1, <1>2, <2>1 DEF PairInv
    <3>3. home_done = 31 /\ ~slipped => opening = Current.arg
      BY <1>4, <3>2 DEF Asked, Quiet, MOVEREL
    <3>4. home_done = 31 /\ ~slipped => AnalogInput0 = Estimate(Current.arg)
      BY <3>3 DEF AnalogInput0, Estimate
    <3> DEFINE p == [x |-> Current.arg, y |-> AnalogInput0]
    <3>5. p.y = AnalogInput0 /\ p.x = Current.arg
      OBVIOUS
    <3>6. /\ Len(samples) \in Nat /\ Len(samples') = Len(samples) + 1
          /\ samples'[Len(samples) + 1] = p
          /\ \A i \in 1 .. Len(samples) : samples'[i] = samples[i]
      BY <1>0, <3>1 DEF Control
    <3> HIDE DEF p
    <3>7. SUFFICES ASSUME home_done = 31, ~slipped, NEW i \in 1 .. Len(samples')
                   PROVE  samples'[i].y = Estimate(samples'[i].x)
      BY <1>3 DEF OnTheLine, Estimate
    <3>8. CASE i = Len(samples) + 1
      BY <3>4, <3>5, <3>6, <3>7, <3>8
    <3>9. CASE i \in 1 .. Len(samples)
      <4>1. samples'[i] = samples[i]
        BY <3>6, <3>9
      <4>2. samples[i].y = Estimate(samples[i].x)
        BY <1>1, <3>7, <3>9 DEF PairInv, OnTheLine
      <4> QED BY <4>1, <4>2
    <3> QED BY <3>6, <3>8, <3>9
  <2>2. CASE Current.name # "Sample"
    <3>1. samples' = samples
      BY <2>2, AnalogCases, Zenon
    <3> QED BY <1>1, <1>3, <3>1 DEF PairInv, OnTheLine
  <2> QED BY <2>1, <2>2
<1>10. request_state' # HOMING /\ state' # HOMING
  BY <1>5 DEF Quiet, HOMING
<1> QED BY <1>0, <1>1, <1>2, <1>5, <1>6, <1>7, <1>8, <1>9, <1>10, PairNextFunction
        DEF PairInv

\* Only homing resets what the pairs rest on.
LEMMA DriverHistory ==
  ASSUME DriverTypeOK, Driver, state # HOMING
  PROVE  /\ home_done' = home_done /\ (slipped => slipped')
         /\ count_TargetPos' = count_TargetPos
<1>1. CASE Loop \/ initMov \/ checkRotation
  BY <1>1 DEF Loop, initMov, checkRotation, motion, motor, registers
<1>2. CASE stopMotor
  BY <1>2 DEF stopMotor, motor
<1>3. CASE checkMoveDone
  BY <1>3 DEF checkMoveDone
<1>4. CASE Rotate \/ Slip \/ Rest
  BY <1>4 DEF Rotate, Slip, Rest, registers, motion
<1> QED BY <1>1, <1>2, <1>3, <1>4 DEF Driver, Blocks

LEMMA DriverStates ==
  ASSUME Driver
  PROVE  request_state' \in {0, request_state} /\ state' \in {0, state, request_state}
<1>1. CASE Loop
  BY <1>1 DEF Loop
<1>2. CASE initMov \/ checkRotation \/ stopMotor \/ checkMoveDone
  BY <1>2 DEF initMov, checkRotation, stopMotor, checkMoveDone, registers
<1>3. CASE Rotate \/ Slip \/ Rest
  BY <1>3 DEF Rotate, Slip, Rest, registers
<1> QED BY <1>1, <1>2, <1>3 DEF Driver, Blocks

\* The movement asked for is accepted, executed and concluded at its target.
LEMMA AskedStays ==
  ASSUME CoreInStep, Travels, Driver, NEW x, Asked(x)
  PROVE  Asked(x)'
<1>0. DriverTypeOK /\ DriverInStep
  BY DEF CoreInStep
<1>1. CASE request_state = MOVEREL
  <2>1. state = 0 /\ status_state = 0 /\ state # HOMING
    BY <1>0, <1>1 DEF DriverInStep, RequestWaits, Phase, MOVEREL, HOMING
  <2>2. count_TargetPos' = x
    BY <1>0, <2>1, DriverHistory DEF Asked
  <2>3. CASE Loop
    <3>1. Accepts
      BY <1>0, <1>1, <2>1, AcceptsIs DEF MOVEREL
    <3>2. state' = MOVEREL
      BY <1>1, <2>3, <3>1 DEF Loop
    <3> QED BY <2>2, <3>2 DEF Asked
  <2>4. CASE ~Loop
    <3>1. request_state' = request_state
      BY <2>4 DEF Driver, Blocks, initMov, checkRotation, stopMotor, checkMoveDone,
                  Rotate, Slip, Rest, registers
    <3> QED BY <1>1, <2>2, <3>1 DEF Asked
  <2> QED BY <2>3, <2>4
<1>2. CASE state = MOVEREL
  <2>1. state # HOMING /\ state # 0
    BY <1>2 DEF MOVEREL, HOMING
  <2>2. count_TargetPos' = x /\ home_done' = home_done /\ (slipped => slipped')
    BY <1>0, <2>1, DriverHistory DEF Asked
  <2>3. CASE checkMoveDone /\ status_state = 3
    <3>1. /\ status_state' = 5 /\ state' = 0 /\ request_state' = request_state
          /\ opening' = opening
      BY <2>3 DEF checkMoveDone
    <3>2. request_state = 0
      BY <1>0, <2>3 DEF DriverInStep, RequestWaits
    <3>3. home_done = 31 /\ ~slipped => opening = x
      BY <1>2, <2>1, <2>3 DEF Travels, Moving, Calibrated, Asked
    <3> QED BY <2>2, <3>1, <3>2, <3>3 DEF Asked, Quiet
  <2>4. CASE ~(checkMoveDone /\ status_state = 3)
    <3>1. state' = state
      <4>1. CASE Loop
        <5>1. ~Accepts
          BY <1>0, <2>1, AcceptsIs DEF DriverInStep, Phase
        <5> QED BY <4>1, <5>1 DEF Loop
      <4>2. CASE checkMoveDone
        BY <2>4, <4>2 DEF checkMoveDone
      <4>3. CASE initMov \/ checkRotation \/ stopMotor \/ Rotate \/ Slip \/ Rest
        BY <4>3 DEF initMov, checkRotation, stopMotor, Rotate, Slip, Rest, registers
      <4> QED BY <4>1, <4>2, <4>3 DEF Driver, Blocks
    <3> QED BY <1>2, <2>2, <3>1 DEF Asked
  <2> QED BY <2>3, <2>4
<1>3. CASE Quiet /\ status_state = 5 /\ (home_done = 31 /\ ~slipped => opening = x)
  <2>1. state # HOMING
    BY <1>3 DEF Quiet, HOMING
  <2>2. count_TargetPos' = x /\ home_done' = home_done /\ (slipped => slipped')
    BY <1>0, <2>1, DriverHistory DEF Asked
  <2>3. UNCHANGED <<status_state, state, request_state>>
    BY <1>0, <1>3, StepDriver
  <2>4. opening' = opening
    <3>1. ~Commanded
      BY <1>0, <1>3 DEF DriverInStep, Powered, Commanded
    <3> QED BY <3>1 DEF Driver, Blocks, Loop, initMov, checkRotation, stopMotor,
                        checkMoveDone, Rotate, Slip, Rest, motor
  <2> QED BY <1>3, <2>2, <2>3, <2>4 DEF Asked, Quiet
<1> QED BY <1>1, <1>2, <1>3 DEF Asked

LEMMA PairDriver ==
  ASSUME TypeInv, SyncInv, MoveInv, PairInv, faults' = 0, DriverStep
  PROVE  PairInv'
<1>0. /\ Driver /\ DriverTypeOK /\ faults = 0
      /\ UNCHANGED <<todo, left, count, samples, misread, astray>>
  BY DEF DriverStep, TypeInv, server, history
<1>1. ~misread /\ ~astray /\ OnTheLine
      /\ (samples # <<>> => request_state # HOMING /\ state # HOMING)
  BY <1>0 DEF PairInv
<1>2. CoreInStep /\ DriverInStep /\ Travels
  BY <1>0, <1>1 DEF CoreInStep, SyncInv, InStep, DriverInStep, MoveInv, Travels
<1>3. samples # <<>> => request_state' # HOMING /\ state' # HOMING
  BY <1>0, <1>1, DriverStates DEF HOMING
<1>4. OnTheLine'
  <2>1. CASE samples = <<>>
    BY <1>0, <2>1 DEF OnTheLine
  <2>2. CASE samples # <<>>
    BY <1>0, <1>1, <2>2, DriverHistory DEF OnTheLine, Estimate
  <2> QED BY <2>1, <2>2
<1>5. Current' = Current /\ (Encoding' <=> Encoding)
  BY <1>0 DEF Current, Encoding
<1>6. Encoding' => Quiet' /\ (Head(left') = "wait" => count' = 0)
  <2>1. Encoding => Quiet /\ (Head(left) = "wait" => count = 0)
    BY <1>0 DEF PairInv
  <2>2. Quiet => Quiet'
    BY <1>0, <1>2, StepDriver DEF Quiet
  <2> QED BY <1>0, <1>5, <2>1, <2>2
<1>7. count_TargetPos' = count_TargetPos
  BY <1>0 DEF Driver, Blocks, Loop, initMov, checkRotation, stopMotor, checkMoveDone,
              Rotate, Slip, Rest, registers
<1>8. todo # <<>> /\ Current.name = "MoveTo" /\ Head(left) = "request" =>
        count_TargetPos = Current.arg
  BY <1>0 DEF PairInv
<1>9. PICK x : x = Current.arg
  OBVIOUS
<1>10. todo # <<>> /\ Current.name = "Sample"
         /\ (LIMITSTATUS_STATE # 0 \/ Head(left) # "wait") => Asked(x)
  BY <1>0, <1>9 DEF PairInv
<1>11. Asked(x) => Asked(x)'
  BY <1>0, <1>2, AskedStays
<1>12. Asked(x)' => Asked(Current.arg)'
  BY <1>5, <1>9 DEF Asked
<1> QED BY <1>0, <1>1, <1>3, <1>4, <1>5, <1>6, <1>7, <1>8, <1>10, <1>11, <1>12
        DEF PairInv

LEMMA PairNext ==
  ASSUME PromptFirmware
  PROVE  TypeInv /\ SyncInv /\ MoveInv /\ PairInv /\ [Next]_vars => PairInv'
<1> SUFFICES ASSUME TypeInv, SyncInv, MoveInv, PairInv, [Next]_vars, faults' = 0
             PROVE  PairInv'
  BY DEF PairInv
<1>1. CASE StartCommand
  BY <1>1, PairStart
<1>2. CASE Access
  BY <1>2, PairReadStatus, PairWrites, PairRequest, PairReadPosition, PairReadAnalog
     DEF Access
<1>3. CASE DriverStep
  BY <1>3, PairDriver
<1>4. CASE UNCHANGED vars
  BY <1>4 DEF vars, driver, registers, motion, motor, server, history, PairInv,
              OnTheLine, Encoding, Quiet, Current, Asked
<1> QED BY <1>1, <1>2, <1>3, <1>4 DEF Next

\* The pairs Encode collects on a homed slit lie on the line of its encoder as
\* long as no transaction fails: each is read when the movement asked for has
\* arrived, and none after the wait for it was given up (Encode and MoveTo
\* with checkRotation, stopMotor and checkMoveDone of the firmware).
THEOREM EncodePairsOnTheLine ==
  ASSUME PromptFirmware
  PROVE  Spec => []PairsOnTheLine
<1>1. Init => PairInv
  BY PairInit
<1>2. TypeInv /\ SyncInv /\ MoveInv /\ PairInv /\ [Next]_vars => PairInv'
  BY PairNext
<1>3. PairInv => PairsOnTheLine
  BY DEF PairInv, OnTheLine, PairsOnTheLine
<1> QED BY <1>1, <1>2, <1>3, MotionInvariant, PTL DEF Spec

==============================================================================

--------------------------- MODULE AssocCheckProofs ---------------------------
(***************************************************************************)
(* Proofs about the association checks, for any drivers, readings, log     *)
(* files, answers, disturbances and restarts: the numbers of the blocks in *)
(* a log file grow, the question compares the drivers with the file as it  *)
(* is, and what was accepted is what the scanner finds.                    *)
(***************************************************************************)
EXTENDS AssocCheck, WellFoundedInduction, TLAPS

ShownValues == Values \cup Drivers \cup {NotFound}
AllValues   == ShownValues \cup {MinusOne}

\* A line of a log file as the three functions write it.
Lines == [kind : Kinds \cup {"log"}, number : Nat, value : AllValues]

GoodLine(l) ==
  /\ l \in Lines
  /\ l.value = NotFound <=> l.kind = "log"
  /\ l.value = MinusOne => l.kind = "serial"

GoodFile(lines) == lines \in Seq(Lines) /\ \A i \in DOMAIN lines : GoodLine(lines[i])

Typed ==
  /\ exists \subseteq Kinds /\ log_file \in {"general", "serial", "par", "encoder"}
  /\ DOMAIN file = Kinds /\ \A k \in Kinds : GoodFile(file[k])
  /\ Paragorn \in [Kinds -> [Drivers -> ShownValues]]
  /\ Array \in [Kinds -> [Drivers -> AllValues]]
  /\ shown \in [Kinds -> [Drivers -> ShownValues]]
  /\ GeneralStatus \in [Kinds -> {0, 1}] /\ loaded \in BOOLEAN
  /\ asking \in Kinds \cup {"none"} /\ count \in 0 .. LIMITCHECKLOG - 1
  /\ writing \in Kinds \cup {"none"} /\ todo \subseteq {LogFileSetting, LogLine} \cup Drivers
  /\ writing = "none" <=> todo = {}
  /\ asking # "none" => writing = "none"
  /\ checks \in 0 .. MaxChecks /\ created \subseteq Kinds /\ cut \subseteq Kinds

\* A file that does not exist has no lines.
Absent == \A k \in Kinds : k \notin exists => file[k] = <<>>

\* The largest number of a file.
HasLast(lines) ==
  \E m \in LogNumbers(lines) \cup {-1} : \A n \in LogNumbers(lines) \cup {-1} : n <= m

\* How far a block is: LogFileSet comes first, then the line with the number,
\* then the rows; meanwhile the log file is that of the check or the general log.
InOrder ==
  writing # "none" =>
    /\ LogFileSetting \in todo => LogLine \in todo
    /\ LogFileSetting \notin todo =>
         /\ log_file \in {Target(writing), "general"}
         /\ Target(writing) \in Kinds => Target(writing) \in exists
    /\ todo \cap Drivers \subseteq Rows(writing)
    /\ LogLine \in todo => Rows(writing) \subseteq todo

\* A check that found no file has none until its block is begun.
Fresh ==
  \A k \in created : asking = k \/ (writing = k /\ LogLine \in todo) => file[k] = <<>>

\* With a file, the block is made of what the question showed.
AsShown ==
  \A k \in Kinds \ created : asking = k \/ writing = k => Paragorn[k] = shown[k]

IsLog(l) == l.kind = "log"

Worth(k, v) == v # NotFound /\ ~(k = "par" /\ v = VelHomeMinusOne)

\* The last block of a file begins at a place; it has the rows of all drivers
\* but those of a set, and no others.
BlockAt(lines, from, k, values, rest) ==
  /\ from \in DOMAIN lines /\ IsLog(lines[from]) /\ lines[from].number >= 1
  /\ \A i \in DOMAIN lines :
       /\ i < from /\ IsLog(lines[i]) => lines[i].number < lines[from].number
       /\ i > from /\ IsLog(lines[i]) => lines[i].number <= lines[from].number
       /\ i > from /\ lines[i].kind = k =>
            lines[i].number \in Drivers /\ lines[i].value = values[lines[i].number]
  /\ \A d \in Drivers \ rest : Worth(k, values[d]) =>
       \E i \in DOMAIN lines : i > from /\ lines[i].kind = k /\ lines[i].number = d

Rest(k) == IF writing = k THEN todo ELSE {}

Recorded ==
  \A k \in Kinds \ ({asking} \cup created \cup cut) :
    GeneralStatus[k] = 1 /\ LogLine \notin Rest(k) =>
      \E from \in DOMAIN file[k] : BlockAt(file[k], from, k, shown[k], Rest(k))

\* A value that a row of driver d gave, or what bzero left of it.
FromRow(lines, d, v) ==
  \/ v = NotFound
  \/ \E i \in DOMAIN lines :
       /\ lines[i].kind = "serial" /\ lines[i].number = d
       /\ v \in {lines[i].value, Kept(d, lines[i].value)}

\* The rows of the file that SerialNumberArrayTmp still holds.
Remembered ==
  /\ DOMAIN Tmp = Kinds
  /\ "serial" \in Kinds => \A d \in Drivers : FromRow(file["serial"], d, Tmp["serial"][d])

IInv ==
  /\ Typed /\ Absent /\ \A k \in Kinds : HasLast(file[k])
  /\ InOrder /\ Fresh /\ AsShown /\ Recorded /\ Remembered
  /\ LogNumbersGrow /\ ReportIsOfThisFile

------------------------------------------------------------------------------
(* Largest numbers. *)

\* A set of places that is not empty has a largest one.
LEMMA Greatest ==
  ASSUME NEW n \in Nat, NEW S, S \subseteq 1 .. n, S # {}
  PROVE  \E m \in S : \A x \in S : x <= m
<1> DEFINE T == {n - x : x \in S}
<1>1. T \subseteq Nat /\ T # {}
  <2>1. \A x \in S : n - x \in Nat
    OBVIOUS
  <2>2. PICK x \in S : TRUE
    OBVIOUS
  <2>3. n - x \in T
    BY <2>2
  <2> QED BY <2>1, <2>3
<1>2. \E t \in T : \A u \in T : <<u, t>> \notin OpToRel(<, Nat)
  BY <1>1, NatLessThanWellFounded, WFMin, Zenon
<1>3. PICK t \in T : \A u \in T : <<u, t>> \notin OpToRel(<, Nat)
  BY <1>2
<1>4. \A u \in T : ~(u < t)
  BY <1>1, <1>3 DEF OpToRel
<1>5. PICK m \in S : t = n - m
  OBVIOUS
<1>6. \A x \in S : x <= m
  BY <1>4, <1>5
<1> QED BY <1>6

LEMMA MaxIsGreatest ==
  ASSUME NEW S, S \subseteq Int, \E m \in S : \A x \in S : x <= m
  PROVE  Max(S) \in S /\ \A x \in S : x <= Max(S)
<1>1. \E m \in S : \A x \in S : m >= x
  OBVIOUS
<1>2. Max(S) \in S /\ \A x \in S : Max(S) >= x
  BY <1>1 DEF Max
<1> QED BY <1>2

\* The larger of two numbers.
LEMMA MaxOfTwo ==
  ASSUME NEW a \in Int, NEW b \in Int
  PROVE  Max({a, b}) = IF a >= b THEN a ELSE b
<1>1. \E m \in {a, b} : \A x \in {a, b} : x <= m
  OBVIOUS
<1>2. Max({a, b}) \in {a, b} /\ \A x \in {a, b} : x <= Max({a, b})
  BY <1>1, MaxIsGreatest, Zenon
<1> QED BY <1>2

------------------------------------------------------------------------------
(* The lines of a file. *)

\* None of the special values is a parameter or the number of a driver.
LEMMA SpecialValues ==
  /\ "log" \notin Kinds /\ "none" \notin Kinds /\ "general" \notin Kinds
  /\ NotFound \notin Values \cup Drivers /\ MinusOne \notin ShownValues
  /\ Drivers \subseteq Nat \ {0} /\ LogFileSetting \notin Drivers /\ LogLine \notin Drivers
<1>1. "log" \notin Kinds /\ "none" \notin Kinds /\ "general" \notin Kinds
  BY KindAssumption
<1>2. Drivers \subseteq Nat \ {0}
  BY DriverAssumption DEF Drivers
<1> QED BY <1>1, <1>2, ValueAssumption
        DEF NotFound, MinusOne, ShownValues, LogFileSetting, LogLine

LEMMA AppendFacts ==
  ASSUME NEW S, NEW lines \in Seq(S), NEW l \in S
  PROVE  /\ Append(lines, l) \in Seq(S)
         /\ DOMAIN lines = 1 .. Len(lines) /\ Len(lines) \in Nat
         /\ DOMAIN Append(lines, l) = 1 .. Len(lines) + 1
         /\ \A i \in DOMAIN lines : Append(lines, l)[i] = lines[i]
         /\ Append(lines, l)[Len(lines) + 1] = l
OBVIOUS

LEMMA AppendGood ==
  ASSUME NEW lines, GoodFile(lines), NEW l, GoodLine(l)
  PROVE  GoodFile(Append(lines, l))
<1>1. lines \in Seq(Lines) /\ l \in Lines /\ \A i \in DOMAIN lines : GoodLine(lines[i])
  BY DEF GoodFile, GoodLine
<1>2. /\ Append(lines, l) \in Seq(Lines)
      /\ DOMAIN lines = 1 .. Len(lines) /\ Len(lines) \in Nat
      /\ DOMAIN Append(lines, l) = 1 .. Len(lines) + 1
      /\ \A i \in DOMAIN lines : Append(lines, l)[i] = lines[i]
      /\ Append(lines, l)[Len(lines) + 1] = l
  BY <1>1, AppendFacts
<1>3. \A i \in DOMAIN Append(lines, l) : i \in DOMAIN lines \/ i = Len(lines) + 1
  BY <1>2
<1>4. \A i \in DOMAIN Append(lines, l) : GoodLine(Append(lines, l)[i])
  BY <1>1, <1>2, <1>3, Zenon
<1> QED BY <1>2, <1>4 DEF GoodFile

\* The numbers of a file are those of its "Log n" lines.
LEMMA NumbersAre ==
  ASSUME NEW lines, GoodFile(lines)
  PROVE  /\ LogNumbers(lines) \subseteq Nat
         /\ \A i \in DOMAIN lines : IsLog(lines[i]) => lines[i].number \in LogNumbers(lines)
         /\ \A n \in LogNumbers(lines) :
              \E i \in DOMAIN lines : IsLog(lines[i]) /\ lines[i].number = n
<1>1. \A i \in DOMAIN lines : lines[i] \in Lines
  BY DEF GoodFile, GoodLine
<1>2. \A i \in DOMAIN lines : lines[i].number \in Nat
  BY <1>1 DEF Lines
<1> QED BY <1>2 DEF LogNumbers, IsLog

LEMMA NoNumbers == LogNumbers(<<>>) = {} /\ HasLast(<<>>) /\ GoodFile(<<>>)
<1>1. LogNumbers(<<>>) = {}
  BY DEF LogNumbers
<1>2. HasLast(<<>>)
  BY <1>1 DEF HasLast
<1> QED BY <1>1, <1>2 DEF GoodFile

LEMMA AppendedNumbers ==
  ASSUME NEW lines, GoodFile(lines), NEW l, GoodLine(l)
  PROVE  LogNumbers(Append(lines, l)) =
           IF IsLog(l) THEN LogNumbers(lines) \cup {l.number} ELSE LogNumbers(lines)
<1> DEFINE all == Append(lines, l)
<1>1. lines \in Seq(Lines) /\ l \in Lines
  BY DEF GoodFile, GoodLine
<1>2. /\ DOMAIN all = DOMAIN lines \cup {Len(lines) + 1}
      /\ \A i \in DOMAIN lines : all[i] = lines[i]
      /\ all[Len(lines) + 1] = l
  BY <1>1, AppendFacts
<1>3. LogNumbers(all) =
        {all[i].number : i \in {j \in DOMAIN lines \cup {Len(lines) + 1} : IsLog(all[j])}}
  BY <1>2 DEF LogNumbers, IsLog
<1>4. LogNumbers(lines) = {lines[i].number : i \in {j \in DOMAIN lines : IsLog(lines[j])}}
  BY DEF LogNumbers, IsLog
<1> HIDE DEF all
<1>5. LogNumbers(all) \subseteq
        IF IsLog(l) THEN LogNumbers(lines) \cup {l.number} ELSE LogNumbers(lines)
  BY <1>2, <1>3, <1>4
<1>6. (IF IsLog(l) THEN LogNumbers(lines) \cup {l.number} ELSE LogNumbers(lines))
        \subseteq LogNumbers(all)
  BY <1>2, <1>3, <1>4
<1>7. LogNumbers(all) =
        IF IsLog(l) THEN LogNumbers(lines) \cup {l.number} ELSE LogNumbers(lines)
  BY <1>5, <1>6, Zenon
<1> QED BY <1>7 DEF all

\* A file that has a largest number keeps one.
LEMMA AppendHasLast ==
  ASSUME NEW lines, GoodFile(lines), HasLast(lines), NEW l, GoodLine(l)
  PROVE  HasLast(Append(lines, l))
<1> DEFINE old == LogNumbers(lines) \cup {-1}
           new == LogNumbers(Append(lines, l)) \cup {-1}
<1>1. old \subseteq Int /\ l.number \in Int
  <2>1. LogNumbers(lines) \subseteq Nat
    BY NumbersAre
  <2>2. l.number \in Nat
    BY DEF GoodLine, Lines
  <2> QED BY <2>1, <2>2
<1>2. new = old \/ new = old \cup {l.number}
  BY AppendedNumbers
<1>3. PICK m \in old : \A n \in old : n <= m
  BY DEF HasLast
<1> HIDE DEF old, new
<1>4. \E x \in new : \A n \in new : n <= x
  <2>1. CASE new = old
    BY <1>3, <2>1
  <2>2. CASE new = old \cup {l.number} /\ l.number <= m
    BY <1>1, <1>3, <2>2
  <2>3. CASE new = old \cup {l.number} /\ ~(l.number <= m)
    <3>1. \A n \in new : n <= l.number
      BY <1>1, <1>3, <2>3
    <3> QED BY <3>1, <2>3
  <2> QED BY <1>2, <2>1, <2>2, <2>3, Zenon
<1> QED BY <1>4 DEF HasLast, new

\* What LastLog finds, and the number of the block after it.
LEMMA LastLogIs ==
  ASSUME NEW lines, GoodFile(lines), HasLast(lines)
  PROVE  /\ LastLog(lines) \in LogNumbers(lines) \cup {-1}
         /\ LastLog(lines) \in Int
         /\ \A n \in LogNumbers(lines) : n <= LastLog(lines)
<1>1. LogNumbers(lines) \cup {-1} \subseteq Int
  <2>1. LogNumbers(lines) \subseteq Nat
    BY NumbersAre
  <2> QED BY <2>1
<1>2. /\ LastLog(lines) \in LogNumbers(lines) \cup {-1}
      /\ \A n \in LogNumbers(lines) \cup {-1} : n <= LastLog(lines)
  BY <1>1, MaxIsGreatest DEF HasLast, LastLog
<1> QED BY <1>1, <1>2

LEMMA NextLogIs ==
  ASSUME NEW k \in Kinds, GoodFile(file[k]), HasLast(file[k])
  PROVE  /\ NextLog(k) \in Nat \ {0}
         /\ k \in created => NextLog(k) = 1
         /\ k \notin created => \A n \in LogNumbers(file[k]) : n < NextLog(k)
<1>1. LastLog(file[k]) \in Int /\ \A n \in LogNumbers(file[k]) : n <= LastLog(file[k])
  BY LastLogIs
<1>2. LogNumbers(file[k]) \subseteq Nat
  BY NumbersAre
<1>3. max_log(k) = IF LastLog(file[k]) >= 0 THEN LastLog(file[k]) ELSE 0
  BY <1>1, MaxOfTwo DEF max_log
<1>4. max_log(k) \in Nat /\ \A n \in LogNumbers(file[k]) : n <= max_log(k)
  BY <1>1, <1>2, <1>3
<1>5. NextLog(k) = IF k \in created THEN 1 ELSE max_log(k) + 1
  BY DEF NextLog
<1> QED BY <1>2, <1>4, <1>5

------------------------------------------------------------------------------
(* A block as it is written. *)

\* The line with a number larger than all before begins a block.
LEMMA BlockBegins ==
  ASSUME NEW lines, GoodFile(lines), NEW n \in Nat \ {0}, NEW k \in Kinds,
         \A m \in LogNumbers(lines) : m < n,
         GoodLine(Log(n)), NEW values, NEW rest,
         \A d \in Drivers : Worth(k, values[d]) => d \in rest
  PROVE  BlockAt(Append(lines, Log(n)), Len(lines) + 1, k, values, rest)
<1> DEFINE all == Append(lines, Log(n))
           from == Len(lines) + 1
<1>1. lines \in Seq(Lines) /\ Log(n) \in Lines
  BY DEF GoodFile, GoodLine
<1>2. /\ DOMAIN lines = 1 .. Len(lines) /\ Len(lines) \in Nat
      /\ DOMAIN all = 1 .. from
      /\ \A i \in DOMAIN lines : all[i] = lines[i]
      /\ all[from] = Log(n)
  BY <1>1, AppendFacts
<1>3. IsLog(all[from]) /\ all[from].number = n
  BY <1>2 DEF IsLog, Log
<1>4. \A i \in DOMAIN lines : IsLog(lines[i]) => lines[i].number < n
  BY NumbersAre, Zenon
<1> HIDE DEF all
<1>5. from \in DOMAIN all /\ all[from].number >= 1
  BY <1>2, <1>3
<1>6. ASSUME NEW i \in DOMAIN all
      PROVE  /\ i < from /\ IsLog(all[i]) => all[i].number < all[from].number
             /\ ~(i > from)
  <2>1. i \in 1 .. from
    BY <1>2
  <2>2. ~(i > from) /\ (i < from => i \in DOMAIN lines)
    BY <1>2, <2>1
  <2> QED BY <1>2, <1>3, <1>4, <2>2
<1>7. \A d \in Drivers \ rest : ~Worth(k, values[d])
  OBVIOUS
<1>8. BlockAt(all, from, k, values, rest)
  BY <1>3, <1>5, <1>6, <1>7 DEF BlockAt
<1> QED BY <1>8 DEF all

\* The row of a driver adds to it.
LEMMA BlockGrows ==
  ASSUME NEW lines, GoodFile(lines), NEW k \in Kinds, NEW values, NEW rest,
         NEW from \in DOMAIN lines, BlockAt(lines, from, k, values, rest),
         NEW d \in Drivers, GoodLine(Row(k, d, values[d]))
  PROVE  BlockAt(Append(lines, Row(k, d, values[d])), from, k, values, rest \ {d})
<1> DEFINE all == Append(lines, Row(k, d, values[d]))
           last == Len(lines) + 1
<1>1. lines \in Seq(Lines) /\ Row(k, d, values[d]) \in Lines
  BY DEF GoodFile, GoodLine
<1>2. /\ DOMAIN lines = 1 .. Len(lines) /\ Len(lines) \in Nat
      /\ DOMAIN all = 1 .. last
      /\ \A i \in DOMAIN lines : all[i] = lines[i]
      /\ all[last] = Row(k, d, values[d])
  BY <1>1, AppendFacts
<1>3. all[last].kind = k /\ all[last].number = d /\ all[last].value = values[d]
  BY <1>2 DEF Row
<1>4. ~IsLog(all[last])
  BY <1>3, SpecialValues DEF IsLog
<1> HIDE DEF all
<1>5. from \in DOMAIN all /\ last \in DOMAIN all /\ last > from /\ all[from] = lines[from]
  BY <1>2
<1>6. ASSUME NEW i \in DOMAIN all
      PROVE  i = last \/ (i \in DOMAIN lines /\ all[i] = lines[i])
  <2>1. i = last \/ i \in DOMAIN lines
    BY <1>2
  <2> QED BY <1>2, <2>1
<1>7. ASSUME NEW i \in DOMAIN all
      PROVE  /\ i < from /\ IsLog(all[i]) => all[i].number < all[from].number
             /\ i > from /\ IsLog(all[i]) => all[i].number <= all[from].number
             /\ i > from /\ all[i].kind = k =>
                  all[i].number \in Drivers /\ all[i].value = values[all[i].number]
  <2>1. CASE i = last
    BY <1>3, <1>4, <2>1, Zenon, <1>5
  <2>2. CASE i \in DOMAIN lines /\ all[i] = lines[i]
    BY <1>5, <2>2, Zenon DEF BlockAt
  <2> QED BY <1>6, <2>1, <2>2, Zenon
<1>8. ASSUME NEW e \in Drivers \ (rest \ {d}), Worth(k, values[e])
      PROVE  \E i \in DOMAIN all : i > from /\ all[i].kind = k /\ all[i].number = e
  <2>1. CASE e = d
    BY <1>3, <1>5, <2>1
  <2>2. CASE e # d
    <3>1. PICK i \in DOMAIN lines : i > from /\ lines[i].kind = k /\ lines[i].number = e
      BY <1>8, <2>2 DEF BlockAt
    <3>2. i \in DOMAIN all /\ all[i] = lines[i]
      BY <1>2
    <3> QED BY <3>1, <3>2
  <2> QED BY <2>1, <2>2
<1>9. IsLog(all[from]) /\ all[from].number >= 1
  BY <1>5 DEF BlockAt
<1>10. BlockAt(all, from, k, values, rest \ {d})
  BY <1>5, <1>7, <1>8, <1>9, Zenon DEF BlockAt
<1> QED BY <1>10 DEF all

\* A line of another check leaves it as it is.
LEMMA BlockStays ==
  ASSUME NEW lines, GoodFile(lines), NEW k \in Kinds, NEW values, NEW rest,
         NEW from \in DOMAIN lines, BlockAt(lines, from, k, values, rest),
         NEW l, GoodLine(l), l.kind # k, IsLog(l) => l.number <= 1
  PROVE  BlockAt(Append(lines, l), from, k, values, rest)
<1> DEFINE all == Append(lines, l)
           last == Len(lines) + 1
<1>1. lines \in Seq(Lines) /\ l \in Lines
  BY DEF GoodFile, GoodLine
<1>2. /\ DOMAIN lines = 1 .. Len(lines) /\ Len(lines) \in Nat
      /\ DOMAIN all = 1 .. last
      /\ \A i \in DOMAIN lines : all[i] = lines[i]
      /\ all[last] = l
  BY <1>1, AppendFacts
<1>3. lines[from] \in Lines /\ l.number \in Nat /\ lines[from].number \in Nat
  BY <1>1 DEF GoodFile, GoodLine, Lines
<1>4. IsLog(lines[from]) /\ lines[from].number >= 1
  BY DEF BlockAt
<1> HIDE DEF all
<1>5. from \in DOMAIN all /\ last > from /\ ~(last < from) /\ all[from] = lines[from]
  BY <1>2
<1>6. ASSUME NEW i \in DOMAIN all
      PROVE  i = last \/ (i \in DOMAIN lines /\ all[i] = lines[i])
  <2>1. i = last \/ i \in DOMAIN lines
    BY <1>2
  <2> QED BY <1>2, <2>1
<1>7. ASSUME NEW i \in DOMAIN all
      PROVE  /\ i < from /\ IsLog(all[i]) => all[i].number < all[from].number
             /\ i > from /\ IsLog(all[i]) => all[i].number <= all[from].number
             /\ i > from /\ all[i].kind = k =>
                  all[i].number \in Drivers /\ all[i].value = values[all[i].number]
  <2>1. CASE i = last
    <3>1. IsLog(l) => l.number <= lines[from].number
      BY <1>3, <1>4
    <3> QED BY <1>2, <1>5, <2>1, <3>1, Zenon
  <2>2. CASE i \in DOMAIN lines /\ all[i] = lines[i]
    BY <1>5, <2>2, Zenon DEF BlockAt
  <2> QED BY <1>6, <2>1, <2>2, Zenon
<1>8. ASSUME NEW e \in Drivers \ rest, Worth(k, values[e])
      PROVE  \E i \in DOMAIN all : i > from /\ all[i].kind = k /\ all[i].number = e
  <2>1. PICK i \in DOMAIN lines : i > from /\ lines[i].kind = k /\ lines[i].number = e
    BY <1>8 DEF BlockAt
  <2>2. i \in DOMAIN all /\ all[i] = lines[i]
    BY <1>2
  <2> QED BY <2>1, <2>2
<1>9. BlockAt(all, from, k, values, rest)
  BY <1>4, <1>5, <1>7, <1>8, Zenon DEF BlockAt
<1> QED BY <1>9 DEF all

------------------------------------------------------------------------------
(* What the scanner finds. *)

LEMMA LargestPlace ==
  ASSUME NEW lines, GoodFile(lines), NEW S, S \subseteq DOMAIN lines, S # {}
  PROVE  Max(S) \in S
<1>1. lines \in Seq(Lines)
  BY DEF GoodFile
<1>2. Len(lines) \in Nat /\ DOMAIN lines = 1 .. Len(lines)
  BY <1>1
<1>3. S \subseteq Int
  BY <1>2
<1>4. \E m \in S : \A x \in S : x <= m
  BY <1>2, Greatest
<1> QED BY <1>3, <1>4, MaxIsGreatest

\* The rows taken are those after the last block began.
LEMMA RowsFound ==
  ASSUME NEW lines, GoodFile(lines), HasLast(lines), NEW k \in Kinds, NEW values,
         NEW from \in DOMAIN lines, BlockAt(lines, from, k, values, {})
  PROVE  FromLastLog(lines, k) = {i \in DOMAIN lines : i > from /\ lines[i].kind = k}
<1> DEFINE n == lines[from].number
<1>1. lines \in Seq(Lines)
  BY DEF GoodFile
<1>2. DOMAIN lines \subseteq Int
  BY <1>1
<1>3. \A i \in DOMAIN lines : lines[i] \in Lines /\ lines[i].number \in Nat
  BY DEF GoodFile, GoodLine, Lines
<1>4. IsLog(lines[from])
  BY DEF BlockAt
<1>5. n \in LogNumbers(lines)
  BY <1>4, NumbersAre
<1>6. \A m \in LogNumbers(lines) : m <= n
  <2>1. ASSUME NEW m \in LogNumbers(lines)
        PROVE  m <= n
    <3>1. PICK i \in DOMAIN lines : IsLog(lines[i]) /\ lines[i].number = m
      BY NumbersAre
    <3>2. i < from \/ i = from \/ i > from
      BY <1>2
    <3>3. m < n \/ m <= n \/ m = n
      BY <3>1, <3>2, Zenon DEF BlockAt
    <3>4. m \in Nat /\ n \in Nat
      BY <1>3, <3>1
    <3> QED BY <3>3, <3>4
  <2> QED BY <2>1
<1>7. LastLog(lines) = n
  <2>1. /\ LastLog(lines) \in LogNumbers(lines) \cup {-1} /\ LastLog(lines) \in Int
        /\ \A m \in LogNumbers(lines) : m <= LastLog(lines)
    BY LastLogIs
  <2>2. n \in Nat /\ n <= LastLog(lines)
    BY <1>3, <1>5, <2>1
  <2>3. LastLog(lines) \in LogNumbers(lines)
    BY <2>1, <2>2
  <2> QED BY <1>6, <2>1, <2>2, <2>3
<1>8. lines[from] = Log(n)
  <2>1. lines[from] \in Lines /\ lines[from].kind = "log" /\ lines[from].value = NotFound
    BY <1>4 DEF GoodFile, GoodLine, IsLog
  <2> QED BY <2>1 DEF Lines, Log, NotFound
<1>9. ASSUME NEW j \in DOMAIN lines, lines[j] = Log(n)
      PROVE  ~(j < from)
  <2>1. IsLog(lines[j]) /\ lines[j].number = n
    BY <1>9 DEF Log, IsLog
  <2>2. j < from => n < n
    BY <2>1, Zenon DEF BlockAt
  <2>3. n \in Nat
    BY <1>3
  <2> QED BY <2>2, <2>3
<1> HIDE DEF n
<1>10. FromLastLog(lines, k) =
         {i \in DOMAIN lines :
            lines[i].kind = k /\ \E j \in DOMAIN lines : j < i /\ lines[j] = Log(n)}
  BY <1>7 DEF FromLastLog
<1>11. ASSUME NEW i \in DOMAIN lines
       PROVE  (\E j \in DOMAIN lines : j < i /\ lines[j] = Log(n)) <=> i > from
  BY <1>2, <1>8, <1>9
<1> QED BY <1>10, <1>11

\* Of a complete block every driver is found as it was shown.
LEMMA BlockIsFound ==
  ASSUME NEW lines, GoodFile(lines), HasLast(lines), NEW k \in Kinds, NEW values,
         NEW from \in DOMAIN lines, BlockAt(lines, from, k, values, {}), NEW d \in Drivers
  PROVE  \/ Reordered(lines, FromLastLog(lines, k), NothingShown)[d] = values[d]
         \/ k = "par" /\ values[d] = VelHomeMinusOne
<1> DEFINE rows == FromLastLog(lines, k)
           own == {i \in rows : lines[i].number = d}
           found == Reordered(lines, rows, NothingShown)[d]
<1>1. found = IF own = {} THEN NotFound ELSE lines[Max(own)].value
  BY DEF Reordered, NothingShown
<1>2. rows = {i \in DOMAIN lines : i > from /\ lines[i].kind = k}
  BY RowsFound
<1> HIDE DEF rows
<1>3. own \subseteq DOMAIN lines
  BY <1>2
<1>4. CASE own = {}
  <2>1. ~ \E i \in DOMAIN lines : i > from /\ lines[i].kind = k /\ lines[i].number = d
    BY <1>2, <1>4
  <2>2. ~Worth(k, values[d])
    BY <2>1, Zenon DEF BlockAt
  <2>3. found = NotFound
    BY <1>1, <1>4
  <2> QED BY <2>2, <2>3 DEF Worth, rows
<1>5. CASE own # {}
  <2>1. Max(own) \in own
    BY <1>3, <1>5, LargestPlace
  <2>2. found = lines[Max(own)].value
    BY <1>1, <1>5
  <2> DEFINE i == Max(own)
  <2>3. i \in DOMAIN lines /\ i > from /\ lines[i].kind = k /\ lines[i].number = d
    BY <1>2, <2>1
  <2>4. lines[i].value = values[d]
    BY <2>3, Zenon DEF BlockAt
  <2> QED BY <2>2, <2>4 DEF rows
<1> QED BY <1>4, <1>5

LEMMA ScanIs ==
  ASSUME NEW k \in Kinds
  PROVE  Scan(k) = FromLastLog(file[k], k)
<1>1. k \in {"serial", "par", "encoder"}
  BY KindAssumption
<1> QED BY <1>1 DEF Scan, Analizza1, AnalizzaFilePar, AnalizzaFileEncoder

\* To clear an entry again changes nothing.
LEMMA KeptTwice ==
  ASSUME NEW d \in Drivers, NEW v \in Int
  PROVE  Kept(d, Kept(d, v)) = Kept(d, v) /\ Kept(d, NotFound) = NotFound
<1> DEFINE bytes == MAXIMUM_DRIVER - 4 * (d - 1)
<1>1. bytes \in Int
  BY DriverAssumption DEF Drivers
<1>2. \A x : Kept(d, x) = CASE bytes >= 4 -> NotFound
                             [] bytes = 3  -> (x \div 16777216) * 16777216
                             [] bytes = 2  -> (x \div 65536) * 65536
                             [] bytes = 1  -> (x \div 256) * 256
                             [] OTHER      -> x
  BY DEF Kept
<1> HIDE DEF bytes
<1>3. CASE bytes >= 4
  BY <1>1, <1>2, <1>3 DEF NotFound
<1>4. CASE bytes = 3
  BY <1>1, <1>2, <1>4 DEF NotFound
<1>5. CASE bytes = 2
  BY <1>1, <1>2, <1>5 DEF NotFound
<1>6. CASE bytes = 1
  BY <1>1, <1>2, <1>6 DEF NotFound
<1>7. CASE bytes <= 0
  BY <1>1, <1>2, <1>7 DEF NotFound
<1> QED BY <1>1, <1>3, <1>4, <1>5, <1>6, <1>7

\* What CheckDrvAssoc holds for a driver is its row of the last block, or, if
\* it has none there, what bzero leaves of an earlier row.
LEMMA SerialsAre ==
  ASSUME NEW lines, GoodFile(lines), NEW array, NEW d \in Drivers,
         FromRow(lines, d, array[d])
  PROVE  LET scan  == FromLastLog(lines, "serial")
             found == Reordered(lines, scan, BzeroedSerials(array))[d]
             last  == Reordered(lines, scan, NothingShown)[d]
         IN  /\ FromRow(lines, d, found)
             /\ \/ found = last
                \/ /\ last = NotFound
                   /\ \E i \in DOMAIN lines :
                        /\ lines[i].kind = "serial" /\ lines[i].number = d
                        /\ found = Kept(d, lines[i].value)
<1> DEFINE scan  == FromLastLog(lines, "serial")
           own   == {i \in scan : lines[i].number = d}
           found == Reordered(lines, scan, BzeroedSerials(array))[d]
           last  == Reordered(lines, scan, NothingShown)[d]
<1>1. /\ found = IF own = {} THEN Kept(d, array[d]) ELSE lines[Max(own)].value
      /\ last = IF own = {} THEN NotFound ELSE lines[Max(own)].value
  BY DEF Reordered, BzeroedSerials, NothingShown
<1>2. own \subseteq DOMAIN lines
      /\ \A i \in own : lines[i].kind = "serial" /\ lines[i].number = d
  BY DEF FromLastLog
<1>3. \A i \in DOMAIN lines : lines[i].value \in Int
  <2>1. AllValues \subseteq Int
    BY SpecialValues, ValueAssumption DEF AllValues, ShownValues, NotFound, MinusOne
  <2> QED BY <2>1 DEF GoodFile, GoodLine, Lines
<1> HIDE DEF scan, own, found, last
<1>4. CASE own = {}
  <2>1. found = Kept(d, array[d]) /\ last = NotFound
    BY <1>1, <1>4
  <2>2. CASE array[d] = NotFound
    <3>1. 0 \in Int
      OBVIOUS
    <3>2. found = NotFound
      BY <2>1, <2>2, <3>1, KeptTwice
    <3> QED BY <2>1, <3>2, Zenon DEF FromRow, found, last, scan
  <2>3. CASE array[d] # NotFound
    <3>1. PICK i \in DOMAIN lines :
            /\ lines[i].kind = "serial" /\ lines[i].number = d
            /\ array[d] \in {lines[i].value, Kept(d, lines[i].value)}
      BY <2>3 DEF FromRow
    <3>2. found = Kept(d, lines[i].value)
      BY <1>3, <2>1, <3>1, KeptTwice
    <3> QED BY <2>1, <3>1, <3>2, Zenon DEF FromRow, found, last, scan
  <2> QED BY <2>2, <2>3
<1>5. CASE own # {}
  <2>1. Max(own) \in own
    BY <1>2, <1>5, LargestPlace
  <2>2. found = lines[Max(own)].value /\ last = found
    BY <1>1, <1>5
  <2>3. Max(own) \in DOMAIN lines
        /\ lines[Max(own)].kind = "serial" /\ lines[Max(own)].number = d
    BY <1>2, <2>1
  <2> QED BY <2>2, <2>3, Zenon DEF FromRow, found, last, scan
<1> QED BY <1>4, <1>5

------------------------------------------------------------------------------
(* The start, and a restart. *)

\* The file that may be there: a block with the rows of all drivers.
LEMMA FirstFile ==
  ASSUME NEW k \in Kinds
  PROVE  /\ GoodFile(FirstBlock(k)) /\ HasLast(FirstBlock(k))
         /\ \A i, j \in DOMAIN FirstBlock(k) : i < j => FirstBlock(k)[j].kind # "log"
<1> DEFINE lines == FirstBlock(k)
           row(d) == Row(k, d, Usual(k, d))
           rows == [d \in Drivers |-> row(d)]
<1>1. Drivers \subseteq Nat \ {0} /\ 1 \in Drivers /\ k # "log" /\ NotFound \notin Drivers
  BY SpecialValues, DriverAssumption DEF Drivers
<1>2. GoodLine(Log(1))
  <2>1. NotFound \in AllValues
    BY DEF AllValues, ShownValues
  <2> QED BY <2>1 DEF GoodLine, Log, Lines, NotFound, MinusOne
<1>3. ASSUME NEW d \in Drivers
      PROVE  GoodLine(row(d)) /\ row(d).kind # "log"
  <2>1. Usual(k, d) \in Drivers
    BY <1>1 DEF Usual
  <2>2. Usual(k, d) \in AllValues /\ Usual(k, d) # NotFound /\ Usual(k, d) # MinusOne
    BY <1>1, <2>1 DEF AllValues, ShownValues, MinusOne
  <2> QED BY <1>1, <2>2 DEF GoodLine, Row, Lines
<1>4. Log(1) \in Lines /\ rows \in [Drivers -> Lines]
  BY <1>2, <1>3 DEF GoodLine
<1> HIDE DEF row
<1>5. /\ lines \in Seq(Lines) /\ DOMAIN lines = 1 .. MAXIMUM_DRIVER + 1
      /\ lines[1] = Log(1)
      /\ \A i \in DOMAIN lines : i # 1 => i - 1 \in Drivers /\ lines[i] = row(i - 1)
  <2>1. rows \in Seq(Lines) /\ Len(rows) = MAXIMUM_DRIVER
    BY <1>4, DriverAssumption DEF Drivers
  <2>2. lines = <<Log(1)>> \o rows
    BY DEF FirstBlock, row
  <2>3. \A d \in Drivers : rows[d] = row(d)
    OBVIOUS
  <2> HIDE DEF lines, rows
  <2>4. lines \in Seq(Lines) /\ Len(lines) = MAXIMUM_DRIVER + 1 /\ lines[1] = Log(1)
        /\ \A i \in 2 .. MAXIMUM_DRIVER + 1 : lines[i] = rows[i - 1]
    BY <1>4, <2>1, <2>2, DriverAssumption
  <2>5. DOMAIN lines = 1 .. MAXIMUM_DRIVER + 1
    BY <2>4
  <2>6. \A i \in DOMAIN lines : i # 1 => i - 1 \in Drivers /\ i \in 2 .. MAXIMUM_DRIVER + 1
    BY <2>5, DriverAssumption DEF Drivers
  <2> QED BY <2>3, <2>4, <2>5, <2>6
<1> HIDE DEF lines
<1>6. \A i \in DOMAIN lines : GoodLine(lines[i]) /\ (i # 1 => lines[i].kind # "log")
  BY <1>2, <1>3, <1>5
<1>7. GoodFile(lines)
  BY <1>5, <1>6 DEF GoodFile
<1>8. LogNumbers(lines) = {1}
  <2>1. 1 \in DOMAIN lines /\ lines[1].kind = "log" /\ lines[1].number = 1
    BY <1>5, DriverAssumption DEF Log
  <2> QED BY <1>6, <2>1 DEF LogNumbers
<1>9. HasLast(lines)
  BY <1>8 DEF HasLast
<1>10. \A i, j \in DOMAIN lines : i < j => lines[j].kind # "log"
  <2>1. ASSUME NEW i \in DOMAIN lines, NEW j \in DOMAIN lines, i < j
        PROVE  j # 1
    BY <1>5, <2>1, DriverAssumption
  <2> QED BY <1>6, <2>1
<1> QED BY <1>7, <1>9, <1>10 DEF lines

LEMMA StartTyped ==
  ASSUME Init
  PROVE  Typed
<1>1. exists \subseteq Kinds /\ log_file \in {"general", "serial", "par", "encoder"}
  BY FileAssumption DEF Init
<1>2. DOMAIN file = Kinds /\ \A k \in Kinds : GoodFile(file[k])
  BY FirstFile, NoNumbers DEF Init
<1>3. /\ Paragorn \in [Kinds -> [Drivers -> ShownValues]]
      /\ Array \in [Kinds -> [Drivers -> AllValues]]
      /\ shown \in [Kinds -> [Drivers -> ShownValues]]
  BY DEF Init, Everywhere, AllValues, ShownValues
<1>4. /\ GeneralStatus \in [Kinds -> {0, 1}] /\ loaded \in BOOLEAN
      /\ asking \in Kinds \cup {"none"} /\ count \in 0 .. LIMITCHECKLOG - 1
      /\ writing \in Kinds \cup {"none"}
      /\ todo \subseteq {LogFileSetting, LogLine} \cup Drivers
      /\ writing = "none" <=> todo = {}
      /\ asking # "none" => writing = "none"
      /\ checks \in 0 .. MaxChecks /\ created \subseteq Kinds /\ cut \subseteq Kinds
  <2>1. 0 \in 0 .. LIMITCHECKLOG - 1 /\ 0 \in 0 .. MaxChecks
    BY CheckAssumption
  <2> QED BY <2>1, Zenon DEF Init
<1> QED BY <1>1, <1>2, <1>3, <1>4 DEF Typed

LEMMA Start ==
  ASSUME Init
  PROVE  IInv
<1>1. Typed
  BY StartTyped
<1>2. Absent
  BY DEF Init, Absent
<1>3. \A k \in Kinds : HasLast(file[k])
  BY FirstFile, NoNumbers DEF Init
<1>4. InOrder /\ Fresh /\ AsShown
  BY SpecialValues DEF Init, InOrder, Fresh, AsShown
<1>5. Recorded
  BY DEF Init, Recorded
<1>6. LogNumbersGrow
  <2>1. ASSUME NEW k \in Kinds, NEW i \in DOMAIN file[k], NEW j \in DOMAIN file[k],
               i < j, file[k][j].kind = "log"
        PROVE  FALSE
    <3>1. file[k] = FirstBlock(k) \/ file[k] = <<>>
      BY DEF Init
    <3>2. CASE file[k] = <<>>
      BY <3>2
    <3>3. CASE file[k] = FirstBlock(k)
      BY <2>1, <3>3, FirstFile
    <3> QED BY <3>1, <3>2, <3>3
  <2> QED BY <2>1 DEF LogNumbersGrow
<1>7. ReportIsOfThisFile
  BY DEF Init, ReportIsOfThisFile
<1>8. Remembered
  BY DEF Init, Everywhere, Remembered, FromRow
<1> QED BY <1>1, <1>2, <1>3, <1>4, <1>5, <1>6, <1>7, <1>8 DEF IInv

\* The lines of the files stay.
LEMMA FilesSame ==
  ASSUME IInv, UNCHANGED file
  PROVE  /\ DOMAIN file' = Kinds /\ \A k \in Kinds : GoodFile(file'[k]) /\ HasLast(file'[k])
         /\ LogNumbersGrow'
<1>1. DOMAIN file' = Kinds /\ \A k \in Kinds : GoodFile(file'[k]) /\ HasLast(file'[k])
  BY DEF IInv, Typed
<1>2. LogNumbersGrow'
  BY DEF IInv, LogNumbersGrow
<1> QED BY <1>1, <1>2

LEMMA RestartKeeps ==
  ASSUME IInv, Restart
  PROVE  IInv'
<1>1. /\ DOMAIN file' = Kinds /\ \A k \in Kinds : GoodFile(file'[k]) /\ HasLast(file'[k])
      /\ LogNumbersGrow'
  BY FilesSame DEF Restart
<1>2. Typed'
  <2>1. exists' \subseteq Kinds /\ log_file' \in {"general", "serial", "par", "encoder"}
    BY DEF Restart, IInv, Typed
  <2>2. /\ Paragorn' \in [Kinds -> [Drivers -> ShownValues]]
        /\ Array' \in [Kinds -> [Drivers -> AllValues]]
        /\ shown' \in [Kinds -> [Drivers -> ShownValues]]
    BY DEF Restart, Everywhere, AllValues, ShownValues
  <2>3. /\ GeneralStatus' \in [Kinds -> {0, 1}] /\ loaded' \in BOOLEAN
        /\ asking' \in Kinds \cup {"none"} /\ count' \in 0 .. LIMITCHECKLOG - 1
        /\ writing' \in Kinds \cup {"none"}
        /\ todo' \subseteq {LogFileSetting, LogLine} \cup Drivers
        /\ writing' = "none" <=> todo' = {}
        /\ asking' # "none" => writing' = "none"
        /\ checks' \in 0 .. MaxChecks /\ created' \subseteq Kinds /\ cut' \subseteq Kinds
    <3>1. 0 \in 0 .. LIMITCHECKLOG - 1
      BY CheckAssumption
    <3> QED BY <3>1, Zenon DEF Restart, IInv, Typed
  <2> QED BY <1>1, <2>1, <2>2, <2>3 DEF Typed
<1>3. Absent'
  BY DEF Restart, IInv, Absent
<1>4. InOrder' /\ Fresh' /\ AsShown'
  BY SpecialValues DEF Restart, InOrder, Fresh, AsShown
<1>5. Recorded'
  BY DEF Restart, Recorded
<1>6. ReportIsOfThisFile'
  BY DEF Restart, ReportIsOfThisFile
<1>7. Remembered'
  BY DEF Restart, Everywhere, Remembered, FromRow
<1> QED BY <1>1, <1>2, <1>3, <1>4, <1>5, <1>6, <1>7 DEF IInv

------------------------------------------------------------------------------
(* Steps that write no line and ask nothing. *)

LEMMA RecordedSame ==
  ASSUME Recorded,
         UNCHANGED <<file, shown, asking, created, cut, GeneralStatus, writing, todo>>
  PROVE  Recorded'
BY DEF Recorded, Rest

LEMMA RememberedSame ==
  ASSUME Remembered, UNCHANGED <<file, Tmp>>
  PROVE  Remembered'
BY DEF Remembered

LEMMA ReportSame ==
  ASSUME ReportIsOfThisFile, UNCHANGED <<file, asking, created, report, Paragorn>>
  PROVE  ReportIsOfThisFile'
<1>1. \A k, d : InFile(k, d)' = InFile(k, d)
  BY DEF InFile, Scan
<1> QED BY <1>1 DEF ReportIsOfThisFile

LEMMA NoReportNeeded ==
  ASSUME asking' = "none"
  PROVE  ReportIsOfThisFile'
BY DEF ReportIsOfThisFile

LEMMA ReadLogKeeps ==
  ASSUME IInv, NEW k \in Kinds, ReadLog(k)
  PROVE  IInv'
<1>1. DOMAIN file' = Kinds /\ \A f \in Kinds : GoodFile(file'[f]) /\ HasLast(file'[f])
  BY FilesSame DEF ReadLog
<1>2. LogNumbersGrow'
  BY FilesSame DEF ReadLog
<1>3. /\ asking' = "none" /\ writing' = "none" /\ exists' = exists \cup {k} /\ log_file' = k
      /\ UNCHANGED <<file, arrays, GeneralStatus, loaded, dialog, pending, checks, history>>
  BY DEF ReadLog, Idle, dialog, pending
<1>4. Typed'
  <2>1. k \in {"serial", "par", "encoder"}
    BY KindAssumption
  <2> QED BY <1>1, <1>3, <2>1 DEF IInv, Typed, arrays, dialog, pending, history
<1>5. Absent'
  BY <1>3 DEF IInv, Absent
<1>6. InOrder' /\ Fresh' /\ AsShown'
  BY <1>3, SpecialValues DEF InOrder, Fresh, AsShown, IInv, Typed, history
<1>7. Recorded'
  BY <1>3, RecordedSame DEF IInv, dialog, pending, history
<1>8. ReportIsOfThisFile'
  BY <1>3, NoReportNeeded
<1>9. Remembered'
  BY <1>3, RememberedSame DEF IInv, arrays
<1> QED BY <1>1, <1>2, <1>4, <1>5, <1>6, <1>7, <1>8, <1>9 DEF IInv

LEMMA RecordElsewhereKeeps ==
  ASSUME IInv, RecordElsewhere
  PROVE  IInv'
<1>1. DOMAIN file' = Kinds /\ \A f \in Kinds : GoodFile(file'[f]) /\ HasLast(file'[f])
  BY FilesSame DEF RecordElsewhere
<1>2. LogNumbersGrow'
  BY FilesSame DEF RecordElsewhere
<1>3. /\ log_file' = "general" /\ writing # "none"
      /\ UNCHANGED <<exists, file, arrays, GeneralStatus, loaded, dialog, pending,
                     checks, history>>
  BY DEF RecordElsewhere
<1>4. Typed'
  BY <1>1, <1>3 DEF IInv, Typed, arrays, dialog, pending, history
<1>5. Absent' /\ Fresh' /\ AsShown'
  BY <1>3 DEF IInv, Absent, Fresh, AsShown, arrays, dialog, pending, history
<1>6. InOrder'
  <2>1. Rows(writing)' = Rows(writing) /\ Target(writing)' = Target(writing)
    BY <1>3 DEF Rows, Actual, Target, arrays, pending, history
  <2>2. writing' = writing /\ todo' = todo /\ exists' = exists
    BY <1>3 DEF pending
  <2> QED BY <1>3, <2>1, <2>2 DEF IInv, InOrder
<1>7. Recorded'
  BY <1>3, RecordedSame DEF IInv, dialog, pending, history
<1>8. ReportIsOfThisFile'
  BY <1>3, ReportSame DEF IInv, arrays, dialog, history
<1>9. Remembered'
  BY <1>3, RememberedSame DEF IInv, arrays
<1> QED BY <1>1, <1>2, <1>4, <1>5, <1>6, <1>7, <1>8, <1>9 DEF IInv

\* Where a block goes.
LEMMA TargetIs ==
  ASSUME NEW k \in Kinds
  PROVE  /\ Target(k) \in {"serial", "par", "encoder"}
         /\ k \notin created => Target(k) = k
         /\ Target(k) # k => Target(k) = "par" /\ k = "encoder" /\ k \in created
BY KindAssumption DEF Target

LEMMA LogFileSetKeeps ==
  ASSUME IInv, LogFileSet
  PROVE  IInv'
<1>1. DOMAIN file' = Kinds /\ \A f \in Kinds : GoodFile(file'[f]) /\ HasLast(file'[f])
  BY FilesSame DEF LogFileSet
<1>2. LogNumbersGrow'
  BY FilesSame DEF LogFileSet
<1>3. /\ log_file' = Target(writing) /\ exists' = exists \cup ({log_file'} \cap Kinds)
      /\ LogFileSetting \in todo /\ todo' = todo \ {LogFileSetting}
      /\ writing' = IF todo = {LogFileSetting} THEN "none" ELSE writing
      /\ UNCHANGED <<file, arrays, GeneralStatus, loaded, dialog, checks, history>>
  BY DEF LogFileSet, Does
<1>4. writing \in Kinds /\ asking = "none" /\ LogLine \in todo
  BY <1>3 DEF IInv, Typed, InOrder
<1>5. LogLine \in todo' /\ writing' = writing
  BY <1>3, <1>4 DEF LogFileSetting, LogLine
<1>6. Typed'
  <2>1. log_file' \in {"serial", "par", "encoder"}
    BY <1>3, <1>4, TargetIs
  <2>2. /\ exists' \subseteq Kinds /\ todo' \subseteq todo /\ todo' # {} /\ writing # "none"
        /\ asking' = "none"
    BY <1>3, <1>4, <1>5, SpecialValues DEF IInv, Typed, dialog
  <2>3. todo' \subseteq {LogFileSetting, LogLine} \cup Drivers
    BY <2>2 DEF IInv, Typed
  <2> QED BY <1>1, <1>3, <1>4, <1>5, <2>1, <2>2, <2>3
          DEF IInv, Typed, arrays, dialog, history
<1>7. Absent'
  BY <1>3 DEF IInv, Absent
<1>8. Fresh' /\ AsShown'
  BY <1>3, <1>4, <1>5 DEF IInv, Fresh, AsShown, arrays, dialog, history
<1>9. InOrder'
  <2>1. Rows(writing)' = Rows(writing) /\ Target(writing)' = Target(writing)
    BY <1>3, <1>5 DEF Rows, Actual, Target, arrays, history
  <2>2. Rows(writing) \subseteq Drivers /\ LogFileSetting \notin Drivers
    BY SpecialValues DEF Rows
  <2>3. /\ todo \cap Drivers \subseteq Rows(writing) /\ Rows(writing) \subseteq todo
        /\ Target(writing) \in Kinds => Target(writing) \in exists'
    BY <1>3, <1>4, SpecialValues DEF IInv, InOrder
  <2>4. todo' \cap Drivers \subseteq Rows(writing) /\ Rows(writing) \subseteq todo'
    BY <1>3, <2>2, <2>3
  <2> QED BY <1>3, <1>5, <2>1, <2>3, <2>4 DEF InOrder
<1>10. Recorded'
  <2>1. \A k \in Kinds : LogLine \notin Rest(k)' => Rest(k)' = Rest(k) /\ LogLine \notin Rest(k)
    BY <1>4, <1>5 DEF Rest
  <2>2. ASSUME NEW k \in Kinds \ ({asking} \cup created \cup cut)',
               GeneralStatus'[k] = 1, LogLine \notin Rest(k)'
        PROVE  \E from \in DOMAIN file'[k] :
                 BlockAt(file'[k], from, k, shown'[k], Rest(k)')
    <3>1. UNCHANGED <<file, shown, asking, created, cut, GeneralStatus>>
      BY <1>3 DEF dialog, history
    <3>2. \E from \in DOMAIN file[k] : BlockAt(file[k], from, k, shown[k], Rest(k))
      BY <2>1, <2>2, <3>1 DEF IInv, Recorded
    <3> QED BY <2>1, <2>2, <3>1, <3>2
  <2> QED BY <2>2 DEF Recorded
<1>11. ReportIsOfThisFile'
  BY <1>3, <1>4, NoReportNeeded DEF dialog
<1>12. Remembered'
  BY <1>3, RememberedSame DEF IInv, arrays
<1> QED BY <1>1, <1>2, <1>6, <1>7, <1>8, <1>9, <1>10, <1>11, <1>12 DEF IInv

\* What a load takes from the file is what drivers showed once.
LEMMA LoadIsShown ==
  ASSUME IInv, "encoder" \in Kinds
  PROVE  LoadedEncoders(file["encoder"], Scan("encoder")) \in [Drivers -> ShownValues]
<1> DEFINE lines == file["encoder"]
           rows  == Scan("encoder")
           own(d) == {i \in rows : Cardinality({j \in rows : j <= i}) = d}
<1>1. GoodFile(lines) /\ Paragorn["encoder"] \in [Drivers -> ShownValues]
  BY DEF IInv, Typed
<1>2. rows \subseteq DOMAIN lines /\ \A i \in rows : lines[i].kind = "encoder"
  BY ScanIs DEF FromLastLog
<1>3. \A i \in rows : lines[i].value \in ShownValues
  BY <1>1, <1>2 DEF GoodFile, GoodLine, Lines, AllValues
<1>4. LoadedEncoders(lines, rows) =
        [d \in Drivers |-> IF own(d) = {} THEN Paragorn["encoder"][d]
                           ELSE lines[Max(own(d))].value]
  BY Zenon DEF LoadedEncoders
<1> HIDE DEF lines, rows
<1>5. ASSUME NEW d \in Drivers, own(d) # {}
      PROVE  Max(own(d)) \in own(d)
  <2>1. own(d) \subseteq DOMAIN lines
    BY <1>2
  <2> HIDE DEF own
  <2> QED BY <1>1, <1>5, <2>1, LargestPlace
<1>6. ASSUME NEW d \in Drivers, own(d) # {}
      PROVE  Max(own(d)) \in rows
  <2>1. own(d) \subseteq rows
    OBVIOUS
  <2> HIDE DEF own
  <2> QED BY <1>5, <1>6, <2>1
<1> HIDE DEF own
<1>7. LoadedEncoders(lines, rows) \in [Drivers -> ShownValues]
  BY <1>1, <1>3, <1>4, <1>6
<1> QED BY <1>7 DEF lines, rows

LEMMA LoadKeeps ==
  ASSUME IInv, LoadEncoderFromFile
  PROVE  IInv'
<1>1. DOMAIN file' = Kinds /\ \A f \in Kinds : GoodFile(file'[f]) /\ HasLast(file'[f])
  BY FilesSame DEF LoadEncoderFromFile
<1>2. LogNumbersGrow'
  BY FilesSame DEF LoadEncoderFromFile
<1>3. /\ asking = "none" /\ writing = "none" /\ "encoder" \in Kinds
      /\ log_file' = "general" /\ loaded' \in BOOLEAN
      /\ UNCHANGED <<exists, file, Array, Tmp, GeneralStatus, dialog, pending, checks,
                     history>>
  BY DEF LoadEncoderFromFile, Idle
<1>4. Paragorn' \in [Kinds -> [Drivers -> ShownValues]]
  <2>1. \/ Paragorn' = Paragorn
        \/ Paragorn' = [Paragorn EXCEPT !["encoder"] =
                          LoadedEncoders(file["encoder"], Scan("encoder"))]
    BY DEF LoadEncoderFromFile
  <2>2. Paragorn \in [Kinds -> [Drivers -> ShownValues]]
    BY DEF IInv, Typed
  <2> QED BY <1>3, <2>1, <2>2, LoadIsShown
<1>5. Typed'
  BY <1>1, <1>3, <1>4 DEF IInv, Typed, dialog, pending, history
<1>6. Absent'
  BY <1>3 DEF IInv, Absent
<1>7. InOrder' /\ Fresh' /\ AsShown'
  BY <1>3, SpecialValues DEF InOrder, Fresh, AsShown, IInv, Typed, dialog, pending, history
<1>8. Recorded'
  BY <1>3, RecordedSame DEF IInv, dialog, pending, history
<1>9. ReportIsOfThisFile'
  BY <1>3, NoReportNeeded DEF dialog
<1>10. Remembered'
  BY <1>3, RememberedSame DEF IInv
<1> QED BY <1>1, <1>2, <1>5, <1>6, <1>7, <1>8, <1>9, <1>10 DEF IInv

------------------------------------------------------------------------------
(* A check. *)

LEMMA ReadingIs ==
  ASSUME NEW k \in Kinds, NEW reading \in Readings(k)
  PROVE  reading \in [Drivers -> ShownValues]
<1>1. PICK shows \in [Varying -> ShownValues] :
        reading = [d \in Drivers |-> IF d \in Varying THEN shows[d] ELSE Usual(k, d)]
  BY DEF Readings, ShownValues
<1>2. \A d \in Drivers : Usual(k, d) \in ShownValues
  BY DriverAssumption DEF Usual, ShownValues, Drivers
<1> QED BY <1>1, <1>2

LEMMA UnreadIs ==
  ASSUME NEW reading \in [Drivers -> ShownValues]
  PROVE  Unread(reading) \in [Drivers -> AllValues] /\ reading \in [Drivers -> AllValues]
BY DEF Unread, AllValues

\* What the question may tell of driver d that shows a value and of which the
\* last block of these lines has found something.
Tells(k, lines, found, d, value, told) ==
  \/ told = Compared(value, found)
  \/ /\ k = "serial" /\ found = NotFound
     /\ \E i \in DOMAIN lines :
          /\ lines[i].kind = "serial" /\ lines[i].number = d
          /\ told = Compared(value, Kept(d, lines[i].value))

\* What the three functions have in common.
LEMMA CheckReads ==
  ASSUME IInv, NEW k \in Kinds, NEW reading \in [Drivers -> ShownValues],
         CASE k = "serial" -> CheckDrvAssoc(reading)
           [] k = "par"    -> CheckParAssoc(reading)
           [] OTHER        -> CheckEncodeAssoc(reading)
  PROVE  /\ log_file' \in {"general", "serial", "par", "encoder"}
         /\ Paragorn' \in [Kinds -> [Drivers -> ShownValues]]
         /\ Array' \in [Kinds -> [Drivers -> AllValues]]
         /\ k \in exists => Paragorn'[k] = reading
         /\ k \in exists /\ k \in {"serial", "par"} =>
              \A d \in Drivers : Tells(k, file[k], InFile(k, d), d, reading[d], report'[d])
         /\ DOMAIN Tmp' = DOMAIN Tmp
         /\ \/ Tmp'["serial"] = Tmp["serial"]
            \/ \A d \in Drivers : FromRow(file["serial"], d, Tmp'["serial"][d])
<1>1. /\ Paragorn \in [Kinds -> [Drivers -> ShownValues]]
      /\ Array \in [Kinds -> [Drivers -> AllValues]]
  BY DEF IInv, Typed
<1>2. Unread(reading) \in [Drivers -> AllValues] /\ reading \in [Drivers -> AllValues]
  BY UnreadIs
<1>3. CASE k = "serial"
  <2>1. CheckDrvAssoc(reading)
    BY <1>3
  <2>2. CASE "serial" \in exists
    <3> DEFINE rows == Reordered(file["serial"], Scan("serial"), BzeroedSerials(Tmp["serial"]))
    <3>1. /\ log_file' = "serial" /\ Paragorn' = [Paragorn EXCEPT !["serial"] = reading]
          /\ Array' = Array /\ Compares(reading, rows)
          /\ Tmp' = [Tmp EXCEPT !["serial"] = rows]
      BY <2>1, <2>2 DEF CheckDrvAssoc
    <3>2. GoodFile(file["serial"]) /\ Remembered /\ "serial" \in Kinds
      BY <1>3 DEF IInv, Typed
    <3>3. Scan("serial") = FromLastLog(file["serial"], "serial")
      BY <3>2, ScanIs
    <3>4. ASSUME NEW d \in Drivers
          PROVE  /\ FromRow(file["serial"], d, rows[d])
                 /\ Tells(k, file[k], InFile(k, d), d, reading[d],
                          Compared(reading[d], rows[d]))
      <4>1. FromRow(file["serial"], d, Tmp["serial"][d])
        BY <3>2 DEF Remembered
      <4>2. /\ FromRow(file["serial"], d, rows[d])
            /\ \/ rows[d] = InFile("serial", d)
               \/ /\ InFile("serial", d) = NotFound
                  /\ \E i \in DOMAIN file["serial"] :
                       /\ file["serial"][i].kind = "serial" /\ file["serial"][i].number = d
                       /\ rows[d] = Kept(d, file["serial"][i].value)
        BY <3>2, <3>3, <4>1, SerialsAre DEF InFile
      <4> HIDE DEF rows
      <4> QED BY <1>3, <4>2, Zenon DEF Tells
    <3> HIDE DEF rows
    <3>5. report' = [d \in Drivers |-> Compared(reading[d], rows[d])]
      BY <3>1 DEF Compares
    <3>6. \A d \in Drivers : Tells(k, file[k], InFile(k, d), d, reading[d], report'[d])
      BY <3>4, <3>5
    <3>7. DOMAIN Tmp' = DOMAIN Tmp /\ Tmp'["serial"] = rows
      BY <3>1, <3>2 DEF Remembered
    <3> QED BY <1>1, <1>3, <3>1, <3>4, <3>6, <3>7
  <2>3. CASE "serial" \notin exists
    <3>1. /\ log_file' = "general" /\ Paragorn' = Paragorn /\ Tmp' = Tmp
          /\ Array' = [Array EXCEPT !["serial"] = Unread(reading)]
      BY <2>1, <2>3 DEF CheckDrvAssoc
    <3> QED BY <1>1, <1>2, <1>3, <2>3, <3>1
  <2> QED BY <2>2, <2>3
<1>4. CASE k = "par"
  <2>1. CheckParAssoc(reading)
    BY <1>4
  <2>2. CASE "par" \in exists
    <3> DEFINE rows == Reordered(file["par"], Scan("par"), ClearedParameters(Tmp["par"]))
    <3>1. /\ log_file' = "general" /\ Paragorn' = [Paragorn EXCEPT !["par"] = reading]
          /\ Array' = Array /\ Compares(reading, rows)
          /\ Tmp' = [Tmp EXCEPT !["par"] = rows]
      BY <2>1, <2>2 DEF CheckParAssoc
    <3>2. \A d \in Drivers : rows[d] = InFile("par", d)
      BY DEF ClearedParameters, NothingShown, InFile
    <3> HIDE DEF rows
    <3>3. report' = [d \in Drivers |-> Compared(reading[d], rows[d])]
      BY <3>1 DEF Compares
    <3>4. \A d \in Drivers : Tells(k, file[k], InFile(k, d), d, reading[d], report'[d])
      BY <1>4, <3>2, <3>3 DEF Tells
    <3>5. DOMAIN Tmp' = DOMAIN Tmp /\ Tmp'["serial"] = Tmp["serial"]
      BY <3>1
    <3> QED BY <1>1, <1>4, <3>1, <3>4, <3>5
  <2>3. CASE "par" \notin exists
    <3>1. /\ log_file' = "general" /\ Paragorn' = Paragorn /\ Tmp' = Tmp
          /\ Array' = [Array EXCEPT !["par"] = reading]
      BY <2>1, <2>3 DEF CheckParAssoc
    <3> QED BY <1>1, <1>2, <1>4, <2>3, <3>1
  <2> QED BY <2>2, <2>3
<1>5. CASE k # "serial" /\ k # "par"
  <2>1. CheckEncodeAssoc(reading) /\ k = "encoder"
    BY <1>5, KindAssumption
  <2>2. /\ log_file' = "general" /\ Array' = Array /\ Tmp' = Tmp
        /\ Paragorn' = [Paragorn EXCEPT !["encoder"] = reading]
    BY <2>1 DEF CheckEncodeAssoc
  <2> QED BY <1>1, <1>5, <2>1, <2>2
<1> QED BY <1>3, <1>4, <1>5

LEMMA CheckKeeps ==
  ASSUME IInv, NEW k \in Kinds, Check(k)
  PROVE  IInv'
<1>1. DOMAIN file' = Kinds /\ \A f \in Kinds : GoodFile(file'[f]) /\ HasLast(file'[f])
  BY FilesSame DEF Check
<1>2. LogNumbersGrow'
  BY FilesSame DEF Check
<1>3. /\ asking = "none" /\ writing = "none" /\ writing' = "none" /\ todo' = todo
      /\ asking' = k /\ count' = 0 /\ checks < MaxChecks /\ checks' = checks + 1
      /\ created' = IF k \in exists THEN created \ {k} ELSE created \cup {k}
      /\ UNCHANGED <<exists, file, GeneralStatus, loaded, cut>>
  BY DEF Check, Idle, pending
<1>4. PICK reading \in [Drivers -> ShownValues] :
        /\ CASE k = "serial" -> CheckDrvAssoc(reading)
             [] k = "par"    -> CheckParAssoc(reading)
             [] OTHER        -> CheckEncodeAssoc(reading)
        /\ shown' = [shown EXCEPT ![k] = reading]
  BY ReadingIs, Zenon DEF Check
<1>5. /\ log_file' \in {"general", "serial", "par", "encoder"}
      /\ Paragorn' \in [Kinds -> [Drivers -> ShownValues]]
      /\ Array' \in [Kinds -> [Drivers -> AllValues]]
      /\ k \in exists => Paragorn'[k] = reading
      /\ k \in exists /\ k \in {"serial", "par"} =>
           \A d \in Drivers : Tells(k, file[k], InFile(k, d), d, reading[d], report'[d])
      /\ DOMAIN Tmp' = DOMAIN Tmp
      /\ \/ Tmp'["serial"] = Tmp["serial"]
         \/ \A d \in Drivers : FromRow(file["serial"], d, Tmp'["serial"][d])
  BY <1>4, CheckReads
<1>6. shown' \in [Kinds -> [Drivers -> ShownValues]] /\ shown'[k] = reading
      /\ \A f \in Kinds \ {k} : shown'[f] = shown[f]
  BY <1>4 DEF IInv, Typed
<1>7. k # "none"
  BY SpecialValues
<1>8. Typed'
  <2>1. count' \in 0 .. LIMITCHECKLOG - 1 /\ checks' \in 0 .. MaxChecks
    BY <1>3, CheckAssumption DEF IInv, Typed
  <2>2. created' \subseteq Kinds
    BY <1>3 DEF IInv, Typed
  <2> QED BY <1>1, <1>3, <1>5, <1>6, <2>1, <2>2 DEF IInv, Typed
<1>9. Absent' /\ InOrder'
  BY <1>3 DEF IInv, Absent, InOrder
<1>10. Fresh'
  BY <1>3, SpecialValues DEF IInv, Typed, Fresh, Absent
<1>11. AsShown'
  BY <1>3, <1>5, <1>6, SpecialValues DEF AsShown
<1>12. Recorded'
  <2>1. ASSUME NEW f \in Kinds \ ({asking} \cup created \cup cut)',
               GeneralStatus'[f] = 1, LogLine \notin Rest(f)'
        PROVE  \E from \in DOMAIN file'[f] :
                 BlockAt(file'[f], from, f, shown'[f], Rest(f)')
    <3>1. f # k /\ f \notin created /\ f \notin cut /\ f # asking
      BY <1>3, <2>1, SpecialValues
    <3>2. f # "none"
      BY SpecialValues, <2>1
    <3>3. Rest(f)' = {} /\ Rest(f) = {}
      BY <1>3, <3>2 DEF Rest
    <3>4. \E from \in DOMAIN file[f] : BlockAt(file[f], from, f, shown[f], {})
      <4>1. Recorded /\ GeneralStatus[f] = 1 /\ f \in Kinds /\ LogLine \notin {}
        BY <1>3, <2>1 DEF IInv
      <4>2. f \in Kinds \ ({asking} \cup created \cup cut)
        BY <3>1, <4>1
      <4>3. \E from \in DOMAIN file[f] : BlockAt(file[f], from, f, shown[f], Rest(f))
        BY <3>3, <4>1, <4>2, Zenon DEF Recorded
      <4> QED BY <3>3, <4>3
    <3> QED BY <1>3, <1>6, <3>1, <3>3, <3>4
  <2> QED BY <2>1 DEF Recorded
<1>13. ReportIsOfThisFile'
  <2>1. asking' \in {"serial", "par"} \ created' => k \in exists /\ k \in {"serial", "par"}
    BY <1>3
  <2>2. k \in exists /\ k \in {"serial", "par"} =>
          /\ \A d \in Drivers : Tells(k, file[k], InFile(k, d), d, reading[d], report'[d])
          /\ Paragorn'[k] = reading
    BY <1>5, Zenon
  <2>3. asking' = k /\ file' = file /\ \A d : InFile(asking, d)' = InFile(k, d)
    BY <1>3 DEF InFile, Scan
  <2> QED BY <2>1, <2>2, <2>3 DEF ReportIsOfThisFile, Tells
<1>14. Remembered'
  BY <1>3, <1>5, Zenon DEF IInv, Remembered
<1> QED BY <1>1, <1>2, <1>8, <1>9, <1>10, <1>11, <1>12, <1>13, <1>14 DEF IInv

------------------------------------------------------------------------------
(* The question. *)

\* Checks that are neither asked about nor written stay on record.
LEMMA OthersStay ==
  ASSUME IInv, UNCHANGED <<file, created>>, NEW f \in Kinds,
         f \notin created, f \notin cut, f # asking, writing = "none",
         shown'[f] = shown[f], GeneralStatus'[f] = GeneralStatus[f], GeneralStatus'[f] = 1
  PROVE  \E from \in DOMAIN file'[f] : BlockAt(file'[f], from, f, shown'[f], {})
<1>1. f # "none"
  BY SpecialValues
<1>2. Rest(f) = {}
  BY <1>1 DEF Rest
<1>3. Recorded /\ GeneralStatus[f] = 1 /\ LogLine \notin {}
  BY DEF IInv
<1>4. f \in Kinds \ ({asking} \cup created \cup cut)
  OBVIOUS
<1>5. \E from \in DOMAIN file[f] : BlockAt(file[f], from, f, shown[f], Rest(f))
  BY <1>2, <1>3, <1>4, Zenon DEF Recorded
<1> QED BY <1>2, <1>5

\* The answer does not come, and there is time.
LEMMA WaitKeeps ==
  ASSUME IInv, asking # "none", count' = Turns, Turns # LIMITCHECKLOG,
         UNCHANGED <<asking, report, GeneralStatus, pending, shown, cut,
                     files, arrays, loaded, checks, created>>
  PROVE  IInv'
<1>1. DOMAIN file' = Kinds /\ \A f \in Kinds : GoodFile(file'[f]) /\ HasLast(file'[f])
  BY FilesSame DEF files
<1>2. LogNumbersGrow'
  BY FilesSame DEF files
<1>3. count' \in 0 .. LIMITCHECKLOG - 1
  BY CheckAssumption DEF IInv, Typed, Turns
<1>4. Typed'
  BY <1>1, <1>3 DEF IInv, Typed, files, arrays, pending
<1>5. Absent' /\ Fresh' /\ AsShown'
  BY DEF IInv, Absent, Fresh, AsShown, files, arrays, pending
<1>6. InOrder'
  <2>1. Rows(writing)' = Rows(writing) /\ Target(writing)' = Target(writing)
    BY DEF Rows, Actual, Target, arrays, pending
  <2> QED BY <2>1 DEF IInv, InOrder, files, pending
<1>7. Recorded'
  BY RecordedSame DEF IInv, files, pending
<1>8. ReportIsOfThisFile'
  BY ReportSame DEF IInv, files, arrays
<1>9. Remembered'
  BY RememberedSame DEF IInv, files, arrays
<1> QED BY <1>1, <1>2, <1>4, <1>5, <1>6, <1>7, <1>8, <1>9 DEF IInv

\* A yes.
LEMMA YesKeeps ==
  ASSUME IInv, asking # "none", asking' = "none", count' = 0,
         GeneralStatus' = [GeneralStatus EXCEPT ![asking] = 1],
         writing' = asking, todo' = Block(asking), cut' = cut \ {asking},
         UNCHANGED <<shown, files, arrays, loaded, checks, created>>
  PROVE  IInv'
<1>1. DOMAIN file' = Kinds /\ \A f \in Kinds : GoodFile(file'[f]) /\ HasLast(file'[f])
  BY FilesSame DEF files
<1>2. LogNumbersGrow'
  BY FilesSame DEF files
<1>3. /\ asking \in Kinds /\ writing = "none" /\ Rows(asking) \subseteq Drivers
      /\ Rows(asking) \subseteq todo' /\ todo' \cap Drivers = Rows(asking)
      /\ LogFileSetting \in todo' /\ LogLine \in todo'
  BY SpecialValues DEF IInv, Typed, Rows, Block
<1>4. Typed'
  <2>1. 0 \in 0 .. LIMITCHECKLOG - 1
    BY CheckAssumption
  <2>2. GeneralStatus' \in [Kinds -> {0, 1}]
    BY <1>3 DEF IInv, Typed
  <2>3. todo' \subseteq {LogFileSetting, LogLine} \cup Drivers /\ todo' # {}
    BY <1>3 DEF Block
  <2>4. cut' \subseteq Kinds
    BY DEF IInv, Typed
  <2> QED BY <1>1, <1>3, <2>1, <2>2, <2>3, <2>4 DEF IInv, Typed, files, arrays
<1>5. Absent'
  BY DEF IInv, Absent, files
<1>6. InOrder'
  <2>1. Rows(writing)' = Rows(asking)
    BY DEF Rows, Actual, arrays
  <2> QED BY <1>3, <2>1, Zenon DEF InOrder
<1>7. Fresh' /\ AsShown'
  <2>1. \A k \in Kinds : k # "none"
    BY SpecialValues
  <2>2. created' = created /\ created \subseteq Kinds
    BY DEF IInv, Typed
  <2>3. Fresh'
    BY <2>1, <2>2 DEF IInv, Fresh, files
  <2>4. AsShown'
    BY <2>1, <2>2 DEF IInv, AsShown, arrays
  <2> QED BY <2>3, <2>4
<1>8. Recorded'
  <2>1. ASSUME NEW f \in Kinds \ ({asking} \cup created \cup cut)',
               GeneralStatus'[f] = 1, LogLine \notin Rest(f)'
        PROVE  \E from \in DOMAIN file'[f] :
                 BlockAt(file'[f], from, f, shown'[f], Rest(f)')
    <3>1. f # asking
      BY <1>3, <2>1 DEF Rest
    <3>2. f \in Kinds /\ f \notin created /\ f \notin cut /\ Rest(f)' = {}
      BY <2>1, <3>1 DEF Rest
    <3>3. GeneralStatus'[f] = GeneralStatus[f]
      BY <3>1, <3>2 DEF IInv, Typed
    <3>4. \E from \in DOMAIN file'[f] : BlockAt(file'[f], from, f, shown'[f], {})
      BY <1>3, <2>1, <3>1, <3>2, <3>3, OthersStay DEF files
    <3> QED BY <3>2, <3>4
  <2> QED BY <2>1 DEF Recorded
<1>9. ReportIsOfThisFile'
  BY NoReportNeeded
<1>10. Remembered'
  BY RememberedSame DEF IInv, files, arrays
<1> QED BY <1>1, <1>2, <1>4, <1>5, <1>6, <1>7, <1>8, <1>9, <1>10 DEF IInv

\* A no, or no answer in time.
LEMMA NoKeeps ==
  ASSUME IInv, asking # "none", asking' = "none", count' = 0,
         GeneralStatus' = [GeneralStatus EXCEPT ![asking] = 0],
         shown' = [shown EXCEPT ![asking] = NothingShown],
         UNCHANGED <<pending, cut, files, arrays, loaded, checks, created>>
  PROVE  IInv'
<1>1. DOMAIN file' = Kinds /\ \A f \in Kinds : GoodFile(file'[f]) /\ HasLast(file'[f])
  BY FilesSame DEF files
<1>2. LogNumbersGrow'
  BY FilesSame DEF files
<1>3. asking \in Kinds /\ writing = "none" /\ writing' = "none"
  BY DEF IInv, Typed, pending
<1>4. Typed'
  <2>1. 0 \in 0 .. LIMITCHECKLOG - 1
    BY CheckAssumption
  <2>2. GeneralStatus' \in [Kinds -> {0, 1}]
    BY <1>3 DEF IInv, Typed
  <2>3. shown' \in [Kinds -> [Drivers -> ShownValues]]
    BY <1>3 DEF IInv, Typed, NothingShown, ShownValues
  <2> QED BY <1>1, <1>3, <2>1, <2>2, <2>3 DEF IInv, Typed, files, arrays, pending
<1>5. Absent'
  BY DEF IInv, Absent, files
<1>6. InOrder' /\ Fresh' /\ AsShown'
  BY <1>3, SpecialValues DEF IInv, Typed, InOrder, Fresh, AsShown
<1>7. Recorded'
  <2>1. ASSUME NEW f \in Kinds \ ({asking} \cup created \cup cut)',
               GeneralStatus'[f] = 1, LogLine \notin Rest(f)'
        PROVE  \E from \in DOMAIN file'[f] :
                 BlockAt(file'[f], from, f, shown'[f], Rest(f)')
    <3>1. f # asking
      BY <1>3, <2>1 DEF IInv, Typed
    <3>2. f \in Kinds /\ f \notin created /\ f \notin cut
      BY <2>1
    <3>3. f # "none"
      BY <3>2, SpecialValues
    <3>4. Rest(f)' = {}
      BY <1>3, <3>3 DEF Rest
    <3>5. GeneralStatus'[f] = GeneralStatus[f] /\ shown'[f] = shown[f]
      BY <3>1, <3>2 DEF IInv, Typed
    <3>6. \E from \in DOMAIN file'[f] : BlockAt(file'[f], from, f, shown'[f], {})
      BY <1>3, <2>1, <3>1, <3>2, <3>5, OthersStay DEF files
    <3> QED BY <3>4, <3>6
  <2> QED BY <2>1 DEF Recorded
<1>8. ReportIsOfThisFile'
  BY NoReportNeeded
<1>9. Remembered'
  BY RememberedSame DEF IInv, files, arrays
<1> QED BY <1>1, <1>2, <1>4, <1>5, <1>6, <1>7, <1>8, <1>9 DEF IInv

LEMMA ListenKeeps ==
  ASSUME IInv, Listen
  PROVE  IInv'
<1>1. asking # "none" /\ UNCHANGED <<files, arrays, loaded, checks, created>>
  BY DEF Listen
<1>2. PICK answer \in {"y", "n", "another command", "nothing"} :
        IF ~Over(answer)
          THEN /\ count' = Turns
               /\ UNCHANGED <<asking, report, GeneralStatus, pending, shown, cut>>
          ELSE /\ asking' = "none" /\ count' = 0 /\ report' = NoReport
               /\ GeneralStatus' =
                    [GeneralStatus EXCEPT ![asking] = IF answer = "y" THEN 1 ELSE 0]
               /\ IF answer = "y"
                    THEN /\ writing' = asking /\ todo' = Block(asking)
                         /\ cut' = cut \ {asking} /\ UNCHANGED shown
                    ELSE /\ shown' = [shown EXCEPT ![asking] = NothingShown]
                         /\ UNCHANGED <<pending, cut>>
  BY Zenon DEF Listen
<1>3. CASE ~Over(answer)
  <2>1. Turns # LIMITCHECKLOG
    BY <1>3 DEF Over
  <2> QED BY <1>1, <1>2, <1>3, <2>1, WaitKeeps
<1>4. CASE Over(answer) /\ answer = "y"
  BY <1>1, <1>2, <1>4, YesKeeps
<1>5. CASE Over(answer) /\ answer # "y"
  BY <1>1, <1>2, <1>5, NoKeeps
<1> QED BY <1>3, <1>4, <1>5

------------------------------------------------------------------------------
(* A line is written. *)

Grows(lines) ==
  \A i, j \in DOMAIN lines :
    i < j /\ lines[i].kind = "log" /\ lines[j].kind = "log" => lines[i].number < lines[j].number

LEMMA AppendGrows ==
  ASSUME NEW lines, GoodFile(lines), Grows(lines), NEW l, GoodLine(l),
         IsLog(l) => \A n \in LogNumbers(lines) : n < l.number
  PROVE  Grows(Append(lines, l))
<1> DEFINE all == Append(lines, l)
           last == Len(lines) + 1
<1>1. lines \in Seq(Lines) /\ l \in Lines
  BY DEF GoodFile, GoodLine
<1>2. /\ DOMAIN lines = 1 .. Len(lines) /\ Len(lines) \in Nat
      /\ DOMAIN all = 1 .. last
      /\ \A i \in DOMAIN lines : all[i] = lines[i]
      /\ all[last] = l
  BY <1>1, AppendFacts
<1>3. \A i \in DOMAIN lines : IsLog(lines[i]) => lines[i].number \in LogNumbers(lines)
  BY NumbersAre
<1> HIDE DEF all
<1>4. ASSUME NEW i \in DOMAIN all, NEW j \in DOMAIN all, i < j,
             all[i].kind = "log", all[j].kind = "log"
      PROVE  all[i].number < all[j].number
  <2>1. i \in DOMAIN lines /\ all[i] = lines[i] /\ (j = last \/ j \in DOMAIN lines)
    BY <1>2, <1>4
  <2>2. CASE j = last
    BY <1>2, <1>3, <1>4, <2>1, <2>2, Zenon DEF IsLog
  <2>3. CASE j \in DOMAIN lines
    <3>1. all[j] = lines[j]
      BY <1>2, <2>3
    <3> QED BY <1>4, <2>1, <2>3, <3>1, Zenon DEF Grows
  <2> QED BY <2>1, <2>2, <2>3
<1> QED BY <1>4 DEF all, Grows

\* Where the command thread is when it writes line d, and what it writes.
WritesLine(d) ==
  /\ writing \in Kinds /\ asking = "none" /\ asking' = "none"
  /\ d \in todo /\ todo' = todo \ {d} /\ LogFileSetting \notin todo
  /\ writing' = IF todo = {d} THEN "none" ELSE writing
  /\ log_file' = log_file /\ log_file \in {Target(writing), "general"}
  /\ Target(writing) \in Kinds => Target(writing) \in exists
  /\ d # LogLine => d \in Rows(writing) /\ LogLine \notin todo
  /\ d = LogLine => Rows(writing) \subseteq todo
  /\ DOMAIN file' = Kinds
  /\ \A f \in Kinds :
       file'[f] = IF f = log_file THEN Append(file[f], Line(writing, d)) ELSE file[f]
  /\ cut' = IF log_file = Target(writing) THEN cut ELSE cut \cup {writing}
  /\ UNCHANGED <<exists, arrays, GeneralStatus, loaded, dialog, checks, shown, created>>

LEMMA WriteIs ==
  ASSUME IInv, LogFileWriteString
  PROVE  \E d \in {LogLine} \cup Drivers : WritesLine(d)
<1>1. PICK d \in {LogLine} \cup Drivers :
        /\ Does(d)
        /\ file' = [f \in Kinds |->
                     IF f = log_file THEN Append(file[f], Line(writing, d)) ELSE file[f]]
  BY DEF LogFileWriteString
<1>2. /\ d \in todo /\ \A e \in todo : d <= e
      /\ todo' = todo \ {d}
      /\ writing' = IF todo = {d} THEN "none" ELSE writing
  BY <1>1 DEF Does
<1>3. d \in Int /\ d >= 0 /\ (d # LogLine => d > 0 /\ d \in Drivers)
  BY SpecialValues DEF LogLine
<1>4. LogFileSetting \notin todo /\ (d # LogLine => LogLine \notin todo)
  BY <1>2, <1>3 DEF LogFileSetting, LogLine
<1>5. writing \in Kinds /\ asking = "none" /\ writing # "none"
  BY <1>2, SpecialValues DEF IInv, Typed
<1>6. /\ log_file \in {Target(writing), "general"}
      /\ Target(writing) \in Kinds => Target(writing) \in exists
      /\ d # LogLine => d \in Rows(writing)
      /\ d = LogLine => Rows(writing) \subseteq todo
  BY <1>2, <1>3, <1>4, <1>5 DEF IInv, InOrder
<1>7. /\ cut' = IF log_file = Target(writing) THEN cut ELSE cut \cup {writing}
      /\ UNCHANGED <<exists, log_file, arrays, GeneralStatus, loaded, dialog,
                     checks, shown, created>>
  BY DEF LogFileWriteString
<1>8. WritesLine(d)
  BY <1>1, <1>2, <1>4, <1>5, <1>6, <1>7 DEF WritesLine, dialog
<1> QED BY <1>8

LEMMA LineIsGood ==
  ASSUME IInv, NEW d \in {LogLine} \cup Drivers, WritesLine(d)
  PROVE  GoodLine(Line(writing, d))
<1>1. writing \in Kinds /\ GoodFile(file[writing]) /\ HasLast(file[writing])
  BY DEF IInv, Typed, WritesLine
<1>2. CASE d = LogLine
  <2>1. Line(writing, d) = Log(NextLog(writing)) /\ NextLog(writing) \in Nat
    BY <1>1, <1>2, NextLogIs DEF Line
  <2>2. Line(writing, d) = [kind |-> "log", number |-> NextLog(writing), value |-> NotFound]
    BY <2>1 DEF Log, NotFound
  <2> QED BY <2>1, <2>2 DEF GoodLine, Lines, AllValues, ShownValues, NotFound, MinusOne
<1>3. CASE d # LogLine
  <2> DEFINE v == Actual(writing)[d]
  <2>1. d \in Rows(writing) /\ d \in Drivers
    BY <1>3 DEF WritesLine
  <2>2. v # NotFound /\ d \in Nat
    BY <2>1, SpecialValues DEF Rows
  <2>3. v \in AllValues /\ (v = MinusOne => writing = "serial")
    BY <1>1, <2>1, SpecialValues DEF Actual, IInv, Typed, AllValues
  <2>4. Line(writing, d) = [kind |-> writing, number |-> d, value |-> v]
    BY <1>3 DEF Line, Row
  <2>5. writing # "log"
    BY <1>1, SpecialValues
  <2> HIDE DEF v
  <2> QED BY <1>1, <2>2, <2>3, <2>4, <2>5 DEF GoodLine, Lines
<1> QED BY <1>2, <1>3

LEMMA WriteGrows ==
  ASSUME IInv, NEW d \in {LogLine} \cup Drivers, WritesLine(d)
  PROVE  LogNumbersGrow'
<1>1. ASSUME NEW k \in Kinds, k # "par"
      PROVE  Grows(file'[k])
  <2>1. Grows(file[k]) /\ GoodFile(file[k]) /\ HasLast(file[k])
    BY <1>1 DEF IInv, Typed, LogNumbersGrow, Grows
  <2>2. CASE k # log_file
    BY <2>1, <2>2 DEF WritesLine
  <2>3. CASE k = log_file
    <3>1. k = writing /\ file'[k] = Append(file[k], Line(writing, d))
      BY <1>1, <2>3, TargetIs, SpecialValues DEF WritesLine
    <3>2. CASE d # LogLine
      <4>1. ~IsLog(Line(writing, d))
        BY <3>1, <3>2, SpecialValues DEF Line, Row, IsLog
      <4> QED BY <2>1, <3>1, <4>1, LineIsGood, AppendGrows
    <3>3. CASE d = LogLine
      <4>1. Line(writing, d) = Log(NextLog(k)) /\ Line(writing, d).number = NextLog(k)
        BY <3>1, <3>3 DEF Line, Log
      <4>2. \A n \in LogNumbers(file[k]) : n < NextLog(k)
        <5>1. CASE k \in created
          <6>1. file[k] = <<>>
            BY <3>1, <3>3, <5>1 DEF WritesLine, IInv, Fresh
          <6> QED BY <6>1, NoNumbers
        <5>2. CASE k \notin created
          BY <2>1, <5>2, NextLogIs
        <5> QED BY <5>1, <5>2
      <4> QED BY <2>1, <3>1, <4>1, <4>2, LineIsGood, AppendGrows
    <3> QED BY <3>2, <3>3
  <2> QED BY <2>2, <2>3
<1> QED BY <1>1 DEF LogNumbersGrow, Grows

\* The block that is being written, and those of other checks in the file.
LEMMA WriteRecords ==
  ASSUME IInv, NEW d \in {LogLine} \cup Drivers, WritesLine(d)
  PROVE  Recorded'
<1> DEFINE line == Line(writing, d)
<1>1. ASSUME NEW f \in Kinds \ ({asking} \cup created \cup cut)',
             GeneralStatus'[f] = 1, LogLine \notin Rest(f)'
      PROVE  \E from \in DOMAIN file'[f] :
               BlockAt(file'[f], from, f, shown'[f], Rest(f)')
  <2>1. /\ f \in Kinds /\ f # "none" /\ f # asking /\ f \notin created /\ f \notin cut
        /\ GeneralStatus[f] = 1 /\ shown' = shown
    BY <1>1, SpecialValues DEF WritesLine
  <2>2. GoodFile(file[f]) /\ HasLast(file[f]) /\ GoodLine(line)
    BY <2>1, LineIsGood DEF IInv, Typed
  <2>3. CASE f = writing
    <3>1. log_file = f
      BY <1>1, <2>1, <2>3, TargetIs DEF WritesLine
    <3>2. file'[f] = Append(file[f], line)
      BY <2>1, <3>1 DEF WritesLine
    <3>3. Rest(f)' = todo' /\ Rest(f) = todo /\ todo' = todo \ {d}
      BY <2>1, <2>3 DEF Rest, WritesLine
    <3>4. Actual(f) = shown[f]
      BY <2>1, <2>3, Zenon DEF Actual, IInv, AsShown
    <3>5. Rows(f) = {e \in Drivers : Worth(f, shown[f][e])}
      BY <3>4 DEF Rows, Worth
    <3>6. CASE d = LogLine
      <4>1. line = Log(NextLog(f))
        BY <2>3, <3>6 DEF Line
      <4>2. NextLog(f) \in Nat \ {0} /\ \A m \in LogNumbers(file[f]) : m < NextLog(f)
        BY <2>1, <2>2, NextLogIs
      <4>3. \A e \in Drivers : Worth(f, shown[f][e]) => e \in Rest(f)'
        BY <2>3, <3>3, <3>5, <3>6, SpecialValues DEF WritesLine
      <4>4. BlockAt(file'[f], Len(file[f]) + 1, f, shown[f], Rest(f)')
        BY <2>1, <2>2, <3>2, <4>1, <4>2, <4>3, BlockBegins
      <4>5. Len(file[f]) + 1 \in DOMAIN file'[f]
        BY <4>4 DEF BlockAt
      <4> QED BY <2>1, <4>4, <4>5
    <3>7. CASE d # LogLine
      <4>1. d \in Drivers /\ LogLine \notin todo
        BY <3>7 DEF WritesLine
      <4>2. line = Row(f, d, shown[f][d])
        BY <2>3, <3>4, <3>7 DEF Line
      <4>3. PICK from \in DOMAIN file[f] : BlockAt(file[f], from, f, shown[f], todo)
        <5>1. f \in Kinds \ ({asking} \cup created \cup cut)
          BY <2>1
        <5>2. \E from \in DOMAIN file[f] : BlockAt(file[f], from, f, shown[f], Rest(f))
          BY <2>1, <3>3, <4>1, <5>1, Zenon DEF IInv, Recorded
        <5> QED BY <3>3, <5>2
      <4>4. BlockAt(file'[f], from, f, shown[f], todo \ {d})
        <5>1. GoodLine(Row(f, d, shown[f][d]))
          BY <2>2, <4>2
        <5>2. file'[f] = Append(file[f], Row(f, d, shown[f][d]))
          BY <3>2, <4>2
        <5>3. GoodFile(file[f]) /\ f \in Kinds
          BY <2>1, <2>2
        <5>4. BlockAt(Append(file[f], Row(f, d, shown[f][d])), from, f, shown[f], todo \ {d})
          BY <4>1, <4>3, <5>1, <5>3, BlockGrows
        <5> QED BY <5>2, <5>4
      <4>5. from \in DOMAIN file'[f]
        BY <4>4 DEF BlockAt
      <4> QED BY <2>1, <3>3, <4>4, <4>5
    <3> QED BY <3>6, <3>7
  <2>4. CASE f # writing
    <3>1. Rest(f)' = {} /\ Rest(f) = {}
      BY <2>1, <2>4 DEF Rest, WritesLine
    <3>2. PICK from \in DOMAIN file[f] : BlockAt(file[f], from, f, shown[f], {})
      <4>1. f \in Kinds \ ({asking} \cup created \cup cut) /\ LogLine \notin {}
        BY <2>1
      <4>2. \E from \in DOMAIN file[f] : BlockAt(file[f], from, f, shown[f], Rest(f))
        BY <2>1, <3>1, <4>1, Zenon DEF IInv, Recorded
      <4> QED BY <3>1, <4>2
    <3>3. CASE f # log_file
      BY <2>1, <3>1, <3>2, <3>3 DEF WritesLine
    <3>4. CASE f = log_file
      <4>1. f = "par" /\ writing = "encoder" /\ writing \in created /\ writing \in Kinds
        BY <2>1, <2>4, <3>4, TargetIs, SpecialValues DEF WritesLine
      <4>2. file'[f] = Append(file[f], line)
        BY <2>1, <3>4 DEF WritesLine
      <4>3. line.kind # f
        BY <4>1 DEF Line, Log, Row
      <4>4. IsLog(line) => line.number <= 1
        <5>1. NextLog(writing) = 1
          BY <4>1, NextLogIs DEF IInv, Typed
        <5>2. CASE d = LogLine
          BY <5>1, <5>2 DEF Line, Log
        <5>3. CASE d # LogLine
          BY <4>1, <5>3 DEF Line, Row, IsLog
        <5> QED BY <5>2, <5>3
      <4>5. BlockAt(file'[f], from, f, shown[f], {})
        BY <2>1, <2>2, <3>2, <4>2, <4>3, <4>4, BlockStays
      <4>6. from \in DOMAIN file'[f]
        BY <4>5 DEF BlockAt
      <4> QED BY <2>1, <3>1, <4>5, <4>6
    <3> QED BY <3>3, <3>4
  <2> QED BY <2>3, <2>4
<1> QED BY <1>1 DEF Recorded

\* A row stays in the file.
LEMMA AppendKeepsRows ==
  ASSUME NEW lines, GoodFile(lines), NEW l, GoodLine(l), NEW d, NEW v, FromRow(lines, d, v)
  PROVE  FromRow(Append(lines, l), d, v)
<1>1. lines \in Seq(Lines) /\ l \in Lines
  BY DEF GoodFile, GoodLine
<1>2. /\ DOMAIN lines \subseteq DOMAIN Append(lines, l)
      /\ \A i \in DOMAIN lines : Append(lines, l)[i] = lines[i]
  BY <1>1
<1> QED BY <1>2, Zenon DEF FromRow

LEMMA WriteKeeps ==
  ASSUME IInv, LogFileWriteString
  PROVE  IInv'
<1>1. PICK d \in {LogLine} \cup Drivers : WritesLine(d)
  BY WriteIs
<1> DEFINE line == Line(writing, d)
<1>2. GoodLine(line)
  BY <1>1, LineIsGood
<1>3. \A f \in Kinds : file'[f] = Append(file[f], line) \/ file'[f] = file[f]
  BY <1>1 DEF WritesLine
<1>4. \A f \in Kinds : GoodFile(file'[f]) /\ HasLast(file'[f])
  <2>1. ASSUME NEW f \in Kinds
        PROVE  GoodFile(file'[f]) /\ HasLast(file'[f])
    <3>1. GoodFile(file[f]) /\ HasLast(file[f])
      BY DEF IInv, Typed
    <3>2. GoodFile(Append(file[f], line)) /\ HasLast(Append(file[f], line))
      BY <1>2, <3>1, AppendGood, AppendHasLast
    <3> QED BY <1>3, <3>1, <3>2
  <2> QED BY <2>1
<1> HIDE DEF line
<1>5. /\ writing \in Kinds /\ writing # "none" /\ todo' = todo \ {d} /\ d \in todo
      /\ writing' = IF todo = {d} THEN "none" ELSE writing
      /\ asking = "none" /\ asking' = "none" /\ log_file' = log_file
      /\ DOMAIN file' = Kinds /\ (cut' = cut \/ cut' = cut \cup {writing})
      /\ UNCHANGED <<exists, arrays, GeneralStatus, loaded, dialog, checks, shown, created>>
  BY <1>1, SpecialValues DEF WritesLine
<1>6. Typed'
  <2>1. /\ todo' \subseteq {LogFileSetting, LogLine} \cup Drivers
        /\ writing' \in Kinds \cup {"none"} /\ (writing' = "none" <=> todo' = {})
        /\ cut' \subseteq Kinds
    <3>1. todo = {d} <=> todo' = {}
      BY <1>5
    <3>2. todo \subseteq {LogFileSetting, LogLine} \cup Drivers /\ cut \subseteq Kinds
      BY DEF IInv, Typed
    <3>3. todo' \subseteq todo /\ cut' \subseteq Kinds
      BY <1>5, <3>2
    <3> QED BY <1>5, <3>1, <3>2, <3>3
  <2> QED BY <1>4, <1>5, <2>1 DEF IInv, Typed, arrays, dialog
<1>7. Absent'
  <2>1. ASSUME NEW k \in Kinds, k \notin exists
        PROVE  file'[k] = <<>>
    <3>1. k # log_file
      BY <1>1, <2>1, SpecialValues DEF WritesLine
    <3> QED BY <1>1, <2>1, <3>1 DEF WritesLine, IInv, Absent
  <2> QED BY <1>5, <2>1 DEF Absent
<1>8. InOrder'
  <2>1. CASE writing' = "none"
    BY <2>1 DEF InOrder
  <2>2. CASE writing' = writing
    <3>1. Rows(writing)' = Rows(writing) /\ Target(writing)' = Target(writing)
      BY <1>5, <2>2 DEF Rows, Actual, Target, arrays
    <3>2. /\ LogFileSetting \notin todo' /\ LogLine \notin todo'
          /\ todo' \cap Drivers \subseteq Rows(writing)
          /\ log_file' \in {Target(writing), "general"}
          /\ Target(writing) \in Kinds => Target(writing) \in exists'
      BY <1>1, <1>5 DEF WritesLine, IInv, InOrder
    <3> QED BY <3>1, <3>2 DEF InOrder
  <2> QED BY <1>5, <2>1, <2>2
<1>9. Fresh'
  <2>1. LogLine \notin todo' /\ \A k \in created : k # "none"
    BY <1>1, <1>5, SpecialValues DEF WritesLine, IInv, Typed
  <2> QED BY <1>5, <2>1 DEF Fresh
<1>10. AsShown'
  <2>1. \A k \in Kinds : k # "none"
    BY SpecialValues
  <2> QED BY <1>5, <2>1 DEF IInv, AsShown, arrays
<1>11. Recorded' /\ LogNumbersGrow'
  BY <1>1, WriteRecords, WriteGrows
<1>12. ReportIsOfThisFile'
  BY <1>5, NoReportNeeded
<1>13. Remembered'
  <2>1. DOMAIN Tmp = Kinds /\ Tmp' = Tmp
    BY <1>5 DEF IInv, Remembered, arrays
  <2>2. ASSUME "serial" \in Kinds, NEW e \in Drivers
        PROVE  FromRow(file'["serial"], e, Tmp["serial"][e])
    <3>1. FromRow(file["serial"], e, Tmp["serial"][e]) /\ GoodFile(file["serial"])
      BY <2>2 DEF IInv, Remembered, Typed
    <3> QED BY <1>2, <1>3, <2>2, <3>1, AppendKeepsRows
  <2> QED BY <2>1, <2>2, Zenon DEF Remembered
<1> QED BY <1>4, <1>6, <1>7, <1>8, <1>9, <1>10, <1>11, <1>12, <1>13 DEF IInv

------------------------------------------------------------------------------
(* The theorems. *)

LEMMA Invariance == Spec => []IInv
<1>1. Init => IInv
  BY Start
<1>2. IInv /\ [Next]_vars => IInv'
  <2> SUFFICES ASSUME IInv, [Next]_vars PROVE IInv'
    OBVIOUS
  <2>1. CASE \E k \in Kinds : Check(k) \/ ReadLog(k)
    BY <2>1, CheckKeeps, ReadLogKeeps
  <2>2. CASE Listen
    BY <2>2, ListenKeeps
  <2>3. CASE LogFileSet
    BY <2>3, LogFileSetKeeps
  <2>4. CASE LogFileWriteString
    BY <2>4, WriteKeeps
  <2>5. CASE RecordElsewhere
    BY <2>5, RecordElsewhereKeeps
  <2>6. CASE LoadEncoderFromFile
    BY <2>6, LoadKeeps
  <2>7. CASE Restart
    BY <2>7, RestartKeeps
  <2>8. CASE UNCHANGED vars
    <3>1. /\ UNCHANGED <<files, arrays, GeneralStatus, loaded, dialog, pending, checks,
                         history>>
      BY <2>8 DEF vars
    <3>2. DOMAIN file' = Kinds /\ \A f \in Kinds : GoodFile(file'[f]) /\ HasLast(file'[f])
      BY <3>1, FilesSame DEF files
    <3>3. Typed'
      BY <3>1, <3>2 DEF IInv, Typed, files, arrays, dialog, pending, history
    <3>4. Absent' /\ Fresh' /\ AsShown'
      BY <3>1 DEF IInv, Absent, Fresh, AsShown, files, arrays, dialog, pending, history
    <3>5. InOrder'
      <4>1. Rows(writing)' = Rows(writing) /\ Target(writing)' = Target(writing)
        BY <3>1 DEF Rows, Actual, Target, arrays, pending, history
      <4> QED BY <3>1, <4>1 DEF IInv, InOrder, files, pending
    <3>6. Recorded' /\ LogNumbersGrow' /\ ReportIsOfThisFile' /\ Remembered'
      BY <3>1, RecordedSame, FilesSame, ReportSame, RememberedSame
         DEF IInv, files, arrays, dialog, pending, history
    <3> QED BY <3>2, <3>3, <3>4, <3>5, <3>6 DEF IInv
  <2> QED BY <2>1, <2>2, <2>3, <2>4, <2>5, <2>6, <2>7, <2>8 DEF Next
<1> QED BY <1>1, <1>2, PTL DEF Spec

\* The types of the files, the arrays and the dialog, with a check that is
\* either asking or writing (the three Check*Assoc functions).
THEOREM TypeCorrect == Spec => []TypeOK
<1>1. IInv => TypeOK
  <2> SUFFICES ASSUME IInv PROVE TypeOK
    OBVIOUS
  <2>1. ASSUME NEW k \in Kinds, NEW i \in DOMAIN file[k]
        PROVE  file[k][i].number \in Nat /\ (file[k][i].value = 0 <=> file[k][i].kind = "log")
    <3>1. GoodLine(file[k][i])
      BY DEF IInv, Typed, GoodFile
    <3> QED BY <3>1 DEF GoodLine, Lines, NotFound
  <2>2. ASSUME NEW k \in Kinds, NEW d \in Drivers
        PROVE  /\ Paragorn[k][d] \in Values \cup Drivers \cup {NotFound}
               /\ Array[k][d] \in Drivers \cup Values \cup {NotFound, MinusOne}
               /\ shown[k][d] \in Values \cup Drivers \cup {NotFound}
    BY DEF IInv, Typed, AllValues, ShownValues
  <2>3. count \in 0 .. LIMITCHECKLOG
    BY CheckAssumption DEF IInv, Typed
  <2> QED BY <2>1, <2>2, <2>3 DEF IInv, Typed, TypeOK
<1> QED BY <1>1, Invariance, PTL

\* The numbers of the blocks in a log file grow (max_log + 1 in CheckDrvAssoc,
\* CheckParAssoc and CheckEncodeAssoc), whatever is interrupted or disturbed.
THEOREM BlocksAreNumbered == Spec => []LogNumbersGrow
<1>1. IInv => LogNumbersGrow
  BY DEF IInv
<1> QED BY <1>1, Invariance, PTL

\* The comparison put to the user is between the drivers and the file as it
\* is (the rows taken by Analizza1 and AnalizzaFilePar).
THEOREM QuestionIsTrue == Spec => []ReportIsOfThisFile
<1>1. IInv => ReportIsOfThisFile
  BY DEF IInv
<1> QED BY <1>1, Invariance, PTL

\* What was accepted is what the scanners will find in the log file.
THEOREM AcceptedIsOnRecord == Spec => []SavedAsShown
<1>1. IInv => SavedAsShown
  <2> SUFFICES ASSUME IInv, NEW k \in Kinds \ ({asking} \cup created \cup cut),
                      NEW d \in Drivers, writing = "none", GeneralStatus[k] = 1
               PROVE  \/ InFile(k, d) = shown[k][d]
                      \/ k = "par" /\ shown[k][d] = VelHomeMinusOne
    BY DEF SavedAsShown
  <2>1. k \in Kinds /\ k # "none" /\ GoodFile(file[k]) /\ HasLast(file[k])
    BY SpecialValues DEF IInv, Typed
  <2>2. Rest(k) = {}
    BY <2>1 DEF Rest
  <2>3. PICK from \in DOMAIN file[k] : BlockAt(file[k], from, k, shown[k], {})
    <3>1. LogLine \notin {}
      OBVIOUS
    <3>2. \E from \in DOMAIN file[k] : BlockAt(file[k], from, k, shown[k], Rest(k))
      BY <2>2, <3>1, Zenon DEF IInv, Recorded
    <3> QED BY <2>2, <3>2
  <2>4. InFile(k, d) = Reordered(file[k], FromLastLog(file[k], k), NothingShown)[d]
    BY <2>1, ScanIs DEF InFile
  <2> QED BY <2>1, <2>3, <2>4, BlockIsFound
<1> QED BY <1>1, Invariance, PTL
==============================================================================

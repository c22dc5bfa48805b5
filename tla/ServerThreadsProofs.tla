------------------------- MODULE ServerThreadsProofs ---------------------------
(***************************************************************************)
(* Proofs about the threads of the server, for any clients, any table and  *)
(* any number of lines: what the variables hold, that a worker leaves      *)
(* nothing behind in the table of the output module, and that an answer    *)
(* goes to the client that is owed it.                                     *)
(***************************************************************************)
EXTENDS ServerThreads, FiniteSetTheorems, SequenceTheorems, TLAPS

------------------------------------------------------------------------------
(* Sequences.                                                              *)

LEMMA OneMore ==
  ASSUME NEW S, NEW p \in Seq(S), NEW a \in S, NEW q, q = p \o <<a>>
  PROVE  /\ q \in Seq(S) /\ Len(q) = Len(p) + 1 /\ q[Len(p) + 1] = a
         /\ \A i \in 1 .. Len(p) : q[i] = p[i]
OBVIOUS

LEMMA HeadOfOne == \A x : <<x>> # <<>> /\ Head(<<x>>) = x /\ Len(<<x>>) = 1
OBVIOUS

\* What is left of a sequence after its first operations.
LEMMA WhatIsLeft ==
  ASSUME NEW S, NEW s \in Seq(S), NEW n \in Nat, Len(s) = n, NEW i \in 1 .. n
  PROVE  /\ SubSeq(s, i, n) \in Seq(S) /\ SubSeq(s, i, n) # <<>>
         /\ Head(SubSeq(s, i, n)) = s[i]
         /\ Tail(SubSeq(s, i, n)) = SubSeq(s, i + 1, n)
<1> DEFINE r == SubSeq(s, i, n)
<1>1. r \in Seq(S) /\ Len(r) = n - i + 1
  OBVIOUS
<1>2. \A j \in 1 .. n - i + 1 : r[j] = s[i + j - 1]
  OBVIOUS
<1>3. r # <<>> /\ Head(r) = s[i]
  BY <1>1, <1>2
<1>4. /\ Tail(r) \in Seq(S) /\ Len(Tail(r)) = n - i
      /\ \A j \in 1 .. n - i : Tail(r)[j] = r[j + 1]
  <2> HIDE DEF r
  <2> QED BY <1>1, <1>3
<1>5. /\ SubSeq(s, i + 1, n) \in Seq(S) /\ Len(SubSeq(s, i + 1, n)) = n - i
      /\ \A j \in 1 .. n - i : SubSeq(s, i + 1, n)[j] = s[i + j]
  OBVIOUS
<1>6. \A j \in 1 .. n - i : Tail(r)[j] = SubSeq(s, i + 1, n)[j]
  BY <1>2, <1>4, <1>5
<1>7. Tail(r) = SubSeq(s, i + 1, n)
  <2> HIDE DEF r
  <2> QED BY <1>4, <1>5, <1>6, SeqEqual
<1> QED BY <1>1, <1>3, <1>7

LEMMA LargerSet ==
  ASSUME NEW S, NEW T, S \subseteq T, NEW p \in Seq(S)
  PROVE  p \in Seq(T)
OBVIOUS

LEMMA AllOrNothing ==
  ASSUME NEW S, NEW s \in Seq(S), NEW n \in Nat, Len(s) = n
  PROVE  SubSeq(s, 1, n) = s /\ SubSeq(s, n + 1, n) = <<>>
<1>1. SubSeq(s, 1, n) = s
  BY SubSeqFull, Zenon
<1>2. SubSeq(s, n + 1, n) \in Seq(S) /\ Len(SubSeq(s, n + 1, n)) = 0
  OBVIOUS
<1>3. \A t \in Seq(S) : Len(t) = 0 => t = <<>>
  OBVIOUS
<1> QED BY <1>1, <1>2, <1>3, Zenon

------------------------------------------------------------------------------
(* The programs of the threads.                                            *)

Harmless == {"SockidOn", "Output", "OutputAll", "LogFileSet", "LogFileRead", "fclose"}
Names == Harmless \cup {"TcpUserArrayInsert", "TcpUserArrayDelete", "Spawn", "born", "recv"}
Files == {"", "general", "serial"}
Ops   == {o \in Names \X Files : o[1] = "LogFileSet" => o[2] # ""}

\* Neither enters a socket in the table, nor removes one, nor starts a worker.
CommanderOps == {o \in Ops : o[1] \in Harmless}

\* What is left of the acceptor's program: all of it, ..., nothing.
AcceptorAt(i) == SubSeq(Accepting, i, 5)

Born == << <<"born", "">> >>
Recv == << <<"recv", "">> >>

WorkerPrograms == { <<>>, Born, Recv, Disconnecting, Tail(Disconnecting) }

LEMMA NamedOps ==
  /\ <<"SockidOn", "">> \in CommanderOps /\ <<"LogFileSet", "general">> \in CommanderOps
  /\ <<"LogFileSet", "serial">> \in CommanderOps /\ <<"LogFileRead", "">> \in CommanderOps
  /\ <<"Output", "">> \in CommanderOps /\ <<"fclose", "">> \in CommanderOps
  /\ <<"OutputAll", "">> \in CommanderOps
  /\ <<"born", "">> \in Ops /\ <<"recv", "">> \in Ops
  /\ <<"TcpUserArrayInsert", "">> \in Ops /\ <<"TcpUserArrayDelete", "">> \in Ops
  /\ <<"Spawn", "">> \in Ops
  /\ CommanderOps \subseteq Ops
BY DEF CommanderOps, Ops, Names, Harmless, Files

\* The acceptor starts the worker last.
LEMMA AcceptingIs ==
  /\ Accepting \in Seq(Ops) /\ Len(Accepting) = 5
  /\ Accepting[1] = <<"SockidOn", "">> /\ Accepting[2] = <<"TcpUserArrayInsert", "">>
  /\ Accepting[3] = <<"Output", "">> /\ Accepting[4] = <<"LogFileSet", "general">>
  /\ Accepting[5] = <<"Spawn", "">>
<1>1. PICK a \in Ops, b \in Ops, c \in Ops, d \in Ops, e \in Ops :
        /\ a = <<"SockidOn", "">> /\ b = <<"TcpUserArrayInsert", "">>
        /\ c = <<"Output", "">> /\ d = <<"LogFileSet", "general">> /\ e = <<"Spawn", "">>
  BY NamedOps, Zenon
<1>2. Accepting = ((<<a, b>> \o <<c>>) \o <<d>>) \o <<e>>
  BY <1>1, Zenon DEF Accepting, Answer, Record
<1>3. <<a, b>> \in Seq(Ops) /\ Len(<<a, b>>) = 2 /\ <<a, b>>[1] = a /\ <<a, b>>[2] = b
  OBVIOUS
<1> DEFINE p == <<a, b>> \o <<c>>
           q == p \o <<d>>
           r == q \o <<e>>
<1>4. p \in Seq(Ops) /\ Len(p) = 3 /\ p[1] = a /\ p[2] = b /\ p[3] = c
  <2> DEFINE o == <<a, b>>
  <2>1. o \in Seq(Ops) /\ Len(o) = 2 /\ o[1] = a /\ o[2] = b /\ p = o \o <<c>>
    BY <1>3
  <2> HIDE DEF o, p
  <2>2. p \in Seq(Ops) /\ Len(p) = Len(o) + 1 /\ p[Len(o) + 1] = c
    BY <2>1, OneMore
  <2>3. \A i \in 1 .. Len(o) : p[i] = o[i]
    BY <2>1, OneMore
  <2> QED BY <2>1, <2>2, <2>3, SMT
<1>5. q \in Seq(Ops) /\ Len(q) = 4 /\ q[1] = a /\ q[2] = b /\ q[3] = c /\ q[4] = d
  <2>1. q = p \o <<d>>
    OBVIOUS
  <2> HIDE DEF p, q
  <2>0. p \in Seq(Ops)
    BY <1>4
  <2>2. q \in Seq(Ops) /\ Len(q) = Len(p) + 1 /\ q[Len(p) + 1] = d
    BY <2>0, <2>1, OneMore
  <2>3. \A i \in 1 .. Len(p) : q[i] = p[i]
    BY <2>0, <2>1, OneMore
  <2> QED BY <1>4, <2>1, <2>2, <2>3, SMT
<1>6. /\ r \in Seq(Ops) /\ Len(r) = 5
      /\ r[1] = a /\ r[2] = b /\ r[3] = c /\ r[4] = d /\ r[5] = e
  <2>1. r = q \o <<e>>
    OBVIOUS
  <2> HIDE DEF q, r
  <2>0. q \in Seq(Ops)
    BY <1>5
  <2>2. r \in Seq(Ops) /\ Len(r) = Len(q) + 1 /\ r[Len(q) + 1] = e
    BY <2>0, <2>1, OneMore
  <2>3. \A i \in 1 .. Len(q) : r[i] = q[i]
    BY <2>0, <2>1, OneMore
  <2> QED BY <1>5, <2>1, <2>2, <2>3, SMT
<1>7. Accepting = r
  BY <1>2
<1> HIDE DEF r
<1> QED BY <1>1, <1>6, <1>7, Zenon

LEMMA AcceptingNames ==
  \A i \in 1 .. 5 : /\ Accepting[i][1] \in {"SockidOn", "TcpUserArrayInsert", "Output",
                                            "LogFileSet", "Spawn"}
                    /\ Accepting[i][1] # "TcpUserArrayDelete"
                    /\ Accepting[i][1] = "Spawn" => i = 5
<1>1. /\ Accepting[1][1] = "SockidOn" /\ Accepting[2][1] = "TcpUserArrayInsert"
      /\ Accepting[3][1] = "Output" /\ Accepting[4][1] = "LogFileSet"
  <2>1. /\ <<"SockidOn", "">>[1] = "SockidOn" /\ <<"Output", "">>[1] = "Output"
        /\ <<"TcpUserArrayInsert", "">>[1] = "TcpUserArrayInsert"
        /\ <<"LogFileSet", "general">>[1] = "LogFileSet"
    OBVIOUS
  <2> QED BY <2>1, AcceptingIs, Zenon
<1>2. Accepting[5][1] = "Spawn"
  <2>1. <<"Spawn", "">>[1] = "Spawn"
    OBVIOUS
  <2> QED BY <2>1, AcceptingIs, Zenon
<1>3. \A i \in 1 .. 5 : i = 1 \/ i = 2 \/ i = 3 \/ i = 4 \/ i = 5
  OBVIOUS
<1> QED BY <1>1, <1>2, <1>3

LEMMA AcceptorTail ==
  ASSUME NEW i \in 1 .. 5
  PROVE  /\ AcceptorAt(i) \in Seq(Ops) /\ AcceptorAt(i) # <<>>
         /\ Head(AcceptorAt(i)) = Accepting[i] /\ Tail(AcceptorAt(i)) = AcceptorAt(i + 1)
<1>1. Accepting \in Seq(Ops) /\ 5 \in Nat /\ Len(Accepting) = 5
  BY AcceptingIs
<1>2. SubSeq(Accepting, i, 5) \in Seq(Ops)
  BY <1>1, WhatIsLeft, Zenon
<1>3. SubSeq(Accepting, i, 5) # <<>>
  BY <1>1, WhatIsLeft, Zenon
<1>4. Head(SubSeq(Accepting, i, 5)) = Accepting[i]
  BY <1>1, WhatIsLeft, Zenon
<1>5. Tail(SubSeq(Accepting, i, 5)) = SubSeq(Accepting, i + 1, 5)
  BY <1>1, WhatIsLeft, Zenon
<1> QED BY <1>2, <1>3, <1>4, <1>5, Zenon DEF AcceptorAt

LEMMA AcceptorEnds ==
  /\ AcceptorAt(6) = <<>> /\ AcceptorAt(1) = Accepting /\ AcceptorAt(6) \in Seq(Ops)
<1>1. AcceptorAt(6) = <<>> /\ AcceptorAt(1) = Accepting
  <2>1. 5 \in Nat /\ 5 + 1 = 6
    OBVIOUS
  <2>2. SubSeq(Accepting, 1, 5) = Accepting /\ SubSeq(Accepting, 5 + 1, 5) = <<>>
    BY AcceptingIs, AllOrNothing, <2>1, Zenon
  <2>3. SubSeq(Accepting, 6, 5) = <<>>
    BY <2>1, <2>2
  <2> QED BY <2>2, <2>3, Zenon DEF AcceptorAt
<1>2. <<>> \in Seq(Ops)
  OBVIOUS
<1> QED BY <1>1, <1>2, Zenon

\* A worker takes its socket out of the table last.
LEMMA DisconnectingIs ==
  /\ Disconnecting \in Seq(Ops)
  /\ Disconnecting # <<>> /\ Head(Disconnecting) = <<"LogFileSet", "general">>
  /\ Tail(Disconnecting) \in Seq(Ops) /\ Tail(Disconnecting) # <<>>
  /\ Head(Tail(Disconnecting)) = <<"TcpUserArrayDelete", "">>
  /\ Tail(Tail(Disconnecting)) = <<>>
<1>1. PICK a \in Ops, b \in Ops :
        a = <<"LogFileSet", "general">> /\ b = <<"TcpUserArrayDelete", "">>
  BY NamedOps, Zenon
<1> DEFINE p == <<a>> \o <<b>>
<1>2. Disconnecting = p
  BY <1>1, Zenon DEF Disconnecting, Record
<1>3. /\ <<a>> \in Seq(Ops) /\ Len(<<a>>) = 1 /\ <<a>>[1] = a
      /\ <<b>> \in Seq(Ops) /\ Len(<<b>>) = 1 /\ <<b>>[1] = b /\ <<b>> # <<>>
      /\ Head(<<b>>) = b /\ Tail(<<b>>) = <<>>
  OBVIOUS
<1>4. p \in Seq(Ops) /\ Len(p) = 2 /\ p[1] = a /\ p[2] = b
  <2> DEFINE o == <<a>>
  <2>0. p = o \o <<b>>
    OBVIOUS
  <2>1. o \in Seq(Ops) /\ Len(o) = 1 /\ o[1] = a
    BY <1>3
  <2> HIDE DEF o, p
  <2>2. p \in Seq(Ops) /\ Len(p) = Len(o) + 1 /\ p[Len(o) + 1] = b
    BY <2>0, <2>1, OneMore
  <2>3. \A i \in 1 .. Len(o) : p[i] = o[i]
    BY <2>0, <2>1, OneMore
  <2> QED BY <2>0, <2>1, <2>2, <2>3, SMT
<1> HIDE DEF p
<1>5. /\ p # <<>> /\ Head(p) = a
      /\ Tail(p) \in Seq(Ops) /\ Len(Tail(p)) = 1 /\ Tail(p)[1] = b
  BY <1>4
<1>6. Tail(p) = <<b>>
  <2> DEFINE t == <<b>>
  <2>1. t \in Seq(Ops) /\ Len(t) = 1 /\ t[1] = b
    BY <1>3
  <2> HIDE DEF t
  <2>2. Len(Tail(p)) = Len(t) /\ \A i \in 1 .. Len(Tail(p)) : Tail(p)[i] = t[i]
    BY <1>5, <2>1
  <2>3. Tail(p) = t
    BY <1>5, <2>1, <2>2, SeqEqual, Zenon
  <2> QED BY <2>3 DEF t
<1> QED BY <1>1, <1>2, <1>3, <1>4, <1>5, <1>6, Zenon

\* The programs of the command thread.
LEMMA ProgramParts ==
  /\ Check \in Seq(CommanderOps) /\ Answer \in Seq(CommanderOps)
  /\ Record("general") \in Seq(CommanderOps) /\ <<>> \in Seq(CommanderOps)
  /\ << <<"SockidOn", "">> >> \in Seq(CommanderOps)
  /\ Query \in Seq(CommanderOps) /\ ReadLog \in Seq(CommanderOps)
<1>1. \A a, b \in CommanderOps :
        <<a>> \in Seq(CommanderOps) /\ <<a, b>> \in Seq(CommanderOps)
  OBVIOUS
<1>2. \A p, q \in Seq(CommanderOps) : p \o q \in Seq(CommanderOps)
  OBVIOUS
<1>3. /\ Check \in Seq(CommanderOps) /\ Answer \in Seq(CommanderOps)
      /\ Record("general") \in Seq(CommanderOps)
  BY NamedOps, <1>1, Zenon DEF Check, Answer, Record
<1>4. /\ << <<"LogFileSet", "serial">>, <<"LogFileRead", "">> >> \in Seq(CommanderOps)
      /\ << <<"fclose", "">> >> \in Seq(CommanderOps)
      /\ << <<"SockidOn", "">> >> \in Seq(CommanderOps)
  BY NamedOps, <1>1, Zenon
<1>5. ReadLog \in Seq(CommanderOps)
  BY <1>2, <1>3, <1>4, Zenon DEF ReadLog
<1>6. <<>> \in Seq(CommanderOps)
  OBVIOUS
<1> QED BY <1>3, <1>4, <1>5, <1>6, Zenon DEF Query

LEMMA ExecutingIs ==
  ASSUME NEW check \in {<<>>, Check}, NEW body \in {Query, ReadLog}
  PROVE  /\ check \in Seq(CommanderOps)
         /\ Executing(body) \o check \in Seq(CommanderOps)
<1>1. \A p, q \in Seq(CommanderOps) : p \o q \in Seq(CommanderOps)
  OBVIOUS
<1>2. check \in Seq(CommanderOps) /\ body \in Seq(CommanderOps)
  BY ProgramParts, Zenon
<1>3. Executing(body) \in Seq(CommanderOps)
  BY <1>1, <1>2, ProgramParts, Zenon DEF Executing
<1> QED BY <1>1, <1>2, <1>3, Zenon

\* What the next operation of a thread may be, and what is left after it.
LEMMA CommanderStep ==
  ASSUME NEW p \in Seq(CommanderOps), p # <<>>
  PROVE  Head(p)[1] \in Harmless /\ Tail(p) \in Seq(CommanderOps)
<1>1. Head(p) \in CommanderOps /\ Tail(p) \in Seq(CommanderOps)
  OBVIOUS
<1> QED BY <1>1 DEF CommanderOps

LEMMA WorkerStep ==
  ASSUME NEW p \in WorkerPrograms, p # <<>>
  PROVE  /\ Head(p)[1] \in {"born", "recv", "LogFileSet", "TcpUserArrayDelete"}
         /\ Head(p)[1] = "LogFileSet" => Tail(p) = Tail(Disconnecting)
         /\ Head(p)[1] = "TcpUserArrayDelete" => Tail(p) = <<>>
<1>1. Head(Born) = <<"born", "">> /\ Head(Recv) = <<"recv", "">>
  <2>1. \A x : Head(<<x>>) = x
    OBVIOUS
  <2> QED BY <2>1, Zenon DEF Born, Recv
<1>2. /\ <<"born", "">>[1] = "born" /\ <<"recv", "">>[1] = "recv"
      /\ <<"LogFileSet", "general">>[1] = "LogFileSet"
      /\ <<"TcpUserArrayDelete", "">>[1] = "TcpUserArrayDelete"
  OBVIOUS
<1>4. CASE p = Born
  <2>1. Head(p)[1] = "born"
    BY <1>1, <1>2, <1>4, Zenon
  <2> QED BY <2>1
<1>5. CASE p = Recv
  <2>1. Head(p)[1] = "recv"
    BY <1>1, <1>2, <1>5, Zenon
  <2> QED BY <2>1
<1>6. CASE p = Disconnecting
  <2>1. Head(p)[1] = "LogFileSet"
    BY <1>2, <1>6, DisconnectingIs, Zenon
  <2> QED BY <2>1, <1>6
<1>7. CASE p = Tail(Disconnecting)
  <2>1. Head(p)[1] = "TcpUserArrayDelete" /\ Tail(p) = <<>>
    BY <1>2, <1>7, DisconnectingIs, Zenon
  <2> QED BY <2>1
<1> QED BY <1>4, <1>5, <1>6, <1>7, Zenon DEF WorkerPrograms

LEMMA WorkerProgramsAreSeqs == WorkerPrograms \subseteq Seq(Ops)
<1>1. Born \in Seq(Ops) /\ Recv \in Seq(Ops) /\ <<>> \in Seq(Ops)
  <2>1. \A a \in Ops : <<a>> \in Seq(Ops)
    OBVIOUS
  <2>2. <<>> \in Seq(Ops)
    OBVIOUS
  <2> QED BY <2>1, <2>2, NamedOps, Zenon DEF Born, Recv
<1> QED BY <1>1, DisconnectingIs, Zenon DEF WorkerPrograms

------------------------------------------------------------------------------
(* The invariant.                                                          *)

Typed ==
  /\ net \in [Clients -> {"away", "calling", "connected", "closed"}]
  /\ sock \in [Clients -> Clients \cup {None}] /\ client_sock \in Clients \cup {None}
  /\ ops \in [Threads -> Seq(Ops)]

Programs ==
  /\ \E i \in 1 .. 6 : ops["acceptor"] = AcceptorAt(i)
  /\ ops["commander"] \in Seq(CommanderOps)
  /\ \A w \in Clients : ops[w] \in WorkerPrograms

\* A client that was not accepted yet has no worker ...
Fresh == \A c \in Clients : net[c] \in {"away", "calling"} => sock[c] = None /\ ops[c] = <<>>

\* ... nor has the one the acceptor is busy with.
Guarded ==
  ops["acceptor"] # <<>> =>
    /\ client_sock \in Clients /\ net[client_sock] \in {"connected", "closed"}
    /\ sock[client_sock] = None /\ ops[client_sock] = <<>>

GInv == Typed /\ Programs /\ Fresh /\ Guarded /\ NoGhosts

LEMMA TheThreads ==
  /\ "acceptor" \in Threads /\ "commander" \in Threads /\ Clients \subseteq Threads
  /\ "acceptor" \notin Clients /\ "commander" \notin Clients
  /\ None \notin Clients /\ Threads = Clients \cup {"acceptor", "commander"}
BY NoneAssumption DEF Threads

LEMMA GInvInit == Init => GInv
<1> SUFFICES ASSUME Init PROVE GInv
  OBVIOUS
<1> USE DEF Init
<1>1. <<>> \in Seq(Ops) /\ <<>> \in Seq(CommanderOps) /\ 6 \in 1 .. 6
  OBVIOUS
<1>2. \A t \in Threads : ops[t] = <<>>
  OBVIOUS
<1>3. Typed
  BY <1>1 DEF Typed
<1>4. Programs
  BY <1>1, <1>2, TheThreads, AcceptorEnds, Zenon DEF Programs, WorkerPrograms
<1>5. Fresh /\ Guarded /\ NoGhosts
  BY <1>2, TheThreads DEF Fresh, Guarded, NoGhosts
<1> QED BY <1>3, <1>4, <1>5 DEF GInv

\* An operation of the acceptor, as far as programs go.
LEMMA AcceptorDone ==
  ASSUME Typed, Programs, ops["acceptor"] # <<>>
  PROVE  /\ \E i \in 1 .. 5 : /\ ops["acceptor"] = AcceptorAt(i)
                             /\ Head(ops["acceptor"]) = Accepting[i]
                             /\ Tail(ops["acceptor"]) = AcceptorAt(i + 1)
         /\ Tail(ops["acceptor"]) \in Seq(Ops)
         /\ \E i \in 1 .. 6 : Tail(ops["acceptor"]) = AcceptorAt(i)
<1>1. PICK i \in 1 .. 6 : ops["acceptor"] = AcceptorAt(i)
  BY DEF Programs
<1>2. i # 6
  BY <1>1, AcceptorEnds, Zenon
<1>3. i \in 1 .. 5 /\ i + 1 \in 1 .. 6
  BY <1>2
<1>4. Head(ops["acceptor"]) = Accepting[i] /\ Tail(ops["acceptor"]) = AcceptorAt(i + 1)
  BY <1>1, <1>3, AcceptorTail, Zenon
<1>5. AcceptorAt(i + 1) \in Seq(Ops)
  <2>1. CASE i = 5
    <3>1. i + 1 = 6
      BY <2>1
    <3> QED BY <3>1, AcceptorEnds, Zenon
  <2>2. CASE i # 5
    <3>1. i + 1 \in 1 .. 5
      BY <1>3, <2>2
    <3> QED BY <3>1, AcceptorTail, Zenon
  <2> QED BY <2>1, <2>2
<1> QED BY <1>1, <1>3, <1>4, <1>5, Zenon

\* An operation that touches no socket, no table and no thread.
LEMMA QuietStep ==
  ASSUME GInv, NEW t \in Threads, ops[t] # <<>>, Head(ops[t])[1] \in Harmless,
         Done(t), UNCHANGED <<net, sock, client_sock, sockid_array>>
  PROVE  GInv'
<1> USE DEF GInv
<1>1. /\ ops' = [ops EXCEPT ![t] = Tail(@)] /\ ops \in [Threads -> Seq(Ops)]
      /\ net' = net /\ sock' = sock /\ client_sock' = client_sock
      /\ sockid_array' = sockid_array
  BY DEF Done, Typed
<1>2. ops[t] \in Seq(Ops)
  BY <1>1
<1>3. Tail(ops[t]) \in Seq(Ops)
  BY <1>2
<1>4. /\ ops' \in [Threads -> Seq(Ops)] /\ ops'[t] = Tail(ops[t])
      /\ \A s \in Threads : s # t => ops'[s] = ops[s]
  BY <1>1, <1>3
<1>5. Typed'
  BY <1>1, <1>4 DEF Typed
<1>6. CASE t = "acceptor"
  <2>1. \A w \in Clients : ops'[w] = ops[w]
    BY <1>4, <1>6, TheThreads, Zenon
  <2>2. ops'["commander"] = ops["commander"]
    BY <1>4, <1>6, TheThreads
  <2>3. \E i \in 1 .. 6 : ops'["acceptor"] = AcceptorAt(i)
    BY <1>4, <1>6, AcceptorDone, Zenon
  <2>4. Programs'
    BY <2>1, <2>2, <2>3, Zenon DEF Programs
  <2>5. Fresh' /\ Guarded' /\ NoGhosts'
    BY <1>1, <1>6, <2>1, Zenon DEF Fresh, Guarded, NoGhosts
  <2> QED BY <1>5, <2>4, <2>5
<1>7. CASE t = "commander"
  <2>1. \A w \in Clients : ops'[w] = ops[w]
    BY <1>4, <1>7, TheThreads, Zenon
  <2>2. ops'["acceptor"] = ops["acceptor"]
    BY <1>4, <1>7, TheThreads
  <2>3. ops'["commander"] \in Seq(CommanderOps)
    BY <1>4, <1>7, CommanderStep, Zenon DEF Programs
  <2>4. Programs'
    BY <2>1, <2>2, <2>3, Zenon DEF Programs
  <2>5. Fresh' /\ Guarded' /\ NoGhosts'
    BY <1>1, <2>1, <2>2, Zenon DEF Fresh, Guarded, NoGhosts
  <2> QED BY <1>5, <2>4, <2>5
<1>8. CASE t \in Clients
  <2>1. ops[t] \in WorkerPrograms
    BY <1>8 DEF Programs
  <2>2. Head(ops[t])[1] = "LogFileSet"
    BY <2>1, WorkerStep DEF Harmless
  <2>3. ops'[t] = Tail(Disconnecting)
    BY <1>4, <2>1, <2>2, WorkerStep, Zenon
  <2>4. ops'[t] \in WorkerPrograms /\ ops'[t] # <<>>
    BY <2>3, DisconnectingIs, Zenon DEF WorkerPrograms
  <2>5. ops'["acceptor"] = ops["acceptor"] /\ ops'["commander"] = ops["commander"]
    BY <1>4, <1>8, TheThreads, Zenon
  <2>6. \A w \in Clients : w # t => ops'[w] = ops[w]
    BY <1>4, TheThreads, Zenon
  <2>7. Programs'
    BY <2>4, <2>5, <2>6, Zenon DEF Programs
  <2>8. Fresh'
    BY <1>1, <1>8, <2>6, Zenon DEF Fresh
  <2>9. Guarded'
    BY <1>1, <1>8, <2>5, <2>6, Zenon DEF Guarded
  <2>10. NoGhosts'
    BY <1>1, <2>4, <2>6, Zenon DEF NoGhosts
  <2> QED BY <1>5, <2>7, <2>8, <2>9, <2>10
<1> QED BY <1>6, <1>7, <1>8, TheThreads, Zenon

\* Only the acceptor enters a socket, and it is one nobody serves yet.
LEMMA InsertStep ==
  ASSUME GInv, NEW t \in Threads, TcpUserArrayInsert(t)
  PROVE  GInv'
<1> USE DEF GInv
<1>1. ops[t] # <<>> /\ Head(ops[t])[1] = "TcpUserArrayInsert"
  BY DEF TcpUserArrayInsert, Does
<1>2. t = "acceptor"
  <2>1. t \notin Clients
    BY <1>1, WorkerStep DEF Programs
  <2>2. t # "commander"
    BY <1>1, CommanderStep DEF Programs, Harmless
  <2> QED BY <2>1, <2>2, TheThreads, Zenon
<1>3. /\ ops' = [ops EXCEPT !["acceptor"] = Tail(@)] /\ ops \in [Threads -> Seq(Ops)]
      /\ net' = net /\ sock' = sock /\ client_sock' = client_sock
      /\ sockid_array' = sockid_array \cup Entered(SocketOf("acceptor"))
  BY <1>2 DEF TcpUserArrayInsert, Done, Typed, clients, shared
<1>4. SocketOf("acceptor") = client_sock
  BY Zenon DEF SocketOf
<1>5. sockid_array' \subseteq sockid_array \cup {client_sock}
  BY <1>3, <1>4 DEF Entered
<1>6. /\ Tail(ops["acceptor"]) \in Seq(Ops)
      /\ \E i \in 1 .. 6 : Tail(ops["acceptor"]) = AcceptorAt(i)
  BY <1>1, <1>2, AcceptorDone
<1>7. /\ ops' \in [Threads -> Seq(Ops)] /\ ops'["acceptor"] = Tail(ops["acceptor"])
      /\ \A s \in Threads : s # "acceptor" => ops'[s] = ops[s]
  BY <1>3, <1>6, TheThreads
<1>8. \A w \in Clients : ops'[w] = ops[w]
  BY <1>7, TheThreads, Zenon
<1>9. ops'["commander"] = ops["commander"]
  BY <1>7, TheThreads
<1>10. Typed'
  BY <1>3, <1>7 DEF Typed
<1>11. Programs'
  BY <1>6, <1>7, <1>8, <1>9, Zenon DEF Programs
<1>12. Fresh' /\ Guarded'
  BY <1>1, <1>2, <1>3, <1>8, Zenon DEF Fresh, Guarded
<1>13. NoGhosts'
  <2>1. sock[client_sock] = None
    BY <1>1, <1>2 DEF Guarded
  <2> QED BY <1>3, <1>5, <1>8, <2>1, TheThreads DEF NoGhosts
<1> QED BY <1>10, <1>11, <1>12, <1>13

\* Only a worker removes one: the socket it reads from.
LEMMA DeleteStep ==
  ASSUME GInv, NEW t \in Threads, TcpUserArrayDelete(t)
  PROVE  GInv'
<1> USE DEF GInv
<1>1. ops[t] # <<>> /\ Head(ops[t])[1] = "TcpUserArrayDelete"
  BY DEF TcpUserArrayDelete, Does
<1>2. t \in Clients
  <2>1. t # "acceptor"
    <3> SUFFICES ASSUME t = "acceptor" PROVE FALSE
      OBVIOUS
    <3>1. PICK i \in 1 .. 5 : Head(ops["acceptor"]) = Accepting[i]
      BY <1>1, AcceptorDone
    <3>2. Accepting[i][1] # "TcpUserArrayDelete"
      BY AcceptingNames, Zenon
    <3> QED BY <1>1, <3>1, <3>2
  <2>2. t # "commander"
    BY <1>1, CommanderStep DEF Programs, Harmless
  <2> QED BY <2>1, <2>2, TheThreads, Zenon
<1>3. /\ ops' = [ops EXCEPT ![t] = Tail(@)] /\ ops \in [Threads -> Seq(Ops)]
      /\ net' = net /\ sock' = sock /\ client_sock' = client_sock
      /\ sockid_array' = sockid_array \ {SocketOf(t)}
  BY DEF TcpUserArrayDelete, Done, Typed, clients, shared
<1>4. SocketOf(t) = sock[t]
  BY <1>2, TheThreads, Zenon DEF SocketOf
<1>5. Tail(ops[t]) = <<>>
  BY <1>1, <1>2, WorkerStep, Zenon DEF Programs
<1>6. <<>> \in Seq(Ops) /\ <<>> \in WorkerPrograms
  BY DEF WorkerPrograms
<1>7. /\ ops' \in [Threads -> Seq(Ops)] /\ ops'[t] = <<>>
      /\ \A s \in Threads : s # t => ops'[s] = ops[s]
  BY <1>3, <1>5, <1>6
<1>8. ops'["acceptor"] = ops["acceptor"] /\ ops'["commander"] = ops["commander"]
  BY <1>2, <1>7, TheThreads, Zenon
<1>9. \A w \in Clients : w # t => ops'[w] = ops[w]
  BY <1>7, TheThreads, Zenon
<1>10. Typed'
  BY <1>3, <1>7 DEF Typed
<1>11. Programs'
  BY <1>6, <1>7, <1>8, <1>9, Zenon DEF Programs
<1>12. Fresh'
  BY <1>3, <1>7, <1>9, Zenon DEF Fresh
<1>13. Guarded'
  BY <1>1, <1>3, <1>8, <1>9, Zenon DEF Guarded
<1>14. NoGhosts'
  BY <1>3, <1>4, <1>9 DEF NoGhosts
<1> QED BY <1>10, <1>11, <1>12, <1>13, <1>14

LEMMA SpawnIsAcceptors ==
  ASSUME GInv, NEW t \in Threads, ops[t] # <<>>, Head(ops[t])[1] = "Spawn"
  PROVE  t = "acceptor"
<1>1. t \notin Clients
  BY WorkerStep DEF GInv, Programs
<1>2. t # "commander"
  BY CommanderStep DEF GInv, Programs, Harmless
<1> QED BY <1>1, <1>2, TheThreads, Zenon

\* The worker starts when its socket is in the table and nothing is left for
\* the acceptor to do.
LEMMA SpawnStep ==
  ASSUME GInv, NEW t \in Threads, Spawn(t)
  PROVE  GInv'
<1> USE DEF GInv
<1>1. ops[t] # <<>> /\ Head(ops[t])[1] = "Spawn"
  BY DEF Spawn, Does
<1>2. t = "acceptor"
  BY <1>1, SpawnIsAcceptors
<1>3. PICK i \in 1 .. 5 : /\ Head(ops["acceptor"]) = Accepting[i]
                         /\ Tail(ops["acceptor"]) = AcceptorAt(i + 1)
  BY <1>1, <1>2, AcceptorDone
<1>4. Tail(ops["acceptor"]) = <<>>
  <2>1. i = 5
    BY <1>1, <1>2, <1>3, AcceptingNames, Zenon
  <2>2. i + 1 = 6
    BY <2>1
  <2> QED BY <1>3, <2>2, AcceptorEnds, Zenon
<1>5. /\ client_sock \in Clients /\ net[client_sock] \in {"connected", "closed"}
      /\ sock[client_sock] = None /\ ops[client_sock] = <<>>
  BY <1>1, <1>2 DEF Guarded
<1>6. /\ ops' = [ops EXCEPT !["acceptor"] = Tail(@), ![client_sock] = Born]
      /\ ops \in [Threads -> Seq(Ops)] /\ net' = net /\ sock' = sock
      /\ client_sock' = client_sock /\ sockid_array' = sockid_array
  BY <1>2 DEF Spawn, Born, Typed, clients, shared, output
<1>7. Born \in Seq(Ops) /\ Born \in WorkerPrograms /\ <<>> \in Seq(Ops)
  <2>1. Born \in WorkerPrograms
    BY DEF WorkerPrograms
  <2>2. <<>> \in Seq(Ops)
    OBVIOUS
  <2> QED BY <2>1, <2>2, WorkerProgramsAreSeqs
<1>8. client_sock \in Threads /\ client_sock # "acceptor" /\ client_sock # "commander"
  BY <1>5, TheThreads, Zenon
<1>9. /\ ops' \in [Threads -> Seq(Ops)]
      /\ ops'["acceptor"] = <<>> /\ ops'[client_sock] = Born
      /\ \A s \in Threads : s # "acceptor" /\ s # client_sock => ops'[s] = ops[s]
  BY <1>4, <1>6, <1>7, <1>8, TheThreads
<1>10. ops'["commander"] = ops["commander"]
  BY <1>8, <1>9, TheThreads
<1>11. \A w \in Clients : w # client_sock => ops'[w] = ops[w]
  BY <1>9, TheThreads, Zenon
<1>12. Typed'
  BY <1>6, <1>9 DEF Typed
<1>13. Programs'
  <2>1. \A w \in Clients : ops'[w] \in WorkerPrograms
    BY <1>7, <1>9, <1>11, Zenon DEF Programs
  <2>2. \E j \in 1 .. 6 : ops'["acceptor"] = AcceptorAt(j)
    <3>1. 6 \in 1 .. 6
      OBVIOUS
    <3> QED BY <1>9, <3>1, AcceptorEnds, Zenon
  <2> QED BY <1>10, <2>1, <2>2, Zenon DEF Programs
<1>14. Fresh'
  BY <1>5, <1>6, <1>11 DEF Fresh
<1>15. Guarded'
  BY <1>9, Zenon DEF Guarded
<1>16. NoGhosts'
  BY <1>5, <1>6, <1>11, TheThreads DEF NoGhosts
<1> QED BY <1>12, <1>13, <1>14, <1>15, <1>16

\* accept gives the acceptor a client without a worker.
LEMMA AcceptStep ==
  ASSUME GInv, NEW c \in Clients, Accept(c)
  PROVE  GInv'
<1> USE DEF GInv
<1>1. /\ ops["acceptor"] = <<>> /\ net[c] = "calling"
      /\ net' = [net EXCEPT ![c] = "connected"] /\ client_sock' = c
      /\ ops' = [ops EXCEPT !["acceptor"] = Accepting] /\ sock' = sock
      /\ sockid_array' = sockid_array /\ ops \in [Threads -> Seq(Ops)]
      /\ net \in [Clients -> {"away", "calling", "connected", "closed"}]
  BY DEF Accept, output, Typed
<1>2. /\ ops' \in [Threads -> Seq(Ops)] /\ ops'["acceptor"] = Accepting
      /\ \A s \in Threads : s # "acceptor" => ops'[s] = ops[s]
  BY <1>1, AcceptingIs, TheThreads
<1>3. /\ net' \in [Clients -> {"away", "calling", "connected", "closed"}]
      /\ net'[c] = "connected" /\ \A d \in Clients : d # c => net'[d] = net[d]
  BY <1>1
<1>4. \A w \in Clients : ops'[w] = ops[w]
  BY <1>2, TheThreads, Zenon
<1>5. ops'["commander"] = ops["commander"]
  BY <1>2, TheThreads
<1>6. Typed'
  BY <1>1, <1>2, <1>3 DEF Typed
<1>7. Programs'
  <2>1. 1 \in 1 .. 6
    OBVIOUS
  <2>2. \E i \in 1 .. 6 : ops'["acceptor"] = AcceptorAt(i)
    BY <1>2, <2>1, AcceptorEnds, Zenon
  <2> QED BY <1>4, <1>5, <2>2, Zenon DEF Programs
<1>8. sock[c] = None /\ ops[c] = <<>>
  BY <1>1 DEF Fresh
<1>9. Fresh'
  BY <1>1, <1>3, <1>4 DEF Fresh
<1>10. Guarded'
  BY <1>1, <1>3, <1>4, <1>8 DEF Guarded
<1>11. NoGhosts'
  BY <1>1, <1>4, Zenon DEF NoGhosts
<1> QED BY <1>6, <1>7, <1>9, <1>10, <1>11

\* Whatever socket it copies, a worker that has begun has not ended.
LEMMA CopySocketStep ==
  ASSUME GInv, NEW w \in Clients, CopySocket(w)
  PROVE  GInv'
<1> USE DEF GInv
<1>1. /\ ops[w] # <<>> /\ ops' = [ops EXCEPT ![w] = Recv]
      /\ sock' = [sock EXCEPT ![w] = client_sock] /\ net' = net
      /\ client_sock' = client_sock /\ sockid_array' = sockid_array
      /\ ops \in [Threads -> Seq(Ops)] /\ sock \in [Clients -> Clients \cup {None}]
      /\ client_sock \in Clients \cup {None}
  BY DEF CopySocket, Recv, Typed, clients, output
<1>2. Recv \in WorkerPrograms /\ Recv # <<>> /\ Recv \in Seq(Ops)
  <2>1. Recv \in WorkerPrograms
    BY DEF WorkerPrograms
  <2>2. \A x : <<x>> # <<>>
    OBVIOUS
  <2> QED BY <2>1, <2>2, WorkerProgramsAreSeqs, Zenon DEF Recv
<1>3. w \in Threads /\ w # "acceptor" /\ w # "commander"
  BY TheThreads, Zenon
<1>4. /\ ops' \in [Threads -> Seq(Ops)] /\ ops'[w] = Recv
      /\ \A s \in Threads : s # w => ops'[s] = ops[s]
  BY <1>1, <1>2, <1>3
<1>5. /\ sock' \in [Clients -> Clients \cup {None}]
      /\ \A v \in Clients : v # w => sock'[v] = sock[v]
  BY <1>1
<1>6. \A v \in Clients : v # w => ops'[v] = ops[v]
  BY <1>4, TheThreads, Zenon
<1>7. ops'["acceptor"] = ops["acceptor"] /\ ops'["commander"] = ops["commander"]
  BY <1>3, <1>4, TheThreads, Zenon
<1>8. Typed'
  BY <1>1, <1>4, <1>5 DEF Typed
<1>9. Programs'
  BY <1>2, <1>4, <1>6, <1>7, Zenon DEF Programs
<1>10. Fresh'
  BY <1>1, <1>5, <1>6, Zenon DEF Fresh
<1>11. Guarded'
  BY <1>1, <1>5, <1>6, <1>7, Zenon DEF Guarded
<1>12. NoGhosts'
  BY <1>1, <1>2, <1>4, <1>5, <1>6, Zenon DEF NoGhosts
<1> QED BY <1>8, <1>9, <1>10, <1>11, <1>12

\* Nor one that sees the end of its connection.
LEMMA ReceiveStep ==
  ASSUME GInv, NEW w \in Clients, Receive(w)
  PROVE  GInv'
<1> USE DEF GInv
<1>1. /\ \/ ops' = ops
         \/ ops' = [ops EXCEPT ![w] = Disconnecting]
      /\ ops[w] # <<>>
      /\ sock' = sock /\ net' = net
      /\ client_sock' = client_sock /\ sockid_array' = sockid_array
      /\ ops \in [Threads -> Seq(Ops)]
  BY DEF Receive, Typed, output
<1>2. CASE ops' = ops
  BY <1>1, <1>2, Zenon DEF Typed, Programs, Fresh, Guarded, NoGhosts
<1>3. CASE ops' = [ops EXCEPT ![w] = Disconnecting]
  <2>1. Disconnecting \in WorkerPrograms
    BY Zenon DEF WorkerPrograms
  <2>2. w \in Threads /\ w # "acceptor" /\ w # "commander"
    BY TheThreads, Zenon
  <2>3. /\ ops' \in [Threads -> Seq(Ops)] /\ ops'[w] = Disconnecting
        /\ \A s \in Threads : s # w => ops'[s] = ops[s]
    BY <1>1, <1>3, <2>2, DisconnectingIs
  <2>4. \A v \in Clients : v # w => ops'[v] = ops[v]
    BY <2>3, TheThreads, Zenon
  <2>5. ops'["acceptor"] = ops["acceptor"] /\ ops'["commander"] = ops["commander"]
    BY <2>2, <2>3, TheThreads, Zenon
  <2>6. Typed'
    BY <1>1, <2>3 DEF Typed
  <2>7. Programs'
    BY <2>1, <2>3, <2>4, <2>5, Zenon DEF Programs
  <2>8. Fresh'
    BY <1>1, <2>4, Zenon DEF Fresh
  <2>9. Guarded'
    BY <1>1, <2>4, <2>5, Zenon DEF Guarded
  <2>10. NoGhosts'
    BY <1>1, <2>3, <2>4, DisconnectingIs, Zenon DEF NoGhosts
  <2> QED BY <2>6, <2>7, <2>8, <2>9, <2>10
<1> QED BY <1>1, <1>2, <1>3

LEMMA TurnStep ==
  ASSUME GInv, Turn
  PROVE  GInv'
<1> USE DEF GInv
<1>1. PICK check \in {<<>>, Check}, body \in {Query, ReadLog} :
        \/ ops' = [ops EXCEPT !["commander"] = check]
        \/ ops' = [ops EXCEPT !["commander"] = Executing(body) \o check]
  BY Zenon DEF Turn
<1>2. PICK p \in Seq(CommanderOps) : ops' = [ops EXCEPT !["commander"] = p]
  BY <1>1, ExecutingIs, Zenon
<1>3. /\ sock' = sock /\ net' = net /\ client_sock' = client_sock
      /\ sockid_array' = sockid_array /\ ops \in [Threads -> Seq(Ops)]
  BY DEF Turn, Typed, clients, output
<1>4. p \in Seq(Ops)
  BY NamedOps, LargerSet, Zenon
<1>5. /\ ops' \in [Threads -> Seq(Ops)] /\ ops'["commander"] = p
      /\ \A s \in Threads : s # "commander" => ops'[s] = ops[s]
  BY <1>2, <1>3, <1>4, TheThreads
<1>6. \A w \in Clients : ops'[w] = ops[w]
  BY <1>5, TheThreads, Zenon
<1>7. ops'["acceptor"] = ops["acceptor"]
  BY <1>5, TheThreads
<1>8. Typed'
  BY <1>3, <1>5 DEF Typed
<1>9. Programs'
  BY <1>5, <1>6, <1>7, Zenon DEF Programs
<1>10. Fresh' /\ Guarded' /\ NoGhosts'
  BY <1>3, <1>6, <1>7, Zenon DEF Fresh, Guarded, NoGhosts
<1> QED BY <1>8, <1>9, <1>10

\* Clients call and hang up, but none goes back to where it was.
LEMMA ClientStep ==
  ASSUME GInv, NEW c \in Clients, Client(c)
  PROVE  GInv'
<1> USE DEF GInv
<1>1. /\ sock' = sock /\ ops' = ops /\ client_sock' = client_sock
      /\ sockid_array' = sockid_array
      /\ net \in [Clients -> {"away", "calling", "connected", "closed"}]
  BY DEF Client, shared, output, Typed
<1>2. \/ net' = net
      \/ net[c] = "away" /\ net' = [net EXCEPT ![c] = "calling"]
      \/ net[c] = "connected" /\ net' = [net EXCEPT ![c] = "closed"]
  BY DEF Client, Call, SendLine, ReadMessage, HangUp
<1>3. /\ net' \in [Clients -> {"away", "calling", "connected", "closed"}]
      /\ \A d \in Clients : net'[d] \in {"away", "calling"} => net[d] \in {"away", "calling"}
      /\ \A d \in Clients : net[d] \in {"connected", "closed"}
                               => net'[d] \in {"connected", "closed"}
  BY <1>1, <1>2
<1>4. Typed'
  BY <1>1, <1>3 DEF Typed
<1>5. Programs' /\ NoGhosts'
  BY <1>1, Zenon DEF Programs, NoGhosts
<1>6. Fresh'
  BY <1>1, <1>3, Zenon DEF Fresh
<1>7. Guarded'
  BY <1>1, <1>3, Zenon DEF Guarded
<1> QED BY <1>4, <1>5, <1>6, <1>7

\* Everything a thread does with the output module and the log file.
LEMMA OperationStep ==
  ASSUME GInv, NEW t \in Threads, Operation(t)
  PROVE  GInv'
<1>1. CASE TcpUserArrayInsert(t)
  BY <1>1, InsertStep
<1>2. CASE TcpUserArrayDelete(t)
  BY <1>2, DeleteStep
<1>3. CASE Spawn(t)
  BY <1>3, SpawnStep
<1>4. CASE BlockedOutput(t)
  <2>1. UNCHANGED <<net, sock, client_sock, sockid_array, ops>>
    BY <1>4 DEF BlockedOutput, clients, shared, output
  <2> QED BY <2>1, Zenon DEF GInv, Typed, Programs, Fresh, Guarded, NoGhosts
<1>5. CASE OutputModuleSockidOn(t) \/ LogFileSet(t) \/ LogFileRead(t) \/ CloseLogFile(t)
  <2>1. /\ ops[t] # <<>> /\ Head(ops[t])[1] \in Harmless
        /\ Done(t) /\ UNCHANGED <<net, sock, client_sock, sockid_array>>
    BY <1>5 DEF OutputModuleSockidOn, LogFileSet, LogFileRead, CloseLogFile, Does,
                Harmless, clients, shared, output
  <2> QED BY <2>1, QuietStep
<1>6. CASE Output(t) \/ ResumedOutput(t)
  <2>1. /\ ops[t] # <<>> /\ Head(ops[t])[1] \in Harmless
        /\ Done(t) /\ UNCHANGED <<net, sock, client_sock, sockid_array>>
    BY <1>6 DEF Output, ResumedOutput, Outputs, Send, Does, Harmless, shared, output
  <2> QED BY <2>1, QuietStep
<1> QED BY <1>1, <1>2, <1>3, <1>4, <1>5, <1>6 DEF Operation

LEMMA GInvStep == GInv /\ [Next]_vars => GInv'
<1> SUFFICES ASSUME GInv, [Next]_vars PROVE GInv'
  OBVIOUS
<1>1. CASE Acceptor
  BY <1>1, OperationStep, AcceptStep, TheThreads DEF Acceptor
<1>2. CASE Commander
  BY <1>2, OperationStep, TurnStep, TheThreads DEF Commander
<1>3. ASSUME NEW c \in Clients, Client(c) \/ Worker(c) PROVE GInv'
  <2>1. CASE Client(c)
    BY <2>1, ClientStep
  <2>2. CASE Operation(c)
    BY <2>2, OperationStep, TheThreads
  <2>3. CASE CopySocket(c)
    BY <2>3, CopySocketStep
  <2>4. CASE Receive(c)
    BY <2>4, ReceiveStep
  <2> QED BY <1>3, <2>1, <2>2, <2>3, <2>4 DEF Worker
<1>4. CASE UNCHANGED vars
  <2>1. UNCHANGED <<net, sock, client_sock, sockid_array, ops>>
    BY <1>4 DEF vars, clients, shared, output
  <2> QED BY <2>1, Zenon DEF GInv, Typed, Programs, Fresh, Guarded, NoGhosts
<1> QED BY <1>1, <1>2, <1>3, <1>4 DEF Next

(* However many clients come and go, a worker that was given its own       *)
(* socket and has ended left nothing behind in the table of the output     *)
(* module: CommunicationObject.cpp enters the socket before it starts the  *)
(* worker, which removes it as the last thing it does.                     *)
THEOREM NothingIsLeftBehind == Spec => []NoGhosts
<1>1. GInv => NoGhosts
  BY DEF GInv
<1> QED BY GInvInit, GInvStep, <1>1, PTL DEF Spec

LEMMA ThreadsInvariant == Spec => []GInv
BY GInvInit, GInvStep, PTL DEF Spec

------------------------------------------------------------------------------
(* Where an answer goes.                                                   *)

NoAnswers(p) == \A i \in 1 .. Len(p) : p[i][1] # "Output"

AboutToAim(p) == p # <<>> /\ Head(p)[1] = "SockidOn"

\* The output is aimed at the sender before the first answer, and only the
\* acceptor aims it elsewhere.
Aimed ==
  \/ welcomed
  \/ output_module_sockid = sender
  \/ AboutToAim(ops["commander"])
  \/ NoAnswers(ops["commander"])

LEMMA HeadOfBoth ==
  ASSUME NEW S, NEW p \in Seq(S), NEW q \in Seq(S), p # <<>>
  PROVE  p \o q \in Seq(S) /\ p \o q # <<>> /\ Head(p \o q) = Head(p)
OBVIOUS

\* A command is executed with the output aimed first.
LEMMA ExecutingAims ==
  ASSUME NEW check \in {<<>>, Check}, NEW body \in {Query, ReadLog}
  PROVE  /\ AboutToAim(Executing(body) \o check)
         /\ NoAnswers(check)
<1> DEFINE aim == << <<"SockidOn", "">> >>
<1>1. /\ aim \in Seq(CommanderOps) /\ Record("general") \in Seq(CommanderOps)
      /\ body \in Seq(CommanderOps) /\ Answer \in Seq(CommanderOps)
      /\ check \in Seq(CommanderOps)
  BY ProgramParts
<1>2. aim # <<>> /\ Head(aim)[1] = "SockidOn"
  <2>1. \A x : <<x>> # <<>> /\ Head(<<x>>) = x
    OBVIOUS
  <2>2. <<"SockidOn", "">>[1] = "SockidOn"
    OBVIOUS
  <2> QED BY <2>1, <2>2, Zenon
<1> HIDE DEF aim
<1>3. aim \o Record("general") \in Seq(CommanderOps) /\ aim \o Record("general") # <<>>
      /\ Head(aim \o Record("general")) = Head(aim)
  BY <1>1, <1>2, HeadOfBoth, Zenon
<1> DEFINE p == aim \o Record("general")
<1> HIDE DEF p
<1>4. p \o body \in Seq(CommanderOps) /\ p \o body # <<>> /\ Head(p \o body) = Head(aim)
  BY <1>1, <1>3, HeadOfBoth, Zenon DEF p
<1> DEFINE q == p \o body
<1> HIDE DEF q
<1>5. q \o Answer \in Seq(CommanderOps) /\ q \o Answer # <<>> /\ Head(q \o Answer) = Head(aim)
  BY <1>1, <1>4, HeadOfBoth, Zenon DEF q
<1>6. Executing(body) = q \o Answer
  BY Zenon DEF Executing, q, p, aim
<1> DEFINE e == Executing(body)
<1>7. e \in Seq(CommanderOps) /\ e # <<>> /\ Head(e) = Head(aim)
  BY <1>5, <1>6, Zenon
<1> HIDE DEF e
<1>8. e \o check # <<>> /\ Head(e \o check) = Head(aim)
  BY <1>1, <1>7, HeadOfBoth, Zenon
<1>9. NoAnswers(check)
  <2>1. NoAnswers(<<>>)
    BY DEF NoAnswers
  <2>2. NoAnswers(Check)
    <3>1. \A x : Len(<<x>>) = 1 /\ <<x>>[1] = x
      OBVIOUS
    <3>2. <<"OutputAll", "">>[1] # "Output"
      OBVIOUS
    <3>3. Len(Check) = 1 /\ Check[1][1] # "Output"
      BY <3>1, <3>2, Zenon DEF Check
    <3> QED BY <3>3 DEF NoAnswers
  <2> QED BY <2>1, <2>2, Zenon
<1> QED BY <1>2, <1>8, <1>9, Zenon DEF AboutToAim, e

LEMMA NoAnswersTail ==
  ASSUME NEW p \in Seq(Ops), p # <<>>, NoAnswers(p)
  PROVE  NoAnswers(Tail(p)) /\ Head(p)[1] # "Output"
<1>1. /\ Tail(p) \in Seq(Ops) /\ Len(p) \in Nat \ {0} /\ Len(Tail(p)) = Len(p) - 1
      /\ \A i \in 1 .. Len(Tail(p)) : Tail(p)[i] = p[i + 1]
      /\ Head(p) = p[1]
  BY HeadTailProperties, EmptySeq
<1> QED BY <1>1 DEF NoAnswers

LEMMA AimedInit == Init => Aimed
<1> SUFFICES ASSUME Init PROVE Aimed
  OBVIOUS
<1>1. output_module_sockid = None /\ sender = None
  BY DEF Init
<1> QED BY <1>1 DEF Aimed

\* A step of the command thread other than SockidOn.
LEMMA AimedDone ==
  ASSUME GInv, Aimed, NEW t \in Threads, Done(t), ops[t] # <<>>,
         Head(ops[t])[1] # "SockidOn",
         UNCHANGED <<sender, output_module_sockid, welcomed>>
  PROVE  Aimed'
<1>1. ops \in [Threads -> Seq(Ops)] /\ ops' = [ops EXCEPT ![t] = Tail(@)]
  BY DEF GInv, Typed, Done
<1>2. CASE t = "commander"
  <2>1. ops'["commander"] = Tail(ops["commander"])
    BY <1>1, <1>2, TheThreads
  <2>2. ~AboutToAim(ops["commander"])
    BY <1>2 DEF AboutToAim
  <2>3. NoAnswers(ops["commander"]) => NoAnswers(ops'["commander"])
    BY <1>1, <1>2, <2>1, NoAnswersTail, TheThreads
  <2> QED BY <2>2, <2>3 DEF Aimed, NoAnswers
<1>3. CASE t # "commander"
  <2>1. ops'["commander"] = ops["commander"]
    BY <1>1, <1>3, TheThreads
  <2> QED BY <2>1 DEF Aimed, AboutToAim, NoAnswers
<1> QED BY <1>2, <1>3

LEMMA AimedStep == GInv /\ Aimed /\ [Next]_vars => Aimed'
<1> SUFFICES ASSUME GInv, Aimed, [Next]_vars PROVE Aimed'
  OBVIOUS
<1>0. ops \in [Threads -> Seq(Ops)]
  BY DEF GInv, Typed
<1>1. ASSUME NEW t \in Threads, Operation(t) PROVE Aimed'
  <2>1. CASE OutputModuleSockidOn(t)
    <3>1. /\ ops[t] # <<>> /\ Head(ops[t])[1] = "SockidOn"
          /\ output_module_sockid' = SocketOf(t) /\ sender' = sender
          /\ welcomed' = (welcomed \/ t = "acceptor")
      BY <2>1 DEF OutputModuleSockidOn, Does, shared
    <3>2. t \notin Clients
      BY <3>1, WorkerStep DEF GInv, Programs
    <3>3. CASE t = "acceptor"
      BY <3>1, <3>3 DEF Aimed
    <3>4. CASE t = "commander"
      <4>1. SocketOf(t) = sender
        BY <3>4, Zenon DEF SocketOf
      <4> QED BY <3>1, <4>1 DEF Aimed
    <3> QED BY <3>2, <3>3, <3>4, TheThreads, Zenon
  <2>2. CASE BlockedOutput(t)
    BY <2>2 DEF BlockedOutput, shared, output, Aimed, NoAnswers, AboutToAim
  <2>3. CASE Spawn(t)
    <3>1. /\ ops[t] # <<>> /\ Head(ops[t])[1] = "Spawn"
          /\ ops' = [ops EXCEPT ![t] = Tail(@), ![client_sock] = Born]
          /\ UNCHANGED <<sender, output_module_sockid, welcomed>>
      BY <2>3 DEF Spawn, Does, shared, output, Born
    <3>2. t = "acceptor"
      BY <3>1, SpawnIsAcceptors
    <3>3. client_sock \in Clients
      BY <3>1, <3>2 DEF GInv, Guarded
    <3>4. ops'["commander"] = ops["commander"]
      BY <1>0, <3>1, <3>2, <3>3, TheThreads
    <3> QED BY <3>1, <3>4 DEF Aimed, NoAnswers, AboutToAim
  <2>4. CASE \/ TcpUserArrayInsert(t) \/ TcpUserArrayDelete(t) \/ Output(t)
             \/ ResumedOutput(t) \/ LogFileSet(t) \/ LogFileRead(t) \/ CloseLogFile(t)
    <3>1. /\ ops[t] # <<>> /\ Head(ops[t])[1] # "SockidOn" /\ Done(t)
          /\ UNCHANGED <<sender, output_module_sockid, welcomed>>
      BY <2>4 DEF TcpUserArrayInsert, TcpUserArrayDelete, Output, ResumedOutput, Outputs,
                  Send, LogFileSet, LogFileRead, CloseLogFile, Does, shared, output
    <3> QED BY <3>1, AimedDone
  <2> QED BY <1>1, <2>1, <2>2, <2>3, <2>4 DEF Operation
<1>2. ASSUME NEW t \in Threads, t # "commander", NEW p,
             ops' = [ops EXCEPT ![t] = p] \/ ops' = ops,
             UNCHANGED <<sender, output_module_sockid, welcomed>>
      PROVE  Aimed'
  <2>1. ops'["commander"] = ops["commander"]
    BY <1>0, <1>2, TheThreads
  <2> QED BY <1>2, <2>1 DEF Aimed, NoAnswers, AboutToAim
<1>3. ASSUME NEW c \in Clients, Accept(c) PROVE Aimed'
  BY <1>2, <1>3, TheThreads DEF Accept, output
<1>4. ASSUME NEW w \in Clients, CopySocket(w) PROVE Aimed'
  BY <1>2, <1>4, TheThreads DEF CopySocket, output
<1>5. ASSUME NEW w \in Clients, Receive(w) PROVE Aimed'
  BY <1>2, <1>5, TheThreads DEF Receive, output
<1>6. ASSUME NEW c \in Clients, Client(c) PROVE Aimed'
  BY <1>2, <1>6, TheThreads DEF Client, output, shared
<1>7. CASE UNCHANGED vars
  BY <1>2, <1>7, TheThreads DEF vars, output, shared
<1>8. CASE Turn
  <2>1. PICK check \in {<<>>, Check}, body \in {Query, ReadLog} :
          \/ ops' = [ops EXCEPT !["commander"] = check]
          \/ ops' = [ops EXCEPT !["commander"] = Executing(body) \o check]
    BY <1>8, Zenon DEF Turn
  <2>2. \/ ops'["commander"] = check
        \/ ops'["commander"] = Executing(body) \o check
    BY <1>0, <2>1, TheThreads
  <2>3. NoAnswers(ops'["commander"]) \/ AboutToAim(ops'["commander"])
    BY <2>2, ExecutingAims, Zenon
  <2> QED BY <2>3 DEF Aimed, NoAnswers, AboutToAim
<1> QED BY <1>1, <1>3, <1>4, <1>5, <1>6, <1>7, <1>8, TheThreads
        DEF Next, Acceptor, Commander, Worker

(* Unless a client is welcomed in between, every answer to a command goes  *)
(* to the client that sent it: OutputModuleSockidOn comes before the first *)
(* answer, and no other thread than the acceptor changes the target.       *)
THEOREM AnswersGoHome == Spec => AnswerGoesToTheSender
<1>1. GInv /\ Aimed /\ [Next]_vars =>
        [Answers /\ ~welcomed => output_module_sockid = sender]_vars
  <2> SUFFICES ASSUME GInv, Aimed, Answers, ~welcomed
               PROVE  output_module_sockid = sender
    OBVIOUS
  <2>1. ops["commander"] # <<>> /\ Head(ops["commander"])[1] = "Output"
    BY DEF Answers, Does
  <2>2. ops["commander"] \in Seq(Ops)
    BY TheThreads DEF GInv, Typed
  <2>3. ~NoAnswers(ops["commander"])
    BY <2>1, <2>2, NoAnswersTail
  <2> QED BY <2>1, <2>3 DEF Aimed, AboutToAim
<1> QED BY <1>1, AimedInit, AimedStep, ThreadsInvariant, PTL
        DEF Spec, AnswerGoesToTheSender
------------------------------------------------------------------------------
(* The types of everything else.                                           *)

\* What a client sends is bounded, and so is what it has not read.
Streams ==
  /\ stream \in [Clients -> 0 .. MaxLines] /\ lines \in [Clients -> 0 .. MaxLines]
  /\ \A c \in Clients : stream[c] + lines[c] <= MaxLines

Unread == unread \in [Clients -> 0 .. SocketBuffer]

Scalars ==
  /\ queue \in Seq(Clients) /\ sender \in Clients \cup {None}
  /\ output_module_sockid \in Clients \cup {None}
  /\ log_file \in {"general", "serial"} /\ welcomed \in BOOLEAN

Table ==
  /\ sockid_array \subseteq Clients /\ IsFiniteSet(sockid_array)
  /\ Cardinality(sockid_array) <= MAXIMUM_CLIENT

\* A thread that holds the mutex of the output module is still about to send.
Holder == mtx_output # None => mtx_output \in Threads /\ Outputs(mtx_output)

\* Whoever reads a log file closes it.
Closes(p) ==
  \A i \in 1 .. Len(p) :
    p[i][1] = "LogFileRead" => \E j \in 1 .. Len(p) : i < j /\ p[j][1] = "fclose"

Reader ==
  /\ Closes(ops["commander"])
  /\ mtx_log # None =>
       /\ mtx_log = "commander"
       /\ \E j \in 1 .. Len(ops["commander"]) : ops["commander"][j][1] = "fclose"

\* A worker that reads has been given a socket.
Begun ==
  \A w \in Clients :
    ops[w] # <<>> => client_sock \in Clients /\ (ops[w] # Born => sock[w] \in Clients)

TInv == Streams /\ Unread /\ Scalars /\ Table /\ Holder /\ Reader /\ Begun

LEMMA TInvInit == Init => TInv
<1> SUFFICES ASSUME Init PROVE TInv
  OBVIOUS
<1> USE DEF Init
<1>1. Streams /\ Unread
  BY LinesAssumption, SendAssumption DEF Streams, Unread
<1>2. Scalars
  <2>1. <<>> \in Seq(Clients)
    BY EmptySeq
  <2> QED BY <2>1 DEF Scalars
<1>3. Table
  BY FS_EmptySet, TableAssumption DEF Table
<1>4. Holder
  BY DEF Holder
<1>5. \A t \in Threads : ops[t] = <<>>
  OBVIOUS
<1>6. Reader
  BY <1>5, TheThreads DEF Reader, Closes
<1>7. Begun
  BY <1>5, TheThreads, Zenon DEF Begun
<1> QED BY <1>1, <1>2, <1>3, <1>4, <1>6, <1>7 DEF TInv

\* A worker about to read reads from a client.
LEMMA ReaderIs ==
  ASSUME GInv, Begun, NEW w \in Clients, ops[w] # <<>>, Head(ops[w]) = <<"recv", "">>
  PROVE  sock[w] \in Clients
<1>1. Head(Born) = <<"born", "">>
  BY HeadOfOne, Zenon DEF Born
<1>2. <<"born", "">> # <<"recv", "">>
  OBVIOUS
<1>3. ops[w] # Born
  BY <1>1, <1>2
<1> QED BY <1>3 DEF Begun

LEMMA StreamsStep == GInv /\ TInv /\ [Next]_vars => Streams' /\ Unread'
<1> SUFFICES ASSUME GInv, TInv, [Next]_vars PROVE Streams' /\ Unread'
  OBVIOUS
<1> USE LinesAssumption, SendAssumption
<1>0. Streams /\ Unread
  BY DEF TInv
<1>1. ASSUME UNCHANGED <<stream, lines, unread>> PROVE Streams' /\ Unread'
  BY <1>0, <1>1 DEF Streams, Unread
<1>2. ASSUME NEW c \in Clients, Client(c) PROVE Streams' /\ Unread'
  <2>1. CASE SendLine(c)
    BY <1>0, <2>1 DEF SendLine, Streams, Unread
  <2>2. CASE ReadMessage(c)
    BY <1>0, <2>2 DEF ReadMessage, Streams, Unread
  <2>3. CASE Call(c) \/ HangUp(c)
    BY <1>1, <2>3 DEF Call, HangUp
  <2> QED BY <1>2, <2>1, <2>2, <2>3 DEF Client
<1>3. ASSUME NEW w \in Clients, Receive(w) PROVE Streams' /\ Unread'
  <2>1. sock[w] \in Clients
    BY <1>3, ReaderIs DEF Receive, TInv
  <2>2. /\ lines' = lines /\ unread' = unread
        /\ stream' = stream \/ stream' = [stream EXCEPT ![sock[w]] = 0]
    BY <1>3 DEF Receive
  <2> QED BY <1>0, <2>1, <2>2 DEF Streams, Unread
<1>4. ASSUME NEW t \in Threads, Send(t) PROVE Streams' /\ Unread'
  <2>1. /\ stream' = stream /\ lines' = lines
        /\ \A c \in Recipients(t) : unread[c] < SocketBuffer \/ net[c] = "closed"
        /\ unread' = [c \in Clients |->
             IF c \in Recipients(t) /\ net[c] # "closed" THEN unread[c] + 1 ELSE unread[c]]
    BY <1>4 DEF Send, Sendable
  <2>2. ASSUME NEW c \in Clients PROVE unread'[c] \in 0 .. SocketBuffer
    BY <1>0, <2>1 DEF Unread
  <2> QED BY <1>0, <2>1, <2>2 DEF Streams, Unread
<1>5. ASSUME NEW t \in Threads, Operation(t) PROVE Streams' /\ Unread'
  <2>1. CASE Output(t) \/ ResumedOutput(t)
    BY <1>4, <2>1 DEF Output, ResumedOutput
  <2>2. CASE ~(Output(t) \/ ResumedOutput(t))
    <3>1. UNCHANGED clients
      BY <1>5, <2>2 DEF Operation, OutputModuleSockidOn, TcpUserArrayInsert,
         TcpUserArrayDelete, BlockedOutput, LogFileSet, LogFileRead, CloseLogFile, Spawn
    <3> QED BY <1>1, <3>1 DEF clients
  <2> QED BY <2>1, <2>2
<1>6. CASE Turn \/ UNCHANGED vars
  BY <1>1, <1>6 DEF Turn, vars, clients
<1>7. ASSUME NEW c \in Clients, Accept(c) \/ CopySocket(c) PROVE Streams' /\ Unread'
  BY <1>1, <1>7 DEF Accept, CopySocket, clients
<1> QED BY <1>2, <1>3, <1>5, <1>6, <1>7, TheThreads DEF Next, Acceptor, Commander, Worker

\* What a thread makes the target of the output, or takes out of the table.
LEMMA SocketIs ==
  ASSUME GInv, TInv, NEW t \in Threads
  PROVE  SocketOf(t) \in Clients \cup {None}
<1>1. SocketOf("acceptor") = client_sock /\ SocketOf("commander") = sender
  BY Zenon DEF SocketOf
<1>2. t \in Clients => SocketOf(t) = sock[t]
  BY TheThreads, Zenon DEF SocketOf
<1> QED BY <1>1, <1>2, TheThreads DEF GInv, Typed, TInv, Scalars

LEMMA ScalarsStep == GInv /\ TInv /\ [Next]_vars => Scalars'
<1> SUFFICES ASSUME GInv, TInv, [Next]_vars PROVE Scalars'
  OBVIOUS
<1>0. Scalars
  BY DEF TInv
<1>1. ASSUME UNCHANGED <<queue, sender, output_module_sockid, log_file, welcomed>>
      PROVE  Scalars'
  BY <1>0, <1>1 DEF Scalars
<1>2. ASSUME NEW t \in Threads, Operation(t) PROVE Scalars'
  <2>1. CASE OutputModuleSockidOn(t)
    <3>1. SocketOf(t) \in Clients \cup {None}
      BY SocketIs
    <3>2. /\ output_module_sockid' = SocketOf(t) /\ welcomed' = (welcomed \/ t = "acceptor")
          /\ UNCHANGED <<queue, sender, log_file>>
      BY <2>1 DEF OutputModuleSockidOn, shared
    <3>3. welcomed' \in BOOLEAN
      BY <3>2, Zenon
    <3> QED BY <1>0, <3>1, <3>2, <3>3 DEF Scalars
  <2>2. CASE LogFileSet(t)
    <3>1. /\ ops[t] # <<>> /\ Head(ops[t])[1] = "LogFileSet" /\ log_file' = Head(ops[t])[2]
          /\ UNCHANGED <<queue, sender, output_module_sockid, welcomed>>
      BY <2>2 DEF LogFileSet, Does, shared, output
    <3>2. Head(ops[t]) \in Ops
      BY <3>1 DEF GInv, Typed
    <3>3. Head(ops[t])[2] \in {"general", "serial"}
      BY <3>1, <3>2 DEF Ops, Files
    <3> QED BY <1>0, <3>1, <3>3 DEF Scalars
  <2>3. CASE Output(t) \/ ResumedOutput(t)
    BY <1>1, <2>3 DEF Output, ResumedOutput, Send, shared, output
  <2>4. CASE BlockedOutput(t) \/ LogFileRead(t) \/ CloseLogFile(t) \/ Spawn(t)
    BY <1>1, <2>4 DEF BlockedOutput, LogFileRead, CloseLogFile, Spawn, shared, output
  <2>5. CASE TcpUserArrayInsert(t) \/ TcpUserArrayDelete(t)
    BY <1>1, <2>5 DEF TcpUserArrayInsert, TcpUserArrayDelete, shared
  <2> QED BY <1>2, <2>1, <2>2, <2>3, <2>4, <2>5 DEF Operation
<1>3. CASE Turn
  <2>1. CASE queue = <<>>
    BY <1>1, <1>3, <2>1 DEF Turn, output
  <2>2. CASE queue # <<>>
    <3>1. /\ sender' = Head(queue) /\ queue' = Tail(queue) /\ welcomed' = FALSE
          /\ UNCHANGED <<output_module_sockid, log_file>>
      BY <1>3, <2>2 DEF Turn, output
    <3>2. Head(queue) \in Clients /\ Tail(queue) \in Seq(Clients)
      BY <1>0, <2>2 DEF Scalars
    <3> QED BY <1>0, <3>1, <3>2 DEF Scalars
  <2> QED BY <2>1, <2>2
<1>4. ASSUME NEW w \in Clients, Receive(w) PROVE Scalars'
  <2>1. sock[w] \in Clients /\ stream[sock[w]] \in Nat
    <3>1. sock[w] \in Clients
      BY <1>4, ReaderIs DEF Receive, TInv
    <3> QED BY <3>1, LinesAssumption DEF TInv, Streams
  <2>2. /\ UNCHANGED <<sender, output_module_sockid, log_file, welcomed>>
        /\ \/ queue' = queue
           \/ queue' = queue \o [i \in 1 .. stream[sock[w]] |-> sock[w]]
    BY <1>4 DEF Receive, output
  <2>3. queue' \in Seq(Clients)
    <3>1. [i \in 1 .. stream[sock[w]] |-> sock[w]] \in Seq(Clients)
      BY <2>1
    <3>2. \A p, q \in Seq(Clients) : p \o q \in Seq(Clients)
      OBVIOUS
    <3> QED BY <1>0, <2>2, <3>1, <3>2, Zenon DEF Scalars
  <2> QED BY <1>0, <2>2, <2>3 DEF Scalars
<1>5. ASSUME NEW c \in Clients, Client(c) \/ Accept(c) \/ CopySocket(c)
      PROVE  Scalars'
  BY <1>1, <1>5 DEF Client, Accept, CopySocket, shared, output
<1>6. CASE UNCHANGED vars
  BY <1>1, <1>6 DEF vars, shared, output
<1> QED BY <1>2, <1>3, <1>4, <1>5, <1>6, TheThreads DEF Next, Acceptor, Commander, Worker
LEMMA TableStep == GInv /\ TInv /\ [Next]_vars => Table'
<1> SUFFICES ASSUME GInv, TInv, [Next]_vars PROVE Table'
  OBVIOUS
<1> USE TableAssumption
<1>0. Table
  BY DEF TInv
<1>1. ASSUME sockid_array' = sockid_array PROVE Table'
  BY <1>0, <1>1 DEF Table
<1>2. ASSUME NEW t \in Threads, Operation(t) PROVE Table'
  <2>1. CASE TcpUserArrayInsert(t)
    <3>1. ops[t] # <<>> /\ Head(ops[t])[1] = "TcpUserArrayInsert"
          /\ sockid_array' = sockid_array \cup Entered(SocketOf(t))
      BY <2>1 DEF TcpUserArrayInsert, Does
    <3>2. t = "acceptor"
      <4>1. t \notin Clients
        BY <3>1, WorkerStep DEF GInv, Programs
      <4>2. t # "commander"
        BY <3>1, CommanderStep DEF GInv, Programs, Harmless
      <4> QED BY <4>1, <4>2, TheThreads, Zenon
    <3>3. SocketOf(t) = client_sock /\ client_sock \in Clients
      <4>1. SocketOf(t) = client_sock
        BY <3>2, Zenon DEF SocketOf
      <4> QED BY <3>1, <3>2, <4>1 DEF GInv, Guarded
    <3>4. CASE Cardinality(sockid_array) < MAXIMUM_CLIENT
      <4>1. sockid_array' = sockid_array \cup {client_sock}
        BY <3>1, <3>3, <3>4 DEF Entered
      <4>2. IsFiniteSet(sockid_array') /\ Cardinality(sockid_array) \in Nat
            /\ Cardinality(sockid_array') \in
                 {Cardinality(sockid_array), Cardinality(sockid_array) + 1}
        BY <1>0, <4>1, FS_AddElement, FS_CardinalityType DEF Table
      <4> QED BY <1>0, <3>3, <3>4, <4>1, <4>2 DEF Table
    <3>5. CASE ~(Cardinality(sockid_array) < MAXIMUM_CLIENT)
      BY <1>1, <3>1, <3>5 DEF Entered
    <3> QED BY <3>4, <3>5
  <2>2. CASE TcpUserArrayDelete(t)
    <3>1. sockid_array' = sockid_array \ {SocketOf(t)}
      BY <2>2 DEF TcpUserArrayDelete
    <3>2. sockid_array' \subseteq sockid_array
      BY <3>1
    <3>3. IsFiniteSet(sockid_array') /\ Cardinality(sockid_array') <= Cardinality(sockid_array)
      BY <1>0, <3>2, FS_Subset DEF Table
    <3>4. Cardinality(sockid_array') \in Nat /\ Cardinality(sockid_array) \in Nat
      BY <1>0, <3>3, FS_CardinalityType DEF Table
    <3> QED BY <1>0, <3>2, <3>3, <3>4 DEF Table
  <2>3. CASE Output(t) \/ ResumedOutput(t)
    BY <1>1, <2>3 DEF Output, ResumedOutput, Send, output
  <2>4. CASE \/ OutputModuleSockidOn(t) \/ BlockedOutput(t) \/ LogFileSet(t)
             \/ LogFileRead(t) \/ CloseLogFile(t) \/ Spawn(t)
    BY <1>1, <2>4 DEF OutputModuleSockidOn, BlockedOutput, LogFileSet, LogFileRead,
                      CloseLogFile, Spawn, output
  <2> QED BY <1>2, <2>1, <2>2, <2>3, <2>4 DEF Operation
<1>3. CASE Turn \/ UNCHANGED vars
  BY <1>1, <1>3 DEF Turn, vars, output
<1>4. ASSUME NEW c \in Clients, Client(c) \/ Accept(c) \/ CopySocket(c) \/ Receive(c)
      PROVE  Table'
  BY <1>1, <1>4 DEF Client, Accept, CopySocket, Receive, output
<1> QED BY <1>2, <1>3, <1>4, TheThreads DEF Next, Acceptor, Commander, Worker

\* What a step does to the program of a thread that is about to send: nothing,
\* unless it is the one that sends.
LEMMA HolderStep == GInv /\ TInv /\ [Next]_vars => Holder'
<1> SUFFICES ASSUME GInv, TInv, [Next]_vars PROVE Holder'
  OBVIOUS
<1>0. Holder /\ ops \in [Threads -> Seq(Ops)]
  BY DEF TInv, GInv, Typed
<1>1. ASSUME mtx_output' = mtx_output,
             mtx_output # None => ops'[mtx_output] = ops[mtx_output]
      PROVE  Holder'
  BY <1>0, <1>1 DEF Holder, Outputs, Does
<1>2. ASSUME NEW t \in Threads, NEW p, mtx_output' = mtx_output,
             ops' = [ops EXCEPT ![t] = p] \/ ops' = ops, ~Outputs(t)
      PROVE  Holder'
  <2>1. mtx_output # None => mtx_output # t /\ mtx_output \in Threads
    BY <1>0, <1>2 DEF Holder
  <2>2. mtx_output # None => ops'[mtx_output] = ops[mtx_output]
    BY <1>0, <1>2, <2>1
  <2> QED BY <1>1, <1>2, <2>2
<1>3. ASSUME NEW t \in Threads, Operation(t) PROVE Holder'
  <2>1. CASE Output(t)
    <3>1. mtx_output = None /\ mtx_output' = mtx_output
      BY <2>1 DEF Output
    <3> QED BY <1>1, <3>1
  <2>2. CASE ResumedOutput(t)
    BY <2>2 DEF ResumedOutput, EndOutput, Holder
  <2>3. CASE BlockedOutput(t)
    BY <2>3 DEF BlockedOutput, Holder, Outputs, Does
  <2>4. CASE Spawn(t)
    <3>1. /\ ops[t] # <<>> /\ Head(ops[t])[1] = "Spawn" /\ mtx_output' = mtx_output
          /\ ops' = [ops EXCEPT ![t] = Tail(@), ![client_sock] = Born]
      BY <2>4 DEF Spawn, Does, mutexes, Born
    <3>2. t = "acceptor"
      BY <3>1, SpawnIsAcceptors
    <3>3. client_sock \in Threads /\ ops[client_sock] = <<>>
      BY <3>1, <3>2, TheThreads DEF GInv, Guarded
    <3>4. mtx_output # None =>
            mtx_output \in Threads /\ mtx_output # t /\ mtx_output # client_sock
      BY <1>0, <3>1, <3>3 DEF Holder, Outputs, Does
    <3>5. mtx_output # None => ops'[mtx_output] = ops[mtx_output]
      BY <1>0, <3>1, <3>3, <3>4
    <3> QED BY <1>1, <3>1, <3>5
  <2>5. CASE \/ OutputModuleSockidOn(t) \/ TcpUserArrayInsert(t) \/ TcpUserArrayDelete(t)
             \/ LogFileSet(t) \/ LogFileRead(t) \/ CloseLogFile(t)
    <3>1. /\ mtx_output' = mtx_output /\ ~Outputs(t)
          /\ ops' = [ops EXCEPT ![t] = Tail(ops[t])]
      BY <1>0, <2>5 DEF OutputModuleSockidOn, TcpUserArrayInsert, TcpUserArrayDelete,
         LogFileSet, LogFileRead, CloseLogFile, Outputs, Does, Done, mutexes
    <3> QED BY <1>2, <3>1
  <2> QED BY <1>3, <2>1, <2>2, <2>3, <2>4, <2>5 DEF Operation
<1>4. CASE Turn
  <2>1. /\ ops["commander"] = <<>> /\ mtx_output' = mtx_output
        /\ \E p : ops' = [ops EXCEPT !["commander"] = p]
    BY <1>4, Zenon DEF Turn, mutexes
  <2> QED BY <1>2, <2>1, TheThreads DEF Outputs, Does
<1>5. ASSUME NEW c \in Clients, Accept(c) PROVE Holder'
  <2>1. /\ ops["acceptor"] = <<>> /\ mtx_output' = mtx_output
        /\ ops' = [ops EXCEPT !["acceptor"] = Accepting]
    BY <1>5 DEF Accept, mutexes
  <2> QED BY <1>2, <2>1, TheThreads DEF Outputs, Does
<1>6. ASSUME NEW w \in Clients, CopySocket(w) \/ Receive(w) PROVE Holder'
  <2>1. /\ Head(ops[w]) \in {<<"born", "">>, <<"recv", "">>} /\ mtx_output' = mtx_output
        /\ \E p : ops' = [ops EXCEPT ![w] = p] \/ ops' = ops
    BY <1>6 DEF CopySocket, Receive, mutexes
  <2>2. Head(ops[w])[1] \in {"born", "recv"}
    <3>1. <<"born", "">>[1] = "born" /\ <<"recv", "">>[1] = "recv"
      OBVIOUS
    <3> QED BY <2>1, <3>1
  <2>3. ~Outputs(w)
    BY <2>2 DEF Outputs, Does
  <2> QED BY <1>2, <2>1, <2>3, TheThreads
<1>7. ASSUME NEW c \in Clients, Client(c) PROVE Holder'
  BY <1>1, <1>7 DEF Client, mutexes
<1>8. CASE UNCHANGED vars
  BY <1>1, <1>8 DEF vars, mutexes
<1> QED BY <1>3, <1>4, <1>5, <1>6, <1>7, <1>8, TheThreads
        DEF Next, Acceptor, Commander, Worker

LEMMA BegunStep == GInv /\ TInv /\ [Next]_vars => Begun'
<1> SUFFICES ASSUME GInv, TInv, [Next]_vars PROVE Begun'
  OBVIOUS
<1>0. Begun /\ Typed /\ Guarded
  BY DEF TInv, GInv
<1>1. ASSUME client_sock' = client_sock, sock' = sock,
             \A w \in Clients : ops'[w] # <<>> =>
               ops[w] # <<>> /\ (ops'[w] # Born => ops[w] # Born)
      PROVE  Begun'
  BY <1>0, <1>1 DEF Begun
<1>2. ASSUME NEW t \in Threads, Operation(t) PROVE Begun'
  <2>1. CASE Spawn(t)
    <3>1. /\ ops[t] # <<>> /\ Head(ops[t])[1] = "Spawn"
          /\ client_sock' = client_sock /\ sock' = sock
          /\ ops' = [ops EXCEPT ![t] = Tail(@), ![client_sock] = Born]
      BY <2>1 DEF Spawn, Does, shared, Born
    <3>2. t = "acceptor"
      BY <3>1, SpawnIsAcceptors
    <3>3. client_sock \in Clients
      BY <1>0, <3>1, <3>2 DEF Guarded
    <3>4. \A w \in Clients : w # client_sock => ops'[w] = ops[w]
      BY <1>0, <3>1, <3>2, TheThreads DEF Typed
    <3>5. ops'[client_sock] = Born
      BY <1>0, <3>1, <3>3, TheThreads DEF Typed
    <3> QED BY <1>0, <3>1, <3>3, <3>4, <3>5, Zenon DEF Begun
  <2>2. CASE BlockedOutput(t)
    BY <1>1, <2>2 DEF BlockedOutput, shared
  <2>3. CASE ~Spawn(t) /\ ~BlockedOutput(t)
    <3>1. /\ ops[t] # <<>> /\ Done(t) /\ client_sock' = client_sock /\ sock' = sock
      BY <1>2, <2>3 DEF Operation, OutputModuleSockidOn, TcpUserArrayInsert,
         TcpUserArrayDelete, Output, ResumedOutput, Send, LogFileSet, LogFileRead,
         CloseLogFile, Outputs, Does, shared
    <3>2. \A w \in Clients : w # t => ops'[w] = ops[w]
      BY <1>0, <3>1, TheThreads DEF Done, Typed
    <3>3. ASSUME t \in Clients, ops[t] = Born PROVE FALSE
      <4>1. Head(ops[t])[1] = "born"
        <5>1. <<"born", "">>[1] = "born"
          OBVIOUS
        <5> QED BY <3>3, <5>1, HeadOfOne, Zenon DEF Born
      <4> QED BY <1>2, <2>3, <4>1 DEF Operation, OutputModuleSockidOn, TcpUserArrayInsert,
         TcpUserArrayDelete, Output, ResumedOutput, LogFileSet, LogFileRead,
         CloseLogFile, Outputs, Does
    <3> QED BY <1>1, <3>1, <3>2, <3>3
  <2> QED BY <2>1, <2>2, <2>3
<1>3. CASE Turn
  <2>1. /\ client_sock' = client_sock /\ sock' = sock
        /\ \E p : ops' = [ops EXCEPT !["commander"] = p]
    BY <1>3, Zenon DEF Turn
  <2>2. \A w \in Clients : ops'[w] = ops[w]
    BY <1>0, <2>1, TheThreads DEF Typed
  <2> QED BY <1>1, <2>1, <2>2
<1>4. ASSUME NEW c \in Clients, Accept(c) PROVE Begun'
  <2>1. /\ client_sock' = c /\ sock' = sock
        /\ ops' = [ops EXCEPT !["acceptor"] = Accepting]
    BY <1>4 DEF Accept
  <2>2. \A w \in Clients : ops'[w] = ops[w]
    BY <1>0, <2>1, TheThreads DEF Typed
  <2> QED BY <1>0, <2>1, <2>2 DEF Begun
<1>5. ASSUME NEW w \in Clients, CopySocket(w) PROVE Begun'
  <2>1. /\ ops[w] # <<>> /\ client_sock' = client_sock
        /\ sock' = [sock EXCEPT ![w] = client_sock] /\ ops' = [ops EXCEPT ![w] = Recv]
    BY <1>5 DEF CopySocket, Recv
  <2>2. client_sock \in Clients
    BY <1>0, <2>1 DEF Begun
  <2>3. /\ sock'[w] = client_sock
        /\ \A v \in Clients : v # w => ops'[v] = ops[v] /\ sock'[v] = sock[v]
    BY <1>0, <2>1, TheThreads DEF Typed
  <2> QED BY <1>0, <2>1, <2>2, <2>3, Zenon DEF Begun
<1>6. ASSUME NEW w \in Clients, Receive(w) PROVE Begun'
  <2>1. /\ ops[w] # <<>> /\ client_sock' = client_sock /\ sock' = sock
        /\ ops' = [ops EXCEPT ![w] = Disconnecting] \/ ops' = ops
    BY <1>6 DEF Receive
  <2>2. sock[w] \in Clients
    BY <1>6, ReaderIs DEF Receive, TInv
  <2>3. \A v \in Clients : v # w => ops'[v] = ops[v]
    BY <1>0, <2>1, TheThreads DEF Typed
  <2> QED BY <1>0, <2>1, <2>2, <2>3, Zenon DEF Begun
<1>7. ASSUME NEW c \in Clients, Client(c) PROVE Begun'
  BY <1>1, <1>7 DEF Client, shared
<1>8. CASE UNCHANGED vars
  BY <1>1, <1>8 DEF vars, shared
<1> QED BY <1>2, <1>3, <1>4, <1>5, <1>6, <1>7, <1>8, TheThreads
        DEF Next, Acceptor, Commander, Worker
\* What reads closes, one part of a program after another.
LEMMA ClosesBoth ==
  ASSUME NEW p \in Seq(CommanderOps), NEW q \in Seq(CommanderOps), Closes(p), Closes(q)
  PROVE  p \o q \in Seq(CommanderOps) /\ Closes(p \o q)
<1> DEFINE m == Len(p)
           n == Len(q)
           r == p \o q
<1>1. /\ r \in Seq(CommanderOps) /\ m \in Nat /\ n \in Nat /\ Len(r) = m + n
      /\ \A i \in 1 .. m : r[i] = p[i]
      /\ \A i \in 1 .. n : r[m + i] = q[i]
  OBVIOUS
<1> HIDE DEF r
<1>2. ASSUME NEW i \in 1 .. Len(r), r[i][1] = "LogFileRead"
      PROVE  \E j \in 1 .. Len(r) : i < j /\ r[j][1] = "fclose"
  <2>1. CASE i <= m
    <3>1. PICK j \in 1 .. m : i < j /\ p[j][1] = "fclose"
      BY <1>1, <1>2, <2>1 DEF Closes
    <3> QED BY <1>1, <3>1
  <2>2. CASE i > m
    <3>1. i - m \in 1 .. n /\ q[i - m] = r[i]
      <4>1. i - m \in 1 .. n /\ m + (i - m) = i
        BY <1>1, <2>2
      <4> QED BY <1>1, <4>1
    <3>2. PICK j \in 1 .. n : i - m < j /\ q[j][1] = "fclose"
      BY <1>2, <3>1 DEF Closes
    <3>3. m + j \in 1 .. Len(r) /\ i < m + j /\ r[m + j][1] = "fclose"
      BY <1>1, <3>2
    <3> QED BY <3>3
  <2> QED BY <1>1, <2>1, <2>2
<1> QED BY <1>1, <1>2 DEF Closes, r

\* LogFileRead is followed by the output of what was read and by fclose.
LEMMA ProgramsClose ==
  ASSUME NEW check \in {<<>>, Check}, NEW body \in {Query, ReadLog}
  PROVE  Closes(check) /\ Closes(Executing(body) \o check)
<1>1. \A o \in CommanderOps : o[1] # "LogFileRead" => Closes(<<o>>)
  BY DEF Closes
<1>2. /\ <<"OutputAll", "">>[1] = "OutputAll" /\ <<"Output", "">>[1] = "Output"
      /\ <<"LogFileSet", "general">>[1] = "LogFileSet"
      /\ <<"SockidOn", "">>[1] = "SockidOn" /\ <<"fclose", "">>[1] = "fclose"
  OBVIOUS
<1>3. /\ Closes(Check) /\ Closes(Answer) /\ Closes(Record("general"))
      /\ Closes(<< <<"SockidOn", "">> >>)
  BY <1>1, <1>2, NamedOps DEF Check, Answer, Record
<1>4. Closes(<<>>)
  BY DEF Closes
<1>5. Closes(ReadLog)
  <2> DEFINE p == << <<"LogFileSet", "serial">>, <<"LogFileRead", "">> >> \o Answer
             e == <<"fclose", "">>
             r == p \o <<e>>
  <2>1. p \in Seq(CommanderOps)
    <3>1. \A a, b \in CommanderOps : <<a, b>> \in Seq(CommanderOps)
      OBVIOUS
    <3>2. \A s, t \in Seq(CommanderOps) : s \o t \in Seq(CommanderOps)
      OBVIOUS
    <3> QED BY <3>1, <3>2, NamedOps, ProgramParts, Zenon
  <2>2. e \in CommanderOps /\ e[1] = "fclose"
    BY <1>2, NamedOps, Zenon
  <2> HIDE DEF p, e
  <2>3. r \in Seq(CommanderOps) /\ Len(r) = Len(p) + 1 /\ r[Len(p) + 1] = e
    BY <2>1, <2>2, OneMore
  <2>4. Len(p) \in Nat
    BY <2>1
  <2> HIDE DEF r
  <2>5. ASSUME NEW i \in 1 .. Len(r), r[i][1] = "LogFileRead"
        PROVE  \E j \in 1 .. Len(r) : i < j /\ r[j][1] = "fclose"
    <3>1. i # Len(p) + 1
      BY <2>2, <2>3, <2>5
    <3>2. Len(p) + 1 \in 1 .. Len(r) /\ i < Len(p) + 1 /\ r[Len(p) + 1][1] = "fclose"
      BY <2>2, <2>3, <2>4, <3>1
    <3> QED BY <3>2
  <2>6. ReadLog = r
    BY Zenon DEF ReadLog, r, p, e
  <2> QED BY <2>5, <2>6 DEF Closes
<1>6. Closes(body) /\ body \in Seq(CommanderOps) /\ Closes(check) /\ check \in Seq(CommanderOps)
  BY <1>3, <1>4, <1>5, ProgramParts, Zenon DEF Query
<1>7. Closes(Executing(body)) /\ Executing(body) \in Seq(CommanderOps)
  BY <1>3, <1>6, ClosesBoth, ProgramParts, Zenon DEF Executing
<1> QED BY <1>6, <1>7, ClosesBoth, Zenon

LEMMA ClosesTail ==
  ASSUME NEW p \in Seq(CommanderOps), p # <<>>, Closes(p)
  PROVE  /\ Closes(Tail(p))
         /\ Head(p)[1] = "LogFileRead" =>
              \E j \in 1 .. Len(Tail(p)) : Tail(p)[j][1] = "fclose"
         /\ Head(p)[1] # "fclose" /\ (\E j \in 1 .. Len(p) : p[j][1] = "fclose") =>
              \E j \in 1 .. Len(Tail(p)) : Tail(p)[j][1] = "fclose"
<1> DEFINE t == Tail(p)
<1>1. /\ Len(p) \in Nat \ {0} /\ Len(t) = Len(p) - 1 /\ Head(p) = p[1]
      /\ \A i \in 1 .. Len(t) : t[i] = p[i + 1]
  BY HeadTailProperties, EmptySeq
<1> HIDE DEF t
<1>2. ASSUME NEW j \in 1 .. Len(p), j > 1 PROVE j - 1 \in 1 .. Len(t) /\ t[j - 1] = p[j]
  <2>1. j - 1 \in 1 .. Len(t) /\ (j - 1) + 1 = j
    BY <1>1, <1>2
  <2> QED BY <1>1, <2>1
<1>3. ASSUME NEW i \in 1 .. Len(t), t[i][1] = "LogFileRead"
      PROVE  \E j \in 1 .. Len(t) : i < j /\ t[j][1] = "fclose"
  <2>1. i + 1 \in 1 .. Len(p) /\ p[i + 1][1] = "LogFileRead"
    BY <1>1, <1>3
  <2>2. PICK j \in 1 .. Len(p) : i + 1 < j /\ p[j][1] = "fclose"
    BY <2>1 DEF Closes
  <2>3. j > 1 /\ i < j - 1
    BY <2>2
  <2> QED BY <1>2, <2>2, <2>3
<1>4. ASSUME p[1][1] = "LogFileRead" PROVE \E j \in 1 .. Len(t) : t[j][1] = "fclose"
  <2>1. PICK j \in 1 .. Len(p) : 1 < j /\ p[j][1] = "fclose"
    BY <1>1, <1>4 DEF Closes
  <2> QED BY <1>2, <2>1
<1>5. ASSUME p[1][1] # "fclose", NEW j \in 1 .. Len(p), p[j][1] = "fclose"
      PROVE  \E k \in 1 .. Len(t) : t[k][1] = "fclose"
  <2>1. j > 1
    BY <1>5
  <2> QED BY <1>2, <1>5, <2>1
<1>6. Closes(t)
  BY <1>3 DEF Closes
<1> QED BY <1>1, <1>4, <1>5, <1>6 DEF t

\* Only the command thread reads a log file.
LEMMA ReadersAre ==
  ASSUME GInv, NEW t \in Threads, ops[t] # <<>>, Head(ops[t])[1] = "LogFileRead"
  PROVE  t = "commander"
<1>1. t \notin Clients
  BY WorkerStep DEF GInv, Programs
<1>2. t # "acceptor"
  <2> SUFFICES ASSUME t = "acceptor" PROVE FALSE
    OBVIOUS
  <2>1. PICK i \in 1 .. 5 : Head(ops["acceptor"]) = Accepting[i]
    BY AcceptorDone DEF GInv
  <2>2. Accepting[i][1] # "LogFileRead"
    BY AcceptingNames
  <2> QED BY <2>1, <2>2
<1> QED BY <1>1, <1>2, TheThreads, Zenon

LEMMA ReaderStep == GInv /\ TInv /\ [Next]_vars => Reader'
<1> SUFFICES ASSUME GInv, TInv, [Next]_vars PROVE Reader'
  OBVIOUS
<1>0. Reader /\ Typed /\ ops["commander"] \in Seq(CommanderOps)
  BY DEF TInv, GInv, Programs
<1>1. ASSUME mtx_log' = mtx_log, ops'["commander"] = ops["commander"] PROVE Reader'
  BY <1>0, <1>1 DEF Reader, Closes
<1>2. ASSUME NEW t \in Threads, t # "commander", mtx_log' = mtx_log,
             NEW p, ops' = [ops EXCEPT ![t] = p] \/ ops' = ops
      PROVE  Reader'
  <2>1. ops'["commander"] = ops["commander"]
    BY <1>0, <1>2, TheThreads DEF Typed
  <2> QED BY <1>1, <1>2, <2>1
<1>3. ASSUME NEW t \in Threads, Operation(t) PROVE Reader'
  <2>1. CASE Spawn(t)
    <3>1. /\ ops[t] # <<>> /\ Head(ops[t])[1] = "Spawn" /\ mtx_log' = mtx_log
          /\ ops' = [ops EXCEPT ![t] = Tail(@), ![client_sock] = Born]
      BY <2>1 DEF Spawn, Does, mutexes, Born
    <3>2. t = "acceptor"
      BY <3>1, SpawnIsAcceptors
    <3>3. client_sock \in Clients
      BY <3>1, <3>2 DEF GInv, Guarded
    <3>4. ops'["commander"] = ops["commander"]
      BY <1>0, <3>1, <3>2, <3>3, TheThreads DEF Typed
    <3> QED BY <1>1, <3>1, <3>4
  <2>2. CASE BlockedOutput(t)
    BY <1>1, <2>2 DEF BlockedOutput
  <2>3. CASE ~Spawn(t) /\ ~BlockedOutput(t)
    <3>1. /\ ops[t] # <<>> /\ ops' = [ops EXCEPT ![t] = Tail(ops[t])]
          /\ \/ mtx_log' = mtx_log /\ Head(ops[t])[1] \notin {"LogFileRead", "fclose"}
             \/ mtx_log' = t /\ Head(ops[t])[1] = "LogFileRead"
             \/ mtx_log' = None /\ Head(ops[t])[1] = "fclose"
      BY <1>0, <1>3, <2>3 DEF Typed, Operation, OutputModuleSockidOn, TcpUserArrayInsert,
         TcpUserArrayDelete, Output, ResumedOutput, Send, LogFileSet, LogFileRead,
         CloseLogFile, Outputs, Does, Done, mutexes
    <3>2. CASE t = "commander"
      <4> DEFINE p == ops["commander"]
      <4>1. p # <<>> /\ ops'["commander"] = Tail(p)
        BY <1>0, <3>1, <3>2, TheThreads DEF Typed
      <4>2. /\ Closes(Tail(p))
            /\ Head(p)[1] = "LogFileRead" =>
                 \E j \in 1 .. Len(Tail(p)) : Tail(p)[j][1] = "fclose"
            /\ Head(p)[1] # "fclose" /\ (\E j \in 1 .. Len(p) : p[j][1] = "fclose") =>
                 \E j \in 1 .. Len(Tail(p)) : Tail(p)[j][1] = "fclose"
        BY <1>0, <4>1, ClosesTail DEF Reader
      <4>3. Closes(ops["commander"])'
        BY <4>1, <4>2 DEF Closes
      <4>4. mtx_log' # None => mtx_log' = "commander"
                               /\ \E j \in 1 .. Len(Tail(p)) : Tail(p)[j][1] = "fclose"
        BY <1>0, <3>1, <3>2, <4>2 DEF Reader
      <4> QED BY <4>1, <4>3, <4>4 DEF Reader
    <3>3. CASE t # "commander"
      <4>1. Head(ops[t])[1] # "LogFileRead"
        BY <3>1, <3>3, ReadersAre
      <4>2. ops'["commander"] = ops["commander"]
        BY <1>0, <3>1, <3>3, TheThreads DEF Typed
      <4>3. mtx_log' \in {mtx_log, None}
        BY <3>1, <4>1
      <4> QED BY <1>0, <4>2, <4>3 DEF Reader, Closes
    <3> QED BY <3>2, <3>3
  <2> QED BY <2>1, <2>2, <2>3
<1>4. CASE Turn
  <2>1. mtx_log' = mtx_log /\ ops["commander"] = <<>>
    BY <1>4 DEF Turn, mutexes
  <2>2. PICK check \in {<<>>, Check}, body \in {Query, ReadLog} :
          \/ ops' = [ops EXCEPT !["commander"] = check]
          \/ ops' = [ops EXCEPT !["commander"] = Executing(body) \o check]
    BY <1>4, Zenon DEF Turn
  <2>3. ops'["commander"] \in {check, Executing(body) \o check}
    BY <1>0, <2>2, TheThreads DEF Typed
  <2>4. Closes(check) /\ Closes(Executing(body) \o check)
    BY ProgramsClose, Zenon
  <2>5. mtx_log = None
    BY <1>0, <2>1 DEF Reader
  <2>6. PICK p : p = ops'["commander"]
    OBVIOUS
  <2>7. Closes(p)
    BY <2>3, <2>4, <2>6, Zenon
  <2>8. Closes(ops["commander"])' <=> Closes(p)
    BY <2>6 DEF Closes
  <2> QED BY <2>1, <2>5, <2>7, <2>8 DEF Reader
<1>5. ASSUME NEW c \in Clients, Accept(c) PROVE Reader'
  BY <1>2, <1>5, TheThreads DEF Accept, mutexes
<1>6. ASSUME NEW w \in Clients, CopySocket(w) PROVE Reader'
  BY <1>2, <1>6, TheThreads DEF CopySocket, mutexes
<1>7. ASSUME NEW w \in Clients, Receive(w) PROVE Reader'
  BY <1>2, <1>7, TheThreads DEF Receive, mutexes
<1>8. ASSUME NEW c \in Clients, Client(c) PROVE Reader'
  BY <1>1, <1>8 DEF Client, mutexes
<1>9. CASE UNCHANGED vars
  BY <1>1, <1>9 DEF vars, mutexes
<1> QED BY <1>3, <1>4, <1>5, <1>6, <1>7, <1>8, <1>9, TheThreads
        DEF Next, Acceptor, Commander, Worker

(* What the variables hold: among others, the table never has more than    *)
(* MAXIMUM_CLIENT sockets, and each mutex is held by nobody or by a thread *)
(* still inside its critical section (OutputModule.cpp, LogFile.cpp).      *)
THEOREM TypeCorrect == Spec => []TypeOK
<1>1. GInv /\ TInv /\ [Next]_vars => TInv'
  BY StreamsStep, ScalarsStep, TableStep, HolderStep, ReaderStep, BegunStep DEF TInv
<1>2. GInv /\ TInv => TypeOK
  <2> SUFFICES ASSUME GInv, TInv PROVE TypeOK
    OBVIOUS
  <2>1. mtx_output \in {t \in Threads : Outputs(t)} \cup {None}
    BY DEF TInv, Holder
  <2>2. mtx_log \in {t \in {"commander"} : ops[t] # <<>>} \cup {None}
    <3>1. mtx_log # None => ops["commander"] # <<>>
      BY DEF TInv, Reader
    <3> QED BY <3>1 DEF TInv, Reader
  <2> QED BY <2>1, <2>2
          DEF TInv, GInv, Typed, Streams, Unread, Scalars, Table, TypeOK
<1> QED BY <1>1, <1>2, TInvInit, ThreadsInvariant, PTL DEF Spec

==============================================================================

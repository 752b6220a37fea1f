------------------------ MODULE ServerThreadsProofs ------------------------
(***************************************************************************)
(* Theorems about the locks and the threads of ServerThreads, for every    *)
(* number of signals, with and without failures, and whoever is busy.      *)
(***************************************************************************)
EXTENDS ServerThreads, TLAPS

(* What a thread has to give back: the mutexes it holds.  main also has to *)
(* join the threads it started, and it must not destroy the mutexes twice. *)
Charge == Mutex \cup Worker \cup {"destroyed"}

ChargeOf(t) ==
  {m \in Mutex : owner[m] = t}
    \cup (IF t = "main"
          THEN {w \in Worker : life[w] = "alive"}
                 \cup {d \in {"destroyed"} : \E m \in Mutex : owner[m] = "destroyed"}
          ELSE {})

(* What an operation does to the charge, and when it may be performed.     *)
After(h, o) ==
  IF o.op \in {"lock", "create"} THEN h \cup {o.arg}
  ELSE IF o.op \in {"unlock", "join"} THEN h \ {o.arg}
  ELSE IF o.op = "destroy" THEN {"destroyed"}
  ELSE h

May(h, o) ==
  /\ o.op = "lock" =>
       o.arg \in Mutex /\ \A held \in h \cap Mutex : \/ Rank[held] < Rank[o.arg]
                                                     \/ o.arg = "log" /\ held = "log"
  /\ o.op = "unlock" => o.arg \in Mutex
  /\ o.op = "log" => o.arg \in Level
  /\ o.op = "level" => o.arg \in Level
  /\ o.op = "choose" => o.arg \in {"accept", "serve"}
  /\ o.op \in {"choose", "return", "destroy"} => h = {}
  /\ o.op = "socket" => h \subseteq Worker
  /\ o.op = "create" => h \subseteq Worker /\ o.arg \in Worker \ h
  /\ o.op = "join" => o.arg \in Worker

(* A sequence of operations can be performed by a thread with the charge   *)
(* h, and leaves it at most e: H is what it has before each operation.     *)
Keeps(H, s, e) ==
  /\ H[Len(s) + 1] \subseteq e
  /\ \A i \in 1 .. Len(s) : May(H[i], s[i]) /\ After(H[i], s[i]) \subseteq H[i + 1]
Disciplined(h, s, e) ==
  \E H \in [1 .. Len(s) + 1 -> SUBSET Charge] : h \subseteq H[1] /\ Keeps(H, s, e)

Name      == {"lock", "unlock", "log", "level", "stop", "choose", "return", "init", "socket",
              "create", "loop", "join", "destroy"}
Argument  == Mutex \cup Level \cup Worker \cup {"nothing", "accept", "serve"}
Operation == [op : Name, arg : Argument]
Final(t)  == IF t = "main" THEN {"destroyed"} ELSE {}

TypeOK ==
  /\ todo \in [Thread -> Seq(Operation)]
  /\ level \in Level
  /\ owner \in [Mutex -> Thread \cup {"none", "destroyed"}]
  /\ life \in [Thread -> {"unborn", "alive", "done"}]
  /\ handle \in [Worker -> {"zero", "thread", "junk"}]

ThreadsInv ==
  /\ TypeOK
  /\ \A t \in Thread : life[t] = "alive" => Disciplined(ChargeOf(t), todo[t], Final(t))
  /\ \A t \in Worker : life[t] = "alive" => handle[t] = "thread"
  /\ \A t \in Worker, m \in Mutex : owner[m] = t => life[t] = "alive"

-----------------------------------------------------------------------------
(* Disciplined sequences.                                                  *)

(* A smaller charge is no harm.                                            *)
LEMMA Less ==
  ASSUME NEW h, NEW g \in SUBSET h, NEW s, NEW e, Disciplined(h, s, e)
  PROVE  Disciplined(g, s, e)
BY DEF Disciplined

(* What may be performed with a charge may be performed with a part of it. *)
LEMMA MayLess ==
  ASSUME NEW h, NEW g \in SUBSET h, NEW o, May(h, o)
  PROVE  May(g, o) /\ After(g, o) \subseteq After(h, o)
BY DEF May, After

LEMMA NothingToDo ==
  ASSUME NEW h, NEW e, h \in SUBSET Charge
  PROVE  Disciplined(h, <<>>, e) <=> h \subseteq e
<1>1. Len(<<>>) = 0
  OBVIOUS
<1>2. ASSUME Disciplined(h, <<>>, e) PROVE h \subseteq e
  BY <1>1, <1>2 DEF Disciplined, Keeps
<1>3. ASSUME h \subseteq e PROVE Disciplined(h, <<>>, e)
  <2>. DEFINE H == [i \in 1 .. 1 |-> h]
  <2>1. H \in [1 .. Len(<<>>) + 1 -> SUBSET Charge] /\ H[1] = h
    BY <1>1
  <2>2. Keeps(H, <<>>, e)
    BY <1>1, <1>3, <2>1 DEF Keeps
  <2>. QED
    BY <2>1, <2>2 DEF Disciplined
<1>. QED
  BY <1>2, <1>3

(* The first operation may be performed, and the others after it.          *)
LEMMA FirstOfAll ==
  ASSUME NEW h, NEW e, NEW s \in Seq(Operation), s # <<>>, Disciplined(h, s, e)
  PROVE  /\ May(h, Head(s)) /\ Tail(s) \in Seq(Operation)
         /\ Disciplined(After(h, Head(s)), Tail(s), e)
<1>1. PICK H \in [1 .. Len(s) + 1 -> SUBSET Charge] : h \subseteq H[1] /\ Keeps(H, s, e)
  BY DEF Disciplined
<1>2. /\ Len(s) \in Nat /\ Len(s) >= 1 /\ Head(s) = s[1] /\ Tail(s) \in Seq(Operation)
      /\ Len(Tail(s)) = Len(s) - 1 /\ \A i \in 1 .. Len(s) - 1 : Tail(s)[i] = s[i + 1]
  OBVIOUS
<1>3. May(H[1], s[1]) /\ After(H[1], s[1]) \subseteq H[2]
  BY <1>1, <1>2 DEF Keeps
<1>4. May(h, s[1]) /\ After(h, s[1]) \subseteq H[2]
  BY <1>1, <1>3, MayLess
<1>. DEFINE G == [i \in 1 .. Len(s) |-> H[i + 1]]
<1>5. G \in [1 .. Len(Tail(s)) + 1 -> SUBSET Charge] /\ G[1] = H[2]
  BY <1>2
<1>6. Keeps(G, Tail(s), e)
  <2>1. G[Len(Tail(s)) + 1] = H[Len(s) + 1]
    BY <1>2
  <2>2. ASSUME NEW i \in 1 .. Len(Tail(s))
        PROVE  May(G[i], Tail(s)[i]) /\ After(G[i], Tail(s)[i]) \subseteq G[i + 1]
    <3>1. i + 1 \in 1 .. Len(s) /\ Tail(s)[i] = s[i + 1] /\ G[i] = H[i + 1] /\ G[i + 1] = H[(i + 1) + 1]
      BY <1>2
    <3>. HIDE DEF G
    <3>. QED
      BY <1>1, <3>1 DEF Keeps
  <2>. QED
    BY <1>1, <2>1, <2>2 DEF Keeps
<1>. QED
  BY <1>2, <1>4, <1>5, <1>6 DEF Disciplined

(* One sequence after another.                                             *)
LEMMA OneAfterAnother ==
  ASSUME NEW h, NEW e, NEW f, NEW s \in Seq(Operation), NEW t \in Seq(Operation),
         Disciplined(h, s, e), Disciplined(e, t, f)
  PROVE  s \o t \in Seq(Operation) /\ Disciplined(h, s \o t, f)
<1>1. PICK H \in [1 .. Len(s) + 1 -> SUBSET Charge] : h \subseteq H[1] /\ Keeps(H, s, e)
  BY DEF Disciplined
<1>2. PICK G \in [1 .. Len(t) + 1 -> SUBSET Charge] : e \subseteq G[1] /\ Keeps(G, t, f)
  BY DEF Disciplined
<1>3. /\ Len(s) \in Nat /\ Len(t) \in Nat /\ Len(s \o t) = Len(s) + Len(t)
      /\ s \o t \in Seq(Operation)
      /\ \A i \in 1 .. Len(s) : (s \o t)[i] = s[i]
      /\ \A i \in Len(s) + 1 .. Len(s) + Len(t) : (s \o t)[i] = t[i - Len(s)]
  OBVIOUS
<1>. DEFINE F == [i \in 1 .. Len(s) + Len(t) + 1 |->
                    IF i <= Len(s) THEN H[i] ELSE G[i - Len(s)]]
<1>4. F \in [1 .. Len(s \o t) + 1 -> SUBSET Charge]
  BY <1>3
<1>5. h \subseteq F[1]
  <2>1. CASE Len(s) = 0
    <3>1. h \subseteq e /\ F[1] = G[1]
      BY <1>1, <1>3, <2>1 DEF Keeps
    <3>. QED
      BY <1>2, <3>1
  <2>2. CASE Len(s) # 0
    BY <1>1, <1>3, <2>2
  <2>. QED
    BY <2>1, <2>2
<1>6. F[Len(s \o t) + 1] \subseteq f
  BY <1>2, <1>3 DEF Keeps
<1>7. ASSUME NEW i \in 1 .. Len(s \o t)
      PROVE  May(F[i], (s \o t)[i]) /\ After(F[i], (s \o t)[i]) \subseteq F[i + 1]
  <2>0. i \in 1 .. Len(s) + Len(t)
    BY <1>3
  <2>1. CASE i < Len(s)
    <3>1. i \in 1 .. Len(s) /\ F[i] = H[i] /\ F[i + 1] = H[i + 1] /\ (s \o t)[i] = s[i]
      BY <1>3, <2>1
    <3>. HIDE DEF F
    <3>. QED
      BY <1>1, <3>1 DEF Keeps
  <2>2. CASE i = Len(s)
    <3>1. i \in 1 .. Len(s) /\ F[i] = H[i] /\ F[i + 1] = G[1] /\ (s \o t)[i] = s[i]
      BY <1>3, <2>2
    <3>. HIDE DEF F
    <3>2. May(H[i], s[i]) /\ After(H[i], s[i]) \subseteq e
      BY <1>1, <2>2, <3>1 DEF Keeps
    <3>. QED
      BY <1>2, <3>1, <3>2
  <2>3. CASE i > Len(s)
    <3>. DEFINE j == i - Len(s)
    <3>1. j \in 1 .. Len(t)
      BY <1>3, <2>0, <2>3
    <3>2. F[i] = G[j] /\ F[i + 1] = G[j + 1] /\ (s \o t)[i] = t[j]
      BY <1>3, <2>3, <3>1
    <3>. HIDE DEF F
    <3>. QED
      BY <1>2, <3>1, <3>2 DEF Keeps
  <2>. HIDE DEF F
  <2>4. i < Len(s) \/ i = Len(s) \/ i > Len(s)
    BY <1>3, <2>0
  <2>. QED
    BY <2>1, <2>2, <2>3, <2>4
<1>. HIDE DEF F
<1>. QED
  BY <1>3, <1>4, <1>5, <1>6, <1>7 DEF Disciplined, Keeps

-----------------------------------------------------------------------------
(* The paths of the threads.                                               *)
(* The operations the paths are made of.                                   *)
LEMMA OperationsTyped ==
  /\ \A m \in Mutex : Lock(m) \in Operation /\ Unlock(m) \in Operation
  /\ \A l \in Level : Log(l) \in Operation /\ Op("level", l) \in Operation
  /\ \A p \in {"accept", "serve"} : Choose(p) \in Operation
  /\ \A w \in Worker : /\ Join(w) \in Operation /\ Op("create", w) \in Operation
                         /\ Op("socket", w) \in Operation
  /\ \A name \in {"stop", "return", "init", "loop", "destroy"} : Op(name, "nothing") \in Operation
<1>1. \A name \in Name, arg \in Argument : Op(name, arg) \in Operation
  BY DEF Operation, Op
<1>2. /\ Mutex \subseteq Argument /\ Level \subseteq Argument /\ Worker \subseteq Argument
      /\ {"nothing", "accept", "serve"} \subseteq Argument
  BY DEF Argument
<1>3. {"lock", "unlock", "log", "level", "stop", "choose", "return", "init", "socket",
       "create", "loop", "join", "destroy"} \subseteq Name
  BY DEF Name
<1>. QED
  BY <1>1, <1>2, <1>3 DEF Lock, Unlock, Log, Choose, Join

Kept(path) == path \in Seq(Operation) /\ Disciplined({}, path, {})

(* To do nothing keeps the discipline.                                     *)
LEMMA NothingKept == Kept(<<>>)
<1>1. {} \in SUBSET Charge /\ {} \subseteq {}
  OBVIOUS
<1>. QED
  BY <1>1, NothingToDo DEF Kept

(* The names of the operations without an argument.                        *)
LEMMA StopAndReturn == Stop.op = "stop" /\ Return.op = "return"
BY DEF Stop, Return, Op

(* The paths of the client thread.                                         *)
LEMMA ClientPathsKept == \A path \in ClientPaths : Kept(path)
<1>1. Kept(<<Lock("clients"), Unlock("clients"), Choose("accept"), Choose("serve")>>)
  <2>. DEFINE s == <<Lock("clients"), Unlock("clients"), Choose("accept"),
                     Choose("serve")>>
              H == <<{}, {"clients"}, {}, {}, {}>>
  <2>1. {Lock("clients"), Unlock("clients"), Choose("accept"), Choose("serve")} \subseteq Operation
    BY OperationsTyped DEF Mutex, Level, Severity, Stop, Return
  <2>2. s \in Seq(Operation) /\ H \in [1 .. Len(s) + 1 -> SUBSET Charge]
    BY <2>1 DEF Charge, Mutex
  <2>3. Keeps(H, s, {})
    BY StopAndReturn DEF Keeps, May, After, Lock, Unlock, Log, Choose, Op, Mutex, Rank,
                         Level, Severity
  <2>. QED
    BY <2>2, <2>3 DEF Kept, Disciplined
<1>. QED
  BY NothingKept, <1>1 DEF ClientPaths

(* A connection is admitted or rejected.                                   *)
LEMMA AcceptPathsKept == \A path \in AcceptPaths : Kept(path)
<1>1. Kept(<<Lock("clients"), Lock("stats"), Unlock("stats"), Log("INFO"),
             Unlock("clients")>>)
  <2>. DEFINE s == <<Lock("clients"), Lock("stats"), Unlock("stats"), Log("INFO"),
                     Unlock("clients")>>
              H == <<{}, {"clients"}, {"clients", "stats"}, {"clients"}, {"clients"}, {}>>
  <2>1. {Lock("clients"), Lock("stats"), Unlock("stats"), Log("INFO"), Unlock("clients")} \subseteq Operation
    BY OperationsTyped DEF Mutex, Level, Severity, Stop, Return
  <2>2. s \in Seq(Operation) /\ H \in [1 .. Len(s) + 1 -> SUBSET Charge]
    BY <2>1 DEF Charge, Mutex
  <2>3. Keeps(H, s, {})
    BY StopAndReturn DEF Keeps, May, After, Lock, Unlock, Log, Choose, Op, Mutex, Rank,
                         Level, Severity
  <2>. QED
    BY <2>2, <2>3 DEF Kept, Disciplined
<1>2. Kept(<<Lock("clients"), Log("WARNING"), Unlock("clients")>>)
  <2>. DEFINE s == <<Lock("clients"), Log("WARNING"), Unlock("clients")>>
              H == <<{}, {"clients"}, {"clients"}, {}>>
  <2>1. {Lock("clients"), Log("WARNING"), Unlock("clients")} \subseteq Operation
    BY OperationsTyped DEF Mutex, Level, Severity, Stop, Return
  <2>2. s \in Seq(Operation) /\ H \in [1 .. Len(s) + 1 -> SUBSET Charge]
    BY <2>1 DEF Charge, Mutex
  <2>3. Keeps(H, s, {})
    BY StopAndReturn DEF Keeps, May, After, Lock, Unlock, Log, Choose, Op, Mutex, Rank,
                         Level, Severity
  <2>. QED
    BY <2>2, <2>3 DEF Kept, Disciplined
<1>. QED
  BY NothingKept, <1>1, <1>2 DEF AcceptPaths

(* A client is served or dropped.                                          *)
LEMMA ServePathsKept == \A path \in ServePaths : Kept(path)
<1>1. Kept(<<Lock("clients"), Unlock("clients")>>)
  <2>. DEFINE s == <<Lock("clients"), Unlock("clients")>>
              H == <<{}, {"clients"}, {}>>
  <2>1. {Lock("clients"), Unlock("clients")} \subseteq Operation
    BY OperationsTyped DEF Mutex, Level, Severity, Stop, Return
  <2>2. s \in Seq(Operation) /\ H \in [1 .. Len(s) + 1 -> SUBSET Charge]
    BY <2>1 DEF Charge, Mutex
  <2>3. Keeps(H, s, {})
    BY StopAndReturn DEF Keeps, May, After, Lock, Unlock, Log, Choose, Op, Mutex, Rank,
                         Level, Severity
  <2>. QED
    BY <2>2, <2>3 DEF Kept, Disciplined
<1>2. Kept(<<Lock("clients"), Unlock("clients"), Lock("clients"), Lock("stats"),
             Unlock("stats"), Log("INFO"), Unlock("clients")>>)
  <2>. DEFINE s == <<Lock("clients"), Unlock("clients"), Lock("clients"),
                     Lock("stats"), Unlock("stats"), Log("INFO"), Unlock("clients")>>
              H == <<{}, {"clients"}, {}, {"clients"}, {"clients", "stats"},
                     {"clients"}, {"clients"}, {}>>
  <2>1. {Lock("clients"), Unlock("clients"), Lock("stats"), Unlock("stats"), Log("INFO")} \subseteq Operation
    BY OperationsTyped DEF Mutex, Level, Severity, Stop, Return
  <2>2. s \in Seq(Operation) /\ H \in [1 .. Len(s) + 1 -> SUBSET Charge]
    BY <2>1 DEF Charge, Mutex
  <2>3. Keeps(H, s, {})
    BY StopAndReturn DEF Keeps, May, After, Lock, Unlock, Log, Choose, Op, Mutex, Rank,
                         Level, Severity
  <2>. QED
    BY <2>2, <2>3 DEF Kept, Disciplined
<1>. QED
  BY NothingKept, <1>1, <1>2 DEF ServePaths

(* The processor thread.                                                   *)
LEMMA ProcessorPathsKept == \A path \in ProcessorPaths : Kept(path)
<1>1. Kept(<<Lock("jobs"), Unlock("jobs")>>)
  <2>. DEFINE s == <<Lock("jobs"), Unlock("jobs")>>
              H == <<{}, {"jobs"}, {}>>
  <2>1. {Lock("jobs"), Unlock("jobs")} \subseteq Operation
    BY OperationsTyped DEF Mutex, Level, Severity, Stop, Return
  <2>2. s \in Seq(Operation) /\ H \in [1 .. Len(s) + 1 -> SUBSET Charge]
    BY <2>1 DEF Charge, Mutex
  <2>3. Keeps(H, s, {})
    BY StopAndReturn DEF Keeps, May, After, Lock, Unlock, Log, Choose, Op, Mutex, Rank,
                         Level, Severity
  <2>. QED
    BY <2>2, <2>3 DEF Kept, Disciplined
<1>2. Kept(<<Lock("jobs"), Unlock("jobs"), Log("INFO"), Lock("jobs"), Lock("stats"),
             Unlock("stats"), Lock("stats"), Unlock("stats"), Unlock("jobs"),
             Log("INFO")>>)
  <2>. DEFINE s == <<Lock("jobs"), Unlock("jobs"), Log("INFO"), Lock("jobs"),
                     Lock("stats"), Unlock("stats"), Lock("stats"), Unlock("stats"),
                     Unlock("jobs"), Log("INFO")>>
              H == <<{}, {"jobs"}, {}, {}, {"jobs"}, {"jobs", "stats"}, {"jobs"},
                     {"jobs", "stats"}, {"jobs"}, {}, {}>>
  <2>1. {Lock("jobs"), Unlock("jobs"), Log("INFO"), Lock("stats"), Unlock("stats")} \subseteq Operation
    BY OperationsTyped DEF Mutex, Level, Severity, Stop, Return
  <2>2. s \in Seq(Operation) /\ H \in [1 .. Len(s) + 1 -> SUBSET Charge]
    BY <2>1 DEF Charge, Mutex
  <2>3. Keeps(H, s, {})
    BY StopAndReturn DEF Keeps, May, After, Lock, Unlock, Log, Choose, Op, Mutex, Rank,
                         Level, Severity
  <2>. QED
    BY <2>2, <2>3 DEF Kept, Disciplined
<1>. QED
  BY NothingKept, <1>1, <1>2 DEF ProcessorPaths

(* The monitor thread.                                                     *)
LEMMA MonitorPathsKept == \A path \in MonitorPaths : Kept(path)
<1>1. Kept(<<Log("DEBUG")>>)
  <2>. DEFINE s == <<Log("DEBUG")>>
              H == <<{}, {}>>
  <2>1. {Log("DEBUG")} \subseteq Operation
    BY OperationsTyped DEF Mutex, Level, Severity, Stop, Return
  <2>2. s \in Seq(Operation) /\ H \in [1 .. Len(s) + 1 -> SUBSET Charge]
    BY <2>1 DEF Charge, Mutex
  <2>3. Keeps(H, s, {})
    BY StopAndReturn DEF Keeps, May, After, Lock, Unlock, Log, Choose, Op, Mutex, Rank,
                         Level, Severity
  <2>. QED
    BY <2>2, <2>3 DEF Kept, Disciplined
<1>. QED
  BY NothingKept, <1>1 DEF MonitorPaths

(* The admin thread.                                                       *)
LEMMA AdminPathsKept == \A path \in AdminPaths : Kept(path)
<1>1. Kept(<<Log("INFO")>>)
  <2>. DEFINE s == <<Log("INFO")>>
              H == <<{}, {}>>
  <2>1. {Log("INFO")} \subseteq Operation
    BY OperationsTyped DEF Mutex, Level, Severity, Stop, Return
  <2>2. s \in Seq(Operation) /\ H \in [1 .. Len(s) + 1 -> SUBSET Charge]
    BY <2>1 DEF Charge, Mutex
  <2>3. Keeps(H, s, {})
    BY StopAndReturn DEF Keeps, May, After, Lock, Unlock, Log, Choose, Op, Mutex, Rank,
                         Level, Severity
  <2>. QED
    BY <2>2, <2>3 DEF Kept, Disciplined
<1>2. Kept(<<Log("ERROR")>>)
  <2>. DEFINE s == <<Log("ERROR")>>
              H == <<{}, {}>>
  <2>1. {Log("ERROR")} \subseteq Operation
    BY OperationsTyped DEF Mutex, Level, Severity, Stop, Return
  <2>2. s \in Seq(Operation) /\ H \in [1 .. Len(s) + 1 -> SUBSET Charge]
    BY <2>1 DEF Charge, Mutex
  <2>3. Keeps(H, s, {})
    BY StopAndReturn DEF Keeps, May, After, Lock, Unlock, Log, Choose, Op, Mutex, Rank,
                         Level, Severity
  <2>. QED
    BY <2>2, <2>3 DEF Kept, Disciplined
<1>3. Kept(<<Lock("stats"), Unlock("stats")>>)
  <2>. DEFINE s == <<Lock("stats"), Unlock("stats")>>
              H == <<{}, {"stats"}, {}>>
  <2>1. {Lock("stats"), Unlock("stats")} \subseteq Operation
    BY OperationsTyped DEF Mutex, Level, Severity, Stop, Return
  <2>2. s \in Seq(Operation) /\ H \in [1 .. Len(s) + 1 -> SUBSET Charge]
    BY <2>1 DEF Charge, Mutex
  <2>3. Keeps(H, s, {})
    BY StopAndReturn DEF Keeps, May, After, Lock, Unlock, Log, Choose, Op, Mutex, Rank,
                         Level, Severity
  <2>. QED
    BY <2>2, <2>3 DEF Kept, Disciplined
<1>4. Kept(<<Log("INFO"), Stop, Log("INFO")>>)
  <2>. DEFINE s == <<Log("INFO"), Stop, Log("INFO")>>
              H == <<{}, {}, {}, {}>>
  <2>1. {Log("INFO"), Stop} \subseteq Operation
    BY OperationsTyped DEF Mutex, Level, Severity, Stop, Return
  <2>2. s \in Seq(Operation) /\ H \in [1 .. Len(s) + 1 -> SUBSET Charge]
    BY <2>1 DEF Charge, Mutex
  <2>3. Keeps(H, s, {})
    BY StopAndReturn DEF Keeps, May, After, Lock, Unlock, Log, Choose, Op, Mutex, Rank,
                         Level, Severity
  <2>. QED
    BY <2>2, <2>3 DEF Kept, Disciplined
<1>5. ASSUME NEW l \in NewLevels PROVE Kept(<<Op("level", l), Log("INFO")>>)
  <2>. DEFINE s == <<Op("level", l), Log("INFO")>>
              H == <<{}, {}, {}>>
  <2>0. l \in Level
    BY ConstantsAssumption DEF Level, Severity
  <2>1. {Op("level", l), Log("INFO")} \subseteq Operation
    BY <2>0, OperationsTyped DEF Level, Severity
  <2>2. s \in Seq(Operation) /\ H \in [1 .. Len(s) + 1 -> SUBSET Charge]
    BY <2>1 DEF Charge
  <2>3. Keeps(H, s, {})
    BY <2>0 DEF Keeps, May, After, Log, Op, Level, Severity
  <2>. QED
    BY <2>2, <2>3 DEF Kept, Disciplined
<1>. QED
  BY NothingKept, <1>1, <1>2, <1>3, <1>4, <1>5 DEF AdminPaths

(* Every path through a loop starts and ends with nothing held.            *)
LEMMA PathsKept ==
  ASSUME NEW p \in Worker \cup {"accept", "serve"}, NEW path \in Paths(p)
  PROVE  Kept(path)
<1>1. CASE p = "client"
  BY <1>1, ClientPathsKept DEF Paths
<1>2. CASE p = "accept"
  BY <1>2, AcceptPathsKept DEF Paths
<1>3. CASE p = "serve"
  BY <1>3, ServePathsKept DEF Paths
<1>4. CASE p = "admin"
  BY <1>4, AdminPathsKept DEF Paths
<1>5. CASE p = "processor"
  BY <1>5, ProcessorPathsKept DEF Paths
<1>6. CASE p = "monitor"
  BY <1>6, MonitorPathsKept DEF Paths
<1>. QED
  BY <1>1, <1>2, <1>3, <1>4, <1>5, <1>6 DEF Worker

(* The farewell of a thread, with or without an error before it, and its   *)
(* first messages.                                                         *)
LEMMA EndsKept ==
  /\ Kept(Farewell) /\ Kept(<<Log("ERROR")>> \o Farewell)
  /\ \A t \in Worker : \A start \in Starts(t) : Kept(start)
<1>1. Kept(<<Log("INFO"), Return>>)
  <2>. DEFINE s == <<Log("INFO"), Return>>
              H == <<{}, {}, {}>>
  <2>1. {Log("INFO"), Return} \subseteq Operation
    BY OperationsTyped DEF Mutex, Level, Severity, Stop, Return
  <2>2. s \in Seq(Operation) /\ H \in [1 .. Len(s) + 1 -> SUBSET Charge]
    BY <2>1 DEF Charge, Mutex
  <2>3. Keeps(H, s, {})
    BY StopAndReturn DEF Keeps, May, After, Lock, Unlock, Log, Choose, Op, Mutex, Rank,
                         Level, Severity
  <2>. QED
    BY <2>2, <2>3 DEF Kept, Disciplined
<1>2. Kept(<<Log("ERROR")>>)
  <2>. DEFINE s == <<Log("ERROR")>>
              H == <<{}, {}>>
  <2>1. {Log("ERROR")} \subseteq Operation
    BY OperationsTyped DEF Mutex, Level, Severity, Stop, Return
  <2>2. s \in Seq(Operation) /\ H \in [1 .. Len(s) + 1 -> SUBSET Charge]
    BY <2>1 DEF Charge, Mutex
  <2>3. Keeps(H, s, {})
    BY StopAndReturn DEF Keeps, May, After, Lock, Unlock, Log, Choose, Op, Mutex, Rank,
                         Level, Severity
  <2>. QED
    BY <2>2, <2>3 DEF Kept, Disciplined
<1>3. Kept(<<Log("INFO")>>)
  <2>. DEFINE s == <<Log("INFO")>>
              H == <<{}, {}>>
  <2>1. {Log("INFO")} \subseteq Operation
    BY OperationsTyped DEF Mutex, Level, Severity, Stop, Return
  <2>2. s \in Seq(Operation) /\ H \in [1 .. Len(s) + 1 -> SUBSET Charge]
    BY <2>1 DEF Charge, Mutex
  <2>3. Keeps(H, s, {})
    BY StopAndReturn DEF Keeps, May, After, Lock, Unlock, Log, Choose, Op, Mutex, Rank,
                         Level, Severity
  <2>. QED
    BY <2>2, <2>3 DEF Kept, Disciplined
<1>4. Kept(<<Log("INFO"), Log("ERROR"), Return>>)
  <2>. DEFINE s == <<Log("INFO"), Log("ERROR"), Return>>
              H == <<{}, {}, {}, {}>>
  <2>1. {Log("INFO"), Log("ERROR"), Return} \subseteq Operation
    BY OperationsTyped DEF Mutex, Level, Severity, Stop, Return
  <2>2. s \in Seq(Operation) /\ H \in [1 .. Len(s) + 1 -> SUBSET Charge]
    BY <2>1 DEF Charge, Mutex
  <2>3. Keeps(H, s, {})
    BY StopAndReturn DEF Keeps, May, After, Lock, Unlock, Log, Choose, Op, Mutex, Rank,
                         Level, Severity
  <2>. QED
    BY <2>2, <2>3 DEF Kept, Disciplined
<1>5. Kept(<<Log("ERROR")>> \o Farewell)
  BY <1>1, <1>2, OneAfterAnother DEF Kept, Farewell
<1>. QED
  BY <1>1, <1>3, <1>4, <1>5 DEF Farewell, Starts

(* What the handler of a signal does, and log_message, whatever the thread *)
(* holds.                                                                  *)
LEMMA OnTop ==
  ASSUME NEW h \in SUBSET Charge
  PROVE  /\ <<Log("INFO"), Stop>> \in Seq(Operation) /\ Disciplined(h, <<Log("INFO"), Stop>>, h)
         /\ <<Lock("log"), Unlock("log")>> \in Seq(Operation)
         /\ Disciplined(h, <<Lock("log"), Unlock("log")>>, h)
<1>1. {Log("INFO"), Stop, Lock("log"), Unlock("log")} \subseteq Operation
  BY OperationsTyped DEF Mutex, Level, Severity, Stop
<1>2. <<Log("INFO"), Stop>> \in Seq(Operation) /\ <<Lock("log"), Unlock("log")>> \in Seq(Operation)
  BY <1>1
<1>3. Disciplined(h, <<Log("INFO"), Stop>>, h)
  <2>. DEFINE H == <<h, h, h>>
              s == <<Log("INFO"), Stop>>
  <2>1. H \in [1 .. Len(s) + 1 -> SUBSET Charge]
    OBVIOUS
  <2>2. Keeps(H, s, h)
    BY StopAndReturn DEF Keeps, May, After, Log, Op, Level, Severity
  <2>. QED
    BY <2>1, <2>2 DEF Disciplined
<1>4. Disciplined(h, <<Lock("log"), Unlock("log")>>, h)
  <2>. DEFINE H == <<h, h \cup {"log"}, h>>
              s == <<Lock("log"), Unlock("log")>>
  <2>1. H \in [1 .. Len(s) + 1 -> SUBSET Charge]
    <3>1. h \cup {"log"} \subseteq Charge
      BY DEF Charge, Mutex
    <3>. QED
      BY <3>1
  <2>2. Keeps(H, s, h)
    BY DEF Keeps, May, After, Lock, Unlock, Op, Mutex, Rank
  <2>. QED
    BY <2>1, <2>2 DEF Disciplined
<1>. QED
  BY <1>2, <1>3, <1>4

-----------------------------------------------------------------------------
(* main.                                                                   *)

(* An operation is its name and its argument.                              *)
LEMMA Fields == \A name, arg : Op(name, arg).op = name /\ Op(name, arg).arg = arg
BY DEF Op

(* Cleanup joins every thread there may be before it destroys the mutexes. *)
LEMMA CleanupDisciplined ==
  Cleanup \in Seq(Operation) /\ Disciplined(Worker, Cleanup, {"destroyed"})
<1>. DEFINE H == <<Worker, Worker, Worker \cup {"clients"}, Worker,
                   {"client", "processor", "monitor"}, {"processor", "monitor"}, {"monitor"},
                   {}, {"destroyed"}, {"destroyed"}>>
<1>1. {Stop, Lock("clients"), Unlock("clients"), Join("admin"), Join("client"), Join("processor"),
       Join("monitor"), Op("destroy", "nothing"), Log("INFO")} \subseteq Operation
  BY OperationsTyped DEF Mutex, Worker, Level, Severity, Stop
<1>2. Cleanup \in Seq(Operation)
  BY <1>1 DEF Cleanup
<1>3. H \in [1 .. Len(Cleanup) + 1 -> SUBSET Charge]
  BY DEF Cleanup, Charge, Worker, Mutex
<1>4. Keeps(H, Cleanup, {"destroyed"})
  BY Fields, StopAndReturn
     DEF Keeps, Cleanup, May, After, Lock, Unlock, Join, Log, Mutex, Worker, Level, Severity
<1>. QED
  BY <1>2, <1>3, <1>4 DEF Disciplined

(* main gives up when a socket or a thread cannot be created.              *)
LEMMA GivesUp ==
  /\ <<Log("ERROR")>> \o Cleanup \in Seq(Operation)
  /\ Disciplined(Worker, <<Log("ERROR")>> \o Cleanup, {"destroyed"})
<1>. DEFINE s == <<Log("ERROR")>>
            H == <<Worker, Worker>>
<1>1. s \in Seq(Operation) /\ H \in [1 .. Len(s) + 1 -> SUBSET Charge]
  BY OperationsTyped DEF Level, Severity, Charge
<1>2. Keeps(H, s, Worker)
  BY Fields DEF Keeps, May, After, Log, Level, Severity
<1>3. Disciplined(Worker, s, Worker)
  BY <1>1, <1>2 DEF Disciplined
<1>. QED
  BY <1>1, <1>3, CleanupDisciplined, OneAfterAnother

(* main starts four threads, at most, and gives them all back.             *)
LEMMA MainDisciplined ==
  Main \in Seq(Operation) /\ Disciplined({}, Main, {"destroyed"})
<1>. DEFINE s == <<Op("init", "nothing"), Log("INFO"), Op("socket", "admin"), Log("INFO"),
                   Op("socket", "client"), Log("INFO"),
                   Op("create", "admin"), Op("create", "client"), Op("create", "processor"),
                   Op("create", "monitor"), Log("INFO"), Op("loop", "nothing"), Log("INFO")>>
            H == <<{}, {}, {}, {}, {}, {}, {}, {"admin"}, {"admin", "client"},
                   {"admin", "client", "processor"}, Worker, Worker, Worker, Worker>>
<1>1. {Op("init", "nothing"), Log("INFO"), Op("socket", "admin"), Op("socket", "client"),
       Op("create", "admin"), Op("create", "client"), Op("create", "processor"),
       Op("create", "monitor"), Op("loop", "nothing")} \subseteq Operation
  BY OperationsTyped DEF Worker, Level, Severity
<1>2. s \in Seq(Operation) /\ H \in [1 .. Len(s) + 1 -> SUBSET Charge]
  BY <1>1 DEF Charge, Worker
<1>3. Keeps(H, s, Worker)
  BY Fields DEF Keeps, May, After, Log, Worker, Level, Severity
<1>4. Disciplined({}, s, Worker)
  BY <1>2, <1>3 DEF Disciplined
<1>. HIDE DEF s, H
<1>5. s \o Cleanup \in Seq(Operation) /\ Disciplined({}, s \o Cleanup, {"destroyed"})
  BY <1>2, <1>4, CleanupDisciplined, OneAfterAnother
<1>. QED
  BY <1>5 DEF s, Main

-----------------------------------------------------------------------------
(* Steps.                                                                  *)

(* What is owed are mutexes, workers and the destruction.                  *)
LEMMA ChargeTyped == \A t \in Thread : ChargeOf(t) \subseteq Charge
BY DEF ChargeOf, Charge

(* The operation a thread performs is one it may perform.                  *)
LEMMA Performing ==
  ASSUME ThreadsInv, NEW t \in Thread, NEW name, Performs(t, name)
  PROVE  /\ life[t] = "alive" /\ Head(todo[t]) \in Operation /\ Head(todo[t]).op = name
         /\ May(ChargeOf(t), Head(todo[t])) /\ Tail(todo[t]) \in Seq(Operation)
         /\ Disciplined(After(ChargeOf(t), Head(todo[t])), Tail(todo[t]), Final(t))
<1>1. /\ life[t] = "alive" /\ todo[t] \in Seq(Operation) /\ todo[t] # <<>>
      /\ Head(todo[t]).op = name
      /\ Disciplined(ChargeOf(t), todo[t], Final(t))
  BY DEF Performs, ThreadsInv, TypeOK
<1>2. Head(todo[t]) \in Operation
  BY <1>1
<1>. QED
  BY <1>1, <1>2, FirstOfAll

(* A step of t after which t is disciplined and the others owe no more.    *)
LEMMA StepOf ==
  ASSUME ThreadsInv, TypeOK', NEW t \in Thread,
         life'[t] = "alive" => Disciplined(ChargeOf(t)', todo'[t], Final(t)),
         \A u \in Thread \ {t} : /\ todo'[u] = todo[u] /\ ChargeOf(u)' \subseteq ChargeOf(u)
                                 /\ life'[u] = "alive" => life[u] = "alive",
         \A w \in Worker : life'[w] = "alive" => handle'[w] = "thread",
         \A w \in Worker, m \in Mutex : owner'[m] = w => life'[w] = "alive"
  PROVE  ThreadsInv'
<1>1. ASSUME NEW u \in Thread \ {t}, life'[u] = "alive"
      PROVE  Disciplined(ChargeOf(u)', todo'[u], Final(u))
  BY <1>1, Less DEF ThreadsInv
<1>. QED
  BY <1>1 DEF ThreadsInv, Final

(* Steps that neither lock nor unlock, nor end or start a thread.          *)
LEMMA QuietStepOf ==
  ASSUME ThreadsInv, NEW t \in Thread, NEW s \in Seq(Operation),
         life[t] = "alive" => Disciplined(ChargeOf(t), s, Final(t)),
         todo' = [todo EXCEPT ![t] = s], level' \in Level, UNCHANGED <<owner, life, handle>>
  PROVE  ThreadsInv'
<1>1. \A u \in Thread : ChargeOf(u)' = ChargeOf(u)
  BY DEF ChargeOf
<1>2. TypeOK' /\ todo'[t] = s /\ \A u \in Thread \ {t} : todo'[u] = todo[u]
  BY DEF ThreadsInv, TypeOK
<1>. QED
  BY <1>1, <1>2, StepOf DEF ThreadsInv

(* The mutexes.                                                            *)
LEMMA LockKeeps ==
  ASSUME ThreadsInv, NEW t \in Thread, DoLock(t)
  PROVE  ThreadsInv'
<1>. DEFINE o == Head(todo[t])
<1>1. /\ life[t] = "alive" /\ o.op = "lock" /\ May(ChargeOf(t), o)
      /\ Tail(todo[t]) \in Seq(Operation)
      /\ Disciplined(After(ChargeOf(t), o), Tail(todo[t]), Final(t))
  BY Performing DEF DoLock
<1>2. o.arg \in Mutex /\ After(ChargeOf(t), o) = ChargeOf(t) \cup {o.arg}
  BY <1>1 DEF May, After
<1>. HIDE DEF o
<1>3. /\ owner' \in {owner, [owner EXCEPT ![o.arg] = t]}
      /\ owner' # owner => owner[o.arg] = "none"
      /\ todo' = [todo EXCEPT ![t] = Tail(todo[t])] /\ UNCHANGED <<level, life, handle>>
  BY DEF DoLock, Arg, Proceed, o
<1>4. TypeOK'
  BY <1>1, <1>2, <1>3 DEF ThreadsInv, TypeOK
<1>5. ChargeOf(t)' \subseteq ChargeOf(t) \cup {o.arg}
  BY <1>2, <1>3 DEF ChargeOf, ThreadsInv, TypeOK, Mutex
<1>6. \A u \in Thread \ {t} : ChargeOf(u)' \subseteq ChargeOf(u)
  BY <1>2, <1>3 DEF ChargeOf, ThreadsInv, TypeOK, Mutex, Thread, Worker
<1>7. Disciplined(ChargeOf(t)', todo'[t], Final(t))
  BY <1>1, <1>2, <1>3, <1>5, Less DEF ThreadsInv, TypeOK
<1>8. \A u \in Thread \ {t} : todo'[u] = todo[u]
  BY <1>3 DEF ThreadsInv, TypeOK
<1>9. \A w \in Worker, m \in Mutex : owner'[m] = w => life'[w] = "alive"
  BY <1>1, <1>2, <1>3 DEF ThreadsInv, TypeOK
<1>. QED
  BY <1>3, <1>4, <1>6, <1>7, <1>8, <1>9, StepOf DEF ThreadsInv

(* An unlock takes the mutex from the charge of the thread.                *)
LEMMA UnlockKeeps ==
  ASSUME ThreadsInv, NEW t \in Thread, DoUnlock(t)
  PROVE  ThreadsInv'
<1>. DEFINE o == Head(todo[t])
<1>1. /\ life[t] = "alive" /\ o.op = "unlock" /\ May(ChargeOf(t), o)
      /\ Tail(todo[t]) \in Seq(Operation)
      /\ Disciplined(After(ChargeOf(t), o), Tail(todo[t]), Final(t))
  BY Performing DEF DoUnlock
<1>2. o.arg \in Mutex /\ After(ChargeOf(t), o) = ChargeOf(t) \ {o.arg}
  BY <1>1 DEF May, After
<1>. HIDE DEF o
<1>3. /\ owner' = [owner EXCEPT ![o.arg] = IF @ = "destroyed" THEN @ ELSE "none"]
      /\ todo' = [todo EXCEPT ![t] = Tail(todo[t])] /\ UNCHANGED <<level, life, handle>>
  BY DEF DoUnlock, Arg, Proceed, o
<1>4. TypeOK'
  BY <1>1, <1>2, <1>3 DEF ThreadsInv, TypeOK
<1>5. \A m \in Mutex : owner'[m] \in {owner[m], "none"} /\ (m = o.arg => owner'[m] \in {"none", "destroyed"})
  BY <1>2, <1>3 DEF ThreadsInv, TypeOK
<1>6. \A u \in Thread : "none" # u /\ "destroyed" # u
  BY DEF Thread, Worker
<1>7. \A u \in Thread : ChargeOf(u)' \subseteq ChargeOf(u)
  BY <1>3, <1>5, <1>6 DEF ChargeOf
<1>8. ChargeOf(t)' \subseteq ChargeOf(t) \ {o.arg}
  BY <1>2, <1>3, <1>5, <1>6, <1>7 DEF ChargeOf, Mutex, Worker
<1>9. Disciplined(ChargeOf(t)', todo'[t], Final(t))
  BY <1>1, <1>2, <1>3, <1>8, Less DEF ThreadsInv, TypeOK
<1>10. \A u \in Thread \ {t} : todo'[u] = todo[u]
  BY <1>3 DEF ThreadsInv, TypeOK
<1>11. \A w \in Worker, m \in Mutex : owner'[m] = w => life'[w] = "alive"
  BY <1>3, <1>5, <1>6 DEF ThreadsInv, TypeOK, Thread
<1>. QED
  BY <1>3, <1>4, <1>7, <1>9, <1>10, <1>11, StepOf DEF ThreadsInv

(* Messages, the flag and the level, in whatever the thread was doing.     *)
LEMMA LogKeeps ==
  ASSUME ThreadsInv, NEW t \in Thread, DoLog(t)
  PROVE  ThreadsInv'
<1>. DEFINE o == Head(todo[t])
            rest == Tail(todo[t])
            message == <<Lock("log"), Unlock("log")>>
            s == IF Severity[Arg(t)] < Severity[level] THEN rest ELSE message \o rest
<1>1. /\ o.op = "log" /\ rest \in Seq(Operation)
      /\ Disciplined(After(ChargeOf(t), o), rest, Final(t))
  BY Performing DEF DoLog
<1>2. After(ChargeOf(t), o) = ChargeOf(t)
  BY <1>1 DEF After
<1>3. message \o rest \in Seq(Operation) /\ Disciplined(ChargeOf(t), message \o rest, Final(t))
  BY <1>1, <1>2, ChargeTyped, OnTop, OneAfterAnother
<1>4. s \in Seq(Operation) /\ Disciplined(ChargeOf(t), s, Final(t))
  BY <1>1, <1>2, <1>3
<1>5. todo' = [todo EXCEPT ![t] = s] /\ UNCHANGED <<level, owner, life, handle>>
  BY DEF DoLog
<1>6. level \in Level
  BY DEF ThreadsInv, TypeOK
<1>. HIDE DEF s
<1>. QED
  BY <1>4, <1>5, <1>6, QuietStepOf

(* The flag is no part of what a thread owes.                              *)
LEMMA StopKeeps ==
  ASSUME ThreadsInv, NEW t \in Thread, DoStop(t)
  PROVE  ThreadsInv'
<1>1. /\ Tail(todo[t]) \in Seq(Operation) /\ Head(todo[t]).op = "stop"
      /\ Disciplined(After(ChargeOf(t), Head(todo[t])), Tail(todo[t]), Final(t))
  BY Performing DEF DoStop
<1>2. After(ChargeOf(t), Head(todo[t])) = ChargeOf(t)
  BY <1>1 DEF After
<1>3. /\ todo' = [todo EXCEPT ![t] = Tail(todo[t])] /\ UNCHANGED <<owner, life, handle>>
      /\ level' \in Level
  BY DEF DoStop, Proceed, ThreadsInv, TypeOK
<1>. QED
  BY <1>1, <1>2, <1>3, QuietStepOf

(* SET_LOG_LEVEL stores one of the four levels.                            *)
LEMMA LevelKeeps ==
  ASSUME ThreadsInv, NEW t \in Thread, SetLevel(t)
  PROVE  ThreadsInv'
<1>1. /\ Tail(todo[t]) \in Seq(Operation) /\ Head(todo[t]).op = "level"
      /\ May(ChargeOf(t), Head(todo[t]))
      /\ Disciplined(After(ChargeOf(t), Head(todo[t])), Tail(todo[t]), Final(t))
  BY Performing DEF SetLevel
<1>2. After(ChargeOf(t), Head(todo[t])) = ChargeOf(t) /\ Head(todo[t]).arg \in Level
  BY <1>1 DEF After, May
<1>3. /\ todo' = [todo EXCEPT ![t] = Tail(todo[t])] /\ UNCHANGED <<owner, life, handle>>
      /\ level' \in Level
  BY <1>2 DEF SetLevel, Proceed, Arg
<1>. QED
  BY <1>1, <1>2, <1>3, QuietStepOf

(* A signal: its handler keeps what the interrupted thread holds.          *)
LEMMA SignalKeeps ==
  ASSUME ThreadsInv, NEW t \in Thread, SignalArrives(t)
  PROVE  ThreadsInv'
<1>. DEFINE handler == <<Log("INFO"), Stop>>
<1>1. life[t] = "alive" /\ todo[t] \in Seq(Operation) /\ level \in Level
      /\ Disciplined(ChargeOf(t), todo[t], Final(t))
  BY DEF SignalArrives, ThreadsInv, TypeOK
<1>2. handler \o todo[t] \in Seq(Operation) /\ Disciplined(ChargeOf(t), handler \o todo[t], Final(t))
  BY <1>1, ChargeTyped, OnTop, OneAfterAnother
<1>3. todo' = [todo EXCEPT ![t] = handler \o todo[t]] /\ UNCHANGED <<level, owner, life, handle>>
  BY DEF SignalArrives
<1>. HIDE DEF handler
<1>. QED
  BY <1>1, <1>2, <1>3, QuietStepOf

(* The paths of a worker: it holds nothing when it chooses one.            *)
LEMMA RoundKeeps ==
  ASSUME ThreadsInv, NEW t \in Worker, StartRound(t)
  PROVE  ThreadsInv'
<1>1. PICK path \in Paths(t) : todo' = [todo EXCEPT ![t] = path]
  BY DEF StartRound
<1>2. t \in Thread /\ Final(t) = {}
  BY DEF Thread, Worker, Final
<1>3. todo[t] = <<>> /\ Disciplined(ChargeOf(t), <<>>, {}) /\ ChargeOf(t) \in SUBSET Charge
  BY <1>2, ChargeTyped DEF StartRound, ThreadsInv
<1>4. ChargeOf(t) = {}
  BY <1>3, NothingToDo
<1>5. path \in Seq(Operation) /\ Disciplined(ChargeOf(t), path, Final(t))
  BY <1>2, <1>4, PathsKept DEF Kept
<1>6. UNCHANGED <<level, owner, life, handle>> /\ level \in Level
  BY DEF StartRound, ThreadsInv, TypeOK
<1>. QED
  BY <1>1, <1>2, <1>5, <1>6, QuietStepOf

(* The second half of a round of the client thread.                        *)
LEMMA ChoiceKeeps ==
  ASSUME ThreadsInv, NEW t \in Worker, ChoosePath(t)
  PROVE  ThreadsInv'
<1>1. PICK path \in Paths(Arg(t)) : todo' = [todo EXCEPT ![t] = path \o Tail(todo[t])]
  BY DEF ChoosePath
<1>2. t \in Thread
  BY DEF Thread
<1>3. /\ Tail(todo[t]) \in Seq(Operation) /\ Head(todo[t]).op = "choose"
      /\ May(ChargeOf(t), Head(todo[t]))
      /\ Disciplined(After(ChargeOf(t), Head(todo[t])), Tail(todo[t]), Final(t))
  BY <1>2, Performing DEF ChoosePath
<1>4. ChargeOf(t) = {} /\ Arg(t) \in {"accept", "serve"}
  BY <1>3 DEF May, Arg
<1>5. Disciplined({}, Tail(todo[t]), Final(t))
  BY <1>3, <1>4 DEF After
<1>6. path \in Seq(Operation) /\ Disciplined({}, path, {})
  BY <1>4, PathsKept DEF Kept
<1>7. path \o Tail(todo[t]) \in Seq(Operation) /\ Disciplined(ChargeOf(t), path \o Tail(todo[t]), Final(t))
  BY <1>3, <1>4, <1>5, <1>6, OneAfterAnother
<1>8. UNCHANGED <<level, owner, life, handle>> /\ level \in Level
  BY DEF ChoosePath, ThreadsInv, TypeOK
<1>. QED
  BY <1>1, <1>2, <1>7, <1>8, QuietStepOf

(* The loop is left with nothing held, too.                                *)
LEMMA LeaveKeeps ==
  ASSUME ThreadsInv, NEW t \in Worker, LeaveLoop(t)
  PROVE  ThreadsInv'
<1>1. PICK path \in {Farewell, <<Log("ERROR")>> \o Farewell} : todo' = [todo EXCEPT ![t] = path]
  BY DEF LeaveLoop
<1>2. t \in Thread /\ Final(t) = {}
  BY DEF Thread, Worker, Final
<1>3. todo[t] = <<>> /\ Disciplined(ChargeOf(t), <<>>, {}) /\ ChargeOf(t) \in SUBSET Charge
  BY <1>2, ChargeTyped DEF LeaveLoop, ThreadsInv
<1>4. ChargeOf(t) = {}
  BY <1>3, NothingToDo
<1>5. path \in Seq(Operation) /\ Disciplined(ChargeOf(t), path, Final(t))
  BY <1>2, <1>4, EndsKept DEF Kept
<1>6. UNCHANGED <<level, owner, life, handle>> /\ level \in Level
  BY DEF LeaveLoop, ThreadsInv, TypeOK
<1>. QED
  BY <1>1, <1>2, <1>5, <1>6, QuietStepOf

(* A thread that ends holds nothing, and there is one less to join.        *)
LEMMA EndKeeps ==
  ASSUME ThreadsInv, NEW t \in Worker, EndThread(t)
  PROVE  ThreadsInv'
<1>1. t \in Thread /\ t # "main"
  BY DEF Thread, Worker
<1>2. Tail(todo[t]) \in Seq(Operation) /\ Head(todo[t]).op = "return" /\ May(ChargeOf(t), Head(todo[t]))
  BY <1>1, Performing DEF EndThread
<1>3. ChargeOf(t) = {}
  BY <1>2 DEF May
<1>4. /\ life' = [life EXCEPT ![t] = "done"] /\ todo' = [todo EXCEPT ![t] = Tail(todo[t])]
      /\ UNCHANGED <<level, owner, handle>>
  BY DEF EndThread, Proceed
<1>5. TypeOK' /\ life'[t] = "done"
  BY <1>1, <1>2, <1>4 DEF ThreadsInv, TypeOK
<1>6. \A u \in Thread \ {t} : todo'[u] = todo[u] /\ life'[u] = life[u]
  BY <1>4 DEF ThreadsInv, TypeOK
<1>7. \A u \in Thread \ {t} : ChargeOf(u)' \subseteq ChargeOf(u)
  BY <1>4, <1>5, <1>6, Zenon DEF ChargeOf, Thread
<1>8. \A w \in Worker : life'[w] = "alive" => handle'[w] = "thread"
  BY <1>4, <1>5, <1>6 DEF ThreadsInv, Thread
<1>9. \A w \in Worker, m \in Mutex : owner'[m] = w => life'[w] = "alive"
  BY <1>3, <1>4, <1>6 DEF ThreadsInv, Thread, ChargeOf
<1>. QED
  BY <1>1, <1>5, <1>6, <1>7, <1>8, <1>9, StepOf

-----------------------------------------------------------------------------
(* Steps of main.                                                          *)
(* init_server_state changes the flag and the level only.                  *)
LEMMA InitKeeps ==
  ASSUME ThreadsInv, InitServerState
  PROVE  ThreadsInv'
<1>1. "main" \in Thread
  BY DEF Thread
<1>2. /\ Tail(todo["main"]) \in Seq(Operation) /\ Head(todo["main"]).op = "init"
      /\ Disciplined(After(ChargeOf("main"), Head(todo["main"])), Tail(todo["main"]), Final("main"))
  BY <1>1, Performing DEF InitServerState
<1>3. After(ChargeOf("main"), Head(todo["main"])) = ChargeOf("main")
  BY <1>2 DEF After
<1>4. /\ todo' = [todo EXCEPT !["main"] = Tail(todo["main"])] /\ UNCHANGED <<owner, life, handle>>
      /\ level' \in Level
  BY DEF InitServerState, Proceed, Level, Severity
<1>. QED
  BY <1>1, <1>2, <1>3, <1>4, QuietStepOf

(* What a failure leaves to do: main has to join the threads it started.   *)
LEMMA GivingUp ==
  ASSUME NEW h \in SUBSET Worker
  PROVE  /\ <<Log("ERROR")>> \o Cleanup \in Seq(Operation)
         /\ Disciplined(h, <<Log("ERROR")>> \o Cleanup, Final("main"))
BY GivesUp, Less DEF Final

(* main may fail to create a socket when it has started nothing.           *)
LEMMA SocketKeeps ==
  ASSUME ThreadsInv, CreateSocket
  PROVE  ThreadsInv'
<1>1. "main" \in Thread
  BY DEF Thread
<1>2. /\ Tail(todo["main"]) \in Seq(Operation) /\ Head(todo["main"]).op = "socket"
      /\ May(ChargeOf("main"), Head(todo["main"]))
      /\ Disciplined(After(ChargeOf("main"), Head(todo["main"])), Tail(todo["main"]), Final("main"))
  BY <1>1, Performing DEF CreateSocket
<1>3. ChargeOf("main") \in SUBSET Worker
  BY <1>2 DEF May
<1>4. Disciplined(ChargeOf("main"), Tail(todo["main"]), Final("main"))
  BY <1>2 DEF After
<1>5. PICK s \in {Tail(todo["main"]), <<Log("ERROR")>> \o Cleanup} :
        todo' = [todo EXCEPT !["main"] = s]
  BY DEF CreateSocket, Proceed
<1>6. s \in Seq(Operation) /\ Disciplined(ChargeOf("main"), s, Final("main"))
  BY <1>2, <1>3, <1>4, <1>5, GivingUp
<1>7. UNCHANGED <<level, owner, life, handle>> /\ level \in Level
  BY DEF CreateSocket, ThreadsInv, TypeOK
<1>. QED
  BY <1>1, <1>5, <1>6, <1>7, QuietStepOf

(* A thread is created that was not alive, and so holds nothing.           *)
LEMMA CreateKeeps ==
  ASSUME ThreadsInv, CreateThread
  PROVE  ThreadsInv'
<1>. DEFINE o == Head(todo["main"])
<1>1. "main" \in Thread
  BY DEF Thread
<1>2. /\ Tail(todo["main"]) \in Seq(Operation) /\ o.op = "create" /\ May(ChargeOf("main"), o)
      /\ Disciplined(After(ChargeOf("main"), o), Tail(todo["main"]), Final("main"))
  BY <1>1, Performing DEF CreateThread
<1>. PICK t \in Worker \ ChargeOf("main") : t = Arg("main")
  BY <1>2 DEF May, Arg
<1>3. /\ t \in Worker \ ChargeOf("main") /\ ChargeOf("main") \in SUBSET Worker
      /\ Disciplined(ChargeOf("main") \cup {t}, Tail(todo["main"]), Final("main"))
  BY <1>2 DEF May, After, Arg
<1>4. t \in Thread /\ t # "main" /\ life[t] # "alive" /\ \A m \in Mutex : owner[m] # t
  BY <1>3 DEF ChargeOf, Thread, Worker, ThreadsInv
<1>5. CASE \E start \in Starts(t) : todo' = [todo EXCEPT ![t] = start, !["main"] = Tail(@)]
              /\ life' = [life EXCEPT ![t] = "alive"] /\ handle' = [handle EXCEPT ![t] = "thread"]
              /\ UNCHANGED <<level, owner>>
  <2>1. PICK start \in Starts(t) : todo' = [todo EXCEPT ![t] = start, !["main"] = Tail(@)]
    BY <1>5
  <2>2. start \in Seq(Operation) /\ Disciplined({}, start, {})
    BY <1>3, EndsKept DEF Kept
  <2>3. /\ todo'[t] = start /\ todo'["main"] = Tail(todo["main"])
        /\ \A u \in Thread \ {t, "main"} : todo'[u] = todo[u]
    BY <1>1, <1>4, <2>1 DEF ThreadsInv, TypeOK
  <2>4. TypeOK'
    BY <1>2, <1>3, <1>5, <2>1, <2>2 DEF ThreadsInv, TypeOK
  <2>5. life'[t] = "alive" /\ \A u \in Thread \ {t} : life'[u] = life[u]
    BY <1>4, <1>5 DEF ThreadsInv, TypeOK
  <2>6. ChargeOf(t)' = {} /\ Final(t) = {}
    BY <1>4, <1>5 DEF ChargeOf, Final
  <2>7. ChargeOf("main")' \subseteq ChargeOf("main") \cup {t}
    BY <1>3, <1>5, <2>5, Zenon DEF ChargeOf, Thread
  <2>8. \A u \in Thread \ {t, "main"} : ChargeOf(u)' = ChargeOf(u)
    BY <1>5 DEF ChargeOf
  <2>9. ASSUME NEW u \in Thread, life'[u] = "alive"
        PROVE  Disciplined(ChargeOf(u)', todo'[u], Final(u))
    <3>1. CASE u = t
      BY <2>2, <2>3, <2>6, <3>1
    <3>2. CASE u = "main"
      BY <1>3, <2>3, <2>7, <3>2, Less
    <3>3. CASE u \in Thread \ {t, "main"}
      BY <2>3, <2>5, <2>8, <2>9, <3>3 DEF ThreadsInv
    <3>. QED
      BY <3>1, <3>2, <3>3
  <2>10. \A w \in Worker : life'[w] = "alive" => handle'[w] = "thread"
    BY <1>3, <1>5, <2>5 DEF ThreadsInv, TypeOK, Thread
  <2>11. \A w \in Worker, m \in Mutex : owner'[m] = w => life'[w] = "alive"
    BY <1>5, <2>5 DEF ThreadsInv, Thread
  <2>. QED
    BY <2>4, <2>9, <2>10, <2>11 DEF ThreadsInv, Final
<1>6. CASE /\ todo' = [todo EXCEPT !["main"] = <<Log("ERROR")>> \o Cleanup]
             /\ \E left \in {"zero", "junk"} : handle' = [handle EXCEPT ![t] = left]
             /\ UNCHANGED <<level, owner, life>>
  <2>1. /\ <<Log("ERROR")>> \o Cleanup \in Seq(Operation)
        /\ Disciplined(ChargeOf("main"), <<Log("ERROR")>> \o Cleanup, Final("main"))
    BY <1>3, GivingUp
  <2>. HIDE DEF Cleanup
  <2>2. TypeOK' /\ todo'["main"] = <<Log("ERROR")>> \o Cleanup
    BY <1>1, <1>3, <1>6, <2>1 DEF ThreadsInv, TypeOK
  <2>3. \A u \in Thread \ {"main"} : todo'[u] = todo[u]
    BY <1>6 DEF ThreadsInv, TypeOK
  <2>4. \A u \in Thread : ChargeOf(u)' = ChargeOf(u)
    BY <1>6 DEF ChargeOf
  <2>5. \A w \in Worker : life'[w] = "alive" => handle'[w] = "thread"
    BY <1>4, <1>6 DEF ThreadsInv, TypeOK
  <2>. QED
    BY <1>1, <1>6, <2>1, <2>2, <2>3, <2>4, <2>5, StepOf DEF ThreadsInv
<1>. QED
  BY <1>5, <1>6 DEF CreateThread

(* main leaves its loop with the threads still to be joined.               *)
LEMMA LoopKeeps ==
  ASSUME ThreadsInv, MainLoop
  PROVE  ThreadsInv'
<1>1. "main" \in Thread
  BY DEF Thread
<1>2. /\ Tail(todo["main"]) \in Seq(Operation) /\ Head(todo["main"]).op = "loop"
      /\ Disciplined(After(ChargeOf("main"), Head(todo["main"])), Tail(todo["main"]), Final("main"))
  BY <1>1, Performing DEF MainLoop
<1>3. After(ChargeOf("main"), Head(todo["main"])) = ChargeOf("main")
  BY <1>2 DEF After
<1>4. /\ todo' = [todo EXCEPT !["main"] = Tail(todo["main"])]
      /\ UNCHANGED <<level, owner, life, handle>> /\ level \in Level
  BY DEF MainLoop, Proceed, ThreadsInv, TypeOK
<1>. QED
  BY <1>1, <1>2, <1>3, <1>4, QuietStepOf

(* A join returns when the thread has ended; and what is not joined, or    *)
(* is junk, was never a thread.                                            *)
LEMMA JoinKeeps ==
  ASSUME ThreadsInv, JoinThread
  PROVE  ThreadsInv'
<1>. DEFINE o == Head(todo["main"])
            t == Arg("main")
<1>1. "main" \in Thread /\ "main" \notin Worker
  BY DEF Thread, Worker
<1>2. /\ Tail(todo["main"]) \in Seq(Operation) /\ o.op = "join" /\ May(ChargeOf("main"), o)
      /\ Disciplined(After(ChargeOf("main"), o), Tail(todo["main"]), Final("main"))
  BY <1>1, Performing DEF JoinThread
<1>3. t \in Worker /\ Disciplined(ChargeOf("main") \ {t}, Tail(todo["main"]), Final("main"))
  BY <1>2 DEF May, After, Arg
<1>4. life[t] # "alive"
  <2>1. handle[t] = "thread" => life[t] = "done"
    BY DEF JoinThread
  <2>. QED
    BY <1>3, <2>1 DEF ThreadsInv
<1>. HIDE DEF t
<1>5. /\ todo' = [todo EXCEPT !["main"] = Tail(todo["main"])] /\ UNCHANGED <<level, owner, handle>>
      /\ life' \in {life, [life EXCEPT !["main"] = "done"]}
  BY DEF JoinThread, Proceed
<1>6. TypeOK' /\ todo'["main"] = Tail(todo["main"])
  BY <1>1, <1>2, <1>5 DEF ThreadsInv, TypeOK
<1>7. \A u \in Thread \ {"main"} : todo'[u] = todo[u] /\ life'[u] = life[u]
  BY <1>5 DEF ThreadsInv, TypeOK
<1>8. \A u \in Thread \ {"main"} : ChargeOf(u)' = ChargeOf(u)
  BY <1>5 DEF ChargeOf
<1>9. ChargeOf("main")' \subseteq ChargeOf("main") \ {t}
  <2>1. t \notin Mutex /\ t # "destroyed"
    BY <1>3 DEF Worker, Mutex
  <2>2. \A w \in Worker : life'[w] = life[w]
    BY <1>1, <1>7 DEF Thread
  <2>. QED
    BY <1>3, <1>4, <1>5, <2>1, <2>2, Zenon DEF ChargeOf
<1>10. Disciplined(ChargeOf("main")', todo'["main"], Final("main"))
  BY <1>3, <1>6, <1>9, Less
<1>11. \A w \in Worker : life'[w] = life[w]
  BY <1>1, <1>7 DEF Thread
<1>. QED
  BY <1>1, <1>5, <1>6, <1>7, <1>8, <1>10, <1>11, StepOf DEF ThreadsInv

(* The mutexes are destroyed when there is nothing left to join and main   *)
(* holds none.                                                             *)
LEMMA DestroyKeeps ==
  ASSUME ThreadsInv, DestroyMutexes
  PROVE  ThreadsInv'
<1>. DEFINE o == Head(todo["main"])
<1>1. "main" \in Thread /\ "main" # "destroyed"
  BY DEF Thread
<1>2. /\ Tail(todo["main"]) \in Seq(Operation) /\ o.op = "destroy" /\ May(ChargeOf("main"), o)
      /\ Disciplined(After(ChargeOf("main"), o), Tail(todo["main"]), Final("main"))
  BY <1>1, Performing DEF DestroyMutexes
<1>3. ChargeOf("main") = {} /\ After(ChargeOf("main"), o) = {"destroyed"}
  BY <1>2 DEF May, After
<1>4. \A w \in Worker : life[w] # "alive"
  BY <1>3 DEF ChargeOf
<1>5. /\ todo' = [todo EXCEPT !["main"] = Tail(todo["main"])] /\ UNCHANGED <<level, life, handle>>
      /\ owner' = [m \in Mutex |-> "destroyed"]
  BY DEF DestroyMutexes, Proceed
<1>6. TypeOK' /\ todo'["main"] = Tail(todo["main"])
  BY <1>1, <1>2, <1>5 DEF ThreadsInv, TypeOK
<1>7. \A u \in Thread \ {"main"} : todo'[u] = todo[u]
  BY <1>5 DEF ThreadsInv, TypeOK
<1>8. \A u \in Thread : {m \in Mutex : owner'[m] = u} = {}
  BY <1>5 DEF Thread, Worker
<1>9. ChargeOf("main")' \subseteq {"destroyed"}
  BY <1>4, <1>5, <1>8, Zenon DEF ChargeOf, Thread
<1>10. \A u \in Thread \ {"main"} : ChargeOf(u)' \subseteq ChargeOf(u)
  BY <1>8 DEF ChargeOf
<1>11. Disciplined(ChargeOf("main")', todo'["main"], Final("main"))
  BY <1>2, <1>3, <1>6, <1>9, Less
<1>12. \A w \in Worker, m \in Mutex : owner'[m] # w
  BY <1>5 DEF Worker
<1>. QED
  BY <1>1, <1>5, <1>6, <1>7, <1>10, <1>11, <1>12, StepOf DEF ThreadsInv

(* main returns.                                                           *)
LEMMA ReturnKeeps ==
  ASSUME ThreadsInv, ReturnFromMain
  PROVE  ThreadsInv'
<1>1. "main" \in Thread /\ "main" \notin Worker
  BY DEF Thread, Worker
<1>2. life' = [life EXCEPT !["main"] = "done"] /\ UNCHANGED <<level, owner, todo, handle>>
  BY DEF ReturnFromMain
<1>3. TypeOK' /\ life'["main"] = "done"
  BY <1>1, <1>2 DEF ThreadsInv, TypeOK
<1>4. \A u \in Thread \ {"main"} : life'[u] = life[u]
  BY <1>2 DEF ThreadsInv, TypeOK
<1>5. \A u \in Thread \ {"main"} : ChargeOf(u)' = ChargeOf(u)
  BY <1>2 DEF ChargeOf
<1>6. \A w \in Worker : life'[w] = life[w]
  BY <1>1, <1>4 DEF Thread
<1>. QED
  BY <1>1, <1>2, <1>3, <1>4, <1>5, <1>6, StepOf DEF ThreadsInv

-----------------------------------------------------------------------------
(* The specification.                                                      *)
(* At the start only main is alive, with everything to do.                 *)
LEMMA InitDisciplined == Init => ThreadsInv
<1>. SUFFICES ASSUME Init PROVE ThreadsInv
  OBVIOUS
<1>1. "main" \in Thread /\ "main" \notin Worker /\ \A t \in Thread : t # "none"
  BY DEF Thread, Worker
<1>2. /\ Main \in Seq(Operation) /\ Disciplined({}, Main, {"destroyed"})
      /\ <<>> \in Seq(Operation)
  BY MainDisciplined
<1>. HIDE DEF Main
<1>3. \A t \in Thread \ {"main"} : life[t] = "unborn" /\ todo[t] = <<>>
  BY DEF Init
<1>4. todo["main"] = Main /\ life["main"] = "alive"
  BY <1>1 DEF Init
<1>5. \A m \in Mutex : owner[m] = "none"
  BY DEF Init
<1>6. todo \in [Thread -> Seq(Operation)]
  BY <1>2 DEF Init
<1>7. TypeOK
  BY <1>6 DEF Init, TypeOK, Level, Severity
<1>8. ChargeOf("main") = {}
  BY <1>1, <1>3, <1>5, Zenon DEF ChargeOf, Thread
<1>9. Final("main") = {"destroyed"}
  BY DEF Final
<1>10. \A t \in Worker : life[t] # "alive"
  BY <1>1, <1>3 DEF Thread
<1>11. \A t \in Worker, m \in Mutex : owner[m] # t
  BY <1>1, <1>5 DEF Thread
<1>12. ASSUME NEW t \in Thread, life[t] = "alive" PROVE Disciplined(ChargeOf(t), todo[t], Final(t))
  BY <1>2, <1>3, <1>4, <1>8, <1>9, <1>12
<1>. QED
  BY <1>7, <1>10, <1>11, <1>12 DEF ThreadsInv

(* One step of any thread, or a signal.                                    *)
LEMMA NextDisciplined == ThreadsInv /\ [Next]_vars => ThreadsInv'
<1>. SUFFICES ASSUME ThreadsInv, [Next]_vars PROVE ThreadsInv'
  OBVIOUS
<1>1. CASE UNCHANGED vars
  BY <1>1 DEF vars, ThreadsInv, TypeOK, ChargeOf
<1>2. CASE MainStep
  <2>1. CASE InitServerState
    BY <2>1, InitKeeps
  <2>2. CASE CreateSocket
    BY <2>2, SocketKeeps
  <2>3. CASE CreateThread
    BY <2>3, CreateKeeps
  <2>4. CASE MainSleeps
    BY <1>1, <2>4 DEF MainSleeps
  <2>5. CASE MainLoop
    BY <2>5, LoopKeeps
  <2>6. CASE JoinThread
    BY <2>6, JoinKeeps
  <2>7. CASE DestroyMutexes
    BY <2>7, DestroyKeeps
  <2>8. CASE ReturnFromMain
    BY <2>8, ReturnKeeps
  <2>9. CASE DoLock("main")
    BY <2>9, LockKeeps DEF Thread
  <2>10. CASE DoUnlock("main")
    BY <2>10, UnlockKeeps DEF Thread
  <2>11. CASE DoLog("main")
    BY <2>11, LogKeeps DEF Thread
  <2>12. CASE DoStop("main")
    BY <2>12, StopKeeps DEF Thread
  <2>. QED
    BY <1>2, <2>1, <2>2, <2>3, <2>4, <2>5, <2>6, <2>7, <2>8, <2>9, <2>10, <2>11, <2>12
       DEF MainStep
<1>3. ASSUME NEW t \in Worker, WorkerStep(t) PROVE ThreadsInv'
  <2>1. t \in Thread
    BY DEF Thread
  <2>. QED
    BY <1>3, <2>1, RoundKeeps, ChoiceKeeps, LeaveKeeps, EndKeeps, LockKeeps, UnlockKeeps,
       LogKeeps, StopKeeps, LevelKeeps DEF WorkerStep
<1>4. ASSUME NEW t \in Thread, SignalArrives(t) PROVE ThreadsInv'
  BY <1>4, SignalKeeps
<1>. QED
  BY <1>1, <1>2, <1>3, <1>4 DEF Next, Terminated

(* Every thread can perform what it still has to do with the mutexes and   *)
(* the threads it has to give back, under any number of signal handlers    *)
(* (lines 11-25, 60-86, 333-420, 461-499, 552-609).                        *)
THEOREM ThreadsDisciplined == SafetySpec => []ThreadsInv
BY InitDisciplined, NextDisciplined, PTL DEF SafetySpec

(* A thread waits only for a mutex that comes after all it holds in        *)
(* clients, jobs, stats, log, or for the log_mutex it holds itself: no two *)
(* threads wait for each other (lines 11, 333-420, 461-499).               *)
THEOREM LocksAlwaysOrdered == SafetySpec => []LocksOrdered
<1>1. ThreadsInv => LocksOrdered
  <2>. SUFFICES ASSUME ThreadsInv, NEW t \in Thread, NEW m \in Mutex, NEW held \in Mutex,
                       Waits(t, m), owner[held] = t
                PROVE  \/ Rank[held] < Rank[m]
                       \/ m = "log" /\ held = "log"
    BY DEF LocksOrdered
  <2>1. May(ChargeOf(t), Head(todo[t])) /\ Head(todo[t]).op = "lock" /\ Head(todo[t]).arg = m
    BY Performing DEF Waits, Performs, Arg
  <2>2. held \in ChargeOf(t) \cap Mutex
    BY DEF ChargeOf
  <2>. QED
    BY <2>1, <2>2 DEF May
<1>. QED
  BY <1>1, ThreadsDisciplined, PTL

(* cleanup_server_state destroys the mutexes (lines 80-83) when nobody     *)
(* holds one and every thread has ended, also after a start-up that failed *)
(* half way.                                                               *)
THEOREM DestroyedOnlyWhenIdle == SafetySpec => []DestroyedWhenIdle
<1>1. ThreadsInv => DestroyedWhenIdle
  <2>. SUFFICES ASSUME ThreadsInv, Performs("main", "destroy")
                PROVE  /\ \A m \in Mutex : owner[m] = "none"
                       /\ \A t \in Worker : life[t] # "alive"
    BY DEF DestroyedWhenIdle
  <2>1. May(ChargeOf("main"), Head(todo["main"])) /\ Head(todo["main"]).op = "destroy"
    BY Performing DEF Thread
  <2>2. ChargeOf("main") = {}
    BY <2>1 DEF May
  <2>3. /\ \A t \in Worker : life[t] # "alive"
        /\ \A m \in Mutex : owner[m] # "main" /\ owner[m] # "destroyed"
    BY <2>2 DEF ChargeOf
  <2>. QED
    BY <2>3 DEF ThreadsInv, TypeOK, Thread
<1>. QED
  BY <1>1, ThreadsDisciplined, PTL
=============================================================================

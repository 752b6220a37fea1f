--------------------------- MODULE ServerThreads ---------------------------
(***************************************************************************)
(* The locks of the server and the lives of its threads                    *)
(* (src/server/antivirus_server.c): main's start-up with its failures, the *)
(* order in which every thread takes clients_mutex, jobs_mutex,            *)
(* stats_mutex and log_mutex, the signal handler that runs on top of       *)
(* whatever a thread was doing, and the joins of cleanup_server_state.     *)
(*                                                                         *)
(* A thread is the sequence of operations it still has to perform (todo).  *)
(* When it is empty the thread is at the top of its loop and takes one of  *)
(* the paths the code has through the loop body; what decides between them *)
(* (poll, recv, the text of a command) is in the modules of the threads.   *)
(***************************************************************************)
EXTENDS Naturals, SequencesExt

CONSTANTS
  MaxSignals,   \* how many SIGINT/SIGTERM arrive, at most
  EarlySignals, \* may they arrive before init_server_state, too?
  MayFail,      \* may socket and thread creation, and poll, fail?
  Busy,         \* the workers that have something to do; the others time out
  NewLevels     \* the levels administrators choose

ASSUME ConstantsAssumption ==
  /\ MaxSignals \in Nat /\ {EarlySignals, MayFail} \subseteq BOOLEAN
  /\ Busy \subseteq {"admin", "client", "processor", "monitor"}
  /\ NewLevels \subseteq {"DEBUG", "INFO", "WARNING", "ERROR"}

Worker == {"admin", "client", "processor", "monitor"}
Thread == Worker \cup {"main"}
Mutex  == {"clients", "jobs", "stats", "log"}

VARIABLES
  running,   \* server_running
  level,     \* current_log_level
  owner,     \* who holds each mutex
  todo,      \* what each thread still has to do in its current path
  life,      \* "unborn", "alive", "done"
  handle,    \* the pthread_t fields: "zero", "thread", or "junk"
  initialised,
  signals

vars == <<running, level, owner, todo, life, handle, initialised, signals>>

-----------------------------------------------------------------------------
(* Operations.                                                             *)
Op(name, arg) == [op |-> name, arg |-> arg]
Lock(m)   == Op("lock", m)
Unlock(m) == Op("unlock", m)
Log(l)    == Op("log", l)
Stop      == Op("stop", "nothing")
Join(t)   == Op("join", t)
Choose(p) == Op("choose", p)

Severity == [DEBUG |-> 0, INFO |-> 1, WARNING |-> 2, ERROR |-> 3]
Level    == DOMAIN Severity

(* One round of client_thread_handler: the poll set, perhaps a connection  *)
(* admitted or rejected, then perhaps a client served or dropped.          *)
ClientPaths ==
  {<<Lock("clients"), Unlock("clients"), Choose("accept"), Choose("serve")>>}
AcceptPaths ==
  {<<>>,
   <<Lock("clients"), Lock("stats"), Unlock("stats"), Log("INFO"), Unlock("clients")>>,
   <<Lock("clients"), Log("WARNING"), Unlock("clients")>>}
(* Mutant: a client is dropped with stats_mutex taken first.               *)
ServePathsStatsFirst ==
  {<<>>,
   <<Lock("clients"), Unlock("clients")>>,
   <<Lock("clients"), Unlock("clients"), Lock("stats"), Lock("clients"), Unlock("stats"),
     Log("INFO"), Unlock("clients")>>}
ServePaths ==
  {<<>>,
   <<Lock("clients"), Unlock("clients")>>,
   <<Lock("clients"), Unlock("clients"), Lock("clients"), Lock("stats"), Unlock("stats"),
     Log("INFO"), Unlock("clients")>>}

(* admin_thread_handler: nothing to do, a connection or the end of one, an *)
(* accept that fails, GET_STATS, SET_LOG_LEVEL (the level is stored, then  *)
(* logged), and SHUTDOWN_SERVER (logged, then the flag is cleared, and the *)
(* session ends).                                                          *)
AdminPaths ==
  {<<>>, <<Log("INFO")>>, <<Log("ERROR")>>, <<Lock("stats"), Unlock("stats")>>,
   <<Log("INFO"), Stop, Log("INFO")>>}
    \cup {<<Op("level", l), Log("INFO")>> : l \in NewLevels}

(* processor_thread_handler: sem_timedwait times out; or a job is looked   *)
(* for and not found; or found, scanned and counted.  Nothing in src/      *)
(* queues a job yet.                                                       *)
ProcessorPaths ==
  {<<>>,
   <<Lock("jobs"), Unlock("jobs")>>,
   <<Lock("jobs"), Unlock("jobs"), Log("INFO"), Lock("jobs"), Lock("stats"), Unlock("stats"),
     Lock("stats"), Unlock("stats"), Unlock("jobs"), Log("INFO")>>}

MonitorPaths == {<<>>, <<Log("DEBUG")>>}

Paths(p) == CASE p = "client"    -> ClientPaths
              [] p = "accept"    -> AcceptPaths
              [] p = "serve"     -> ServePaths
              [] p = "admin"     -> AdminPaths
              [] p = "processor" -> ProcessorPaths
              [] p = "monitor"   -> MonitorPaths

(* Mutant: the threads are joined before they are told to stop.            *)
CleanupJoinsFirst ==
  <<Lock("clients"), Unlock("clients"),
    Join("admin"), Join("client"), Join("processor"), Join("monitor"),
    Stop, Op("destroy", "nothing"), Log("INFO")>>
(* cleanup_server_state.  A field that is zero is not joined.              *)
Cleanup ==
  <<Stop, Lock("clients"), Unlock("clients"),
    Join("admin"), Join("client"), Join("processor"), Join("monitor"),
    Op("destroy", "nothing"), Log("INFO")>>

(* main.                                                                   *)
Main ==
  <<Op("init", "nothing"), Log("INFO"), Op("socket", "admin"), Log("INFO"),
    Op("socket", "client"), Log("INFO"),
    Op("create", "admin"), Op("create", "client"), Op("create", "processor"),
    Op("create", "monitor"), Log("INFO"), Op("loop", "nothing"), Log("INFO")>> \o Cleanup

-----------------------------------------------------------------------------
(* Before init_server_state everything is zero: level DEBUG, a mutex of    *)
(* zeros that works, the flag 0.                                           *)
Init ==
  /\ running = FALSE
  /\ level = "DEBUG"
  /\ owner = [m \in Mutex |-> "none"]
  /\ todo = [t \in Thread |-> IF t = "main" THEN Main ELSE <<>>]
  /\ life = [t \in Thread |-> IF t = "main" THEN "alive" ELSE "unborn"]
  /\ handle = [t \in Worker |-> "zero"]
  /\ initialised = FALSE
  /\ signals = 0

Performs(t, name) == life[t] = "alive" /\ todo[t] # <<>> /\ Head(todo[t]).op = name
Arg(t)           == Head(todo[t]).arg
Proceed(t)       == todo' = [todo EXCEPT ![t] = Tail(@)]

(* A locked mutex blocks, its owner too.  Locking a destroyed one is       *)
(* undefined: the C library returns an error that nobody looks at.         *)
DoLock(t) ==
  /\ Performs(t, "lock")
  /\ \/ owner[Arg(t)] = "none" /\ owner' = [owner EXCEPT ![Arg(t)] = t]
     \/ owner[Arg(t)] = "destroyed" /\ UNCHANGED owner
  /\ Proceed(t)
  /\ UNCHANGED <<running, level, life, handle, initialised, signals>>

DoUnlock(t) ==
  /\ Performs(t, "unlock")
  /\ owner' = [owner EXCEPT ![Arg(t)] = IF @ = "destroyed" THEN @ ELSE "none"]
  /\ Proceed(t)
  /\ UNCHANGED <<running, level, life, handle, initialised, signals>>

(* log_message: too low a level returns before log_mutex is taken.         *)
DoLog(t) ==
  /\ Performs(t, "log")
  /\ todo' = [todo EXCEPT ![t] =
                IF Severity[Arg(t)] < Severity[level] THEN Tail(@)
                ELSE <<Lock("log"), Unlock("log")>> \o Tail(@)]
  /\ UNCHANGED <<running, level, owner, life, handle, initialised, signals>>

DoStop(t) ==
  /\ Performs(t, "stop")
  /\ running' = FALSE
  /\ Proceed(t)
  /\ UNCHANGED <<level, owner, life, handle, initialised, signals>>

SetLevel(t) ==
  /\ Performs(t, "level")
  /\ level' = Arg(t)
  /\ Proceed(t)
  /\ UNCHANGED <<running, owner, life, handle, initialised, signals>>

-----------------------------------------------------------------------------
(* The workers: while (state->server_running), and the farewell message.   *)
(* The monitor gives up at once, without it, when inotify fails.           *)
Return   == Op("return", "nothing")
Farewell == <<Log("INFO"), Return>>
Starts(t) ==
  {<<Log("INFO")>>}
    \cup IF MayFail /\ t = "monitor" THEN {<<Log("INFO"), Log("ERROR"), Return>>} ELSE {}

StartRound(t) ==
  /\ life[t] = "alive" /\ todo[t] = <<>> /\ running
  /\ t \in Busy
  /\ \E path \in Paths(t) : todo' = [todo EXCEPT ![t] = path]
  /\ UNCHANGED <<running, level, owner, life, handle, initialised, signals>>

ChoosePath(t) ==
  /\ Performs(t, "choose")
  /\ \E path \in Paths(Arg(t)) : todo' = [todo EXCEPT ![t] = path \o Tail(@)]
  /\ UNCHANGED <<running, level, owner, life, handle, initialised, signals>>

LeaveLoop(t) ==
  /\ life[t] = "alive" /\ todo[t] = <<>>
  /\ \/ ~running /\ todo' = [todo EXCEPT ![t] = Farewell]
     \/ MayFail /\ todo' = [todo EXCEPT ![t] = <<Log("ERROR")>> \o Farewell]
  /\ UNCHANGED <<running, level, owner, life, handle, initialised, signals>>

EndThread(t) ==
  /\ Performs(t, "return")
  /\ life' = [life EXCEPT ![t] = "done"]
  /\ Proceed(t)
  /\ UNCHANGED <<running, level, owner, handle, initialised, signals>>

WorkerStep(t) ==
  \/ StartRound(t) \/ ChoosePath(t) \/ LeaveLoop(t) \/ EndThread(t)
  \/ DoLock(t) \/ DoUnlock(t) \/ DoLog(t) \/ DoStop(t) \/ SetLevel(t)

-----------------------------------------------------------------------------
(* main.                                                                   *)

(* init_server_state: memset, the flag set to 1, level INFO.               *)
InitServerState ==
  /\ Performs("main", "init")
  /\ running' = TRUE
  /\ level' = "INFO"
  /\ initialised' = TRUE
  /\ Proceed("main")
  /\ UNCHANGED <<owner, life, handle, signals>>

(* create_admin_socket, create_client_socket; on failure, cleanup.         *)
CreateSocket ==
  /\ Performs("main", "socket")
  /\ \/ Proceed("main")
     \/ MayFail /\ todo' = [todo EXCEPT !["main"] = <<Log("ERROR")>> \o Cleanup]
  /\ UNCHANGED <<running, level, owner, life, handle, initialised, signals>>

(* pthread_create.  When it fails, what it leaves in the pthread_t field   *)
(* is not defined: zero, or the address of a thread that does not exist.   *)
CreateThread ==
  /\ Performs("main", "create")
  /\ LET t == Arg("main") IN
     \/ /\ life' = [life EXCEPT ![t] = "alive"]
        /\ handle' = [handle EXCEPT ![t] = "thread"]
        /\ \E start \in Starts(t) :
             todo' = [todo EXCEPT ![t] = start, !["main"] = Tail(@)]
     \/ /\ MayFail
        /\ \E left \in {"zero", "junk"} : handle' = [handle EXCEPT ![t] = left]
        /\ todo' = [todo EXCEPT !["main"] = <<Log("ERROR")>> \o Cleanup]
        /\ UNCHANGED life
  /\ UNCHANGED <<running, level, owner, initialised, signals>>

(* while (g_server_state.server_running) sleep(1): main looks at nothing   *)
(* but the flag, also when every worker has given up.                      *)
MainSleeps == Performs("main", "loop") /\ running /\ UNCHANGED vars
MainLoop ==
  /\ Performs("main", "loop")
  /\ ~running
  /\ Proceed("main")
  /\ UNCHANGED <<running, level, owner, life, handle, initialised, signals>>

(* Mutant: does not wait for the thread.                                   *)
DetachThread ==
  /\ Performs("main", "join")
  /\ Proceed("main")
  /\ UNCHANGED <<running, level, owner, life, handle, initialised, signals>>

(* if (handle) pthread_join(handle).  Joining what is no thread is         *)
(* undefined: it returns, or the process dies.                             *)
JoinThread ==
  /\ Performs("main", "join")
  /\ handle[Arg("main")] = "thread" => life[Arg("main")] = "done"
  /\ \/ UNCHANGED life
     \/ handle[Arg("main")] = "junk" /\ life' = [life EXCEPT !["main"] = "done"]
  /\ Proceed("main")
  /\ UNCHANGED <<running, level, owner, handle, initialised, signals>>

DestroyMutexes ==
  /\ Performs("main", "destroy")
  /\ owner' = [m \in Mutex |-> "destroyed"]
  /\ Proceed("main")
  /\ UNCHANGED <<running, level, life, handle, initialised, signals>>

ReturnFromMain ==
  /\ life["main"] = "alive" /\ todo["main"] = <<>>
  /\ life' = [life EXCEPT !["main"] = "done"]
  /\ UNCHANGED <<running, level, owner, todo, handle, initialised, signals>>

MainStep ==
  \/ InitServerState \/ CreateSocket \/ CreateThread \/ MainSleeps \/ MainLoop \/ JoinThread
  \/ DestroyMutexes  \/ ReturnFromMain
  \/ DoLock("main")  \/ DoUnlock("main") \/ DoLog("main") \/ DoStop("main")

(* signal_handler runs on top of any thread: it logs at level INFO, then   *)
(* clears the flag.                                                        *)
SignalArrives(t) ==
  /\ signals < MaxSignals
  /\ initialised \/ EarlySignals
  /\ life[t] = "alive" /\ life["main"] = "alive"
  /\ signals' = signals + 1
  /\ todo' = [todo EXCEPT ![t] = <<Log("INFO"), Stop>> \o @]
  /\ UNCHANGED <<running, level, owner, life, handle, initialised>>

Exited     == life["main"] = "done"
Terminated == Exited /\ UNCHANGED vars

Next ==
  \/ ~Exited /\ (MainStep \/ \E t \in Worker : WorkerStep(t))
  \/ \E t \in Thread : SignalArrives(t)
  \/ Terminated

(* Every thread keeps running; main, waiting for a mutex that is released  *)
(* again and again, gets it in the end: between two rounds the workers     *)
(* sleep in poll or sem_timedwait.                                         *)
Fairness ==
  /\ WF_vars(~Exited /\ MainStep) /\ SF_vars(~Exited /\ DoLock("main"))
  /\ \A t \in Worker : WF_vars(~Exited /\ WorkerStep(t))

SafetySpec == Init /\ [][Next]_vars
Spec       == SafetySpec /\ Fairness

-----------------------------------------------------------------------------
Waits(t, m) == Performs(t, "lock") /\ Arg(t) = m /\ owner[m] # "none"

(* Every thread, on every path and under a signal handler, takes the locks *)
(* in one order, clients, jobs, stats, log: no two threads can ever wait   *)
(* for each other (lines 333-420, 461-499, 11).  What is left is a thread  *)
(* that waits for the log_mutex it holds itself.                           *)
Rank == [clients |-> 0, jobs |-> 1, stats |-> 2, log |-> 3]
LocksOrdered ==
  \A t \in Thread, m, held \in Mutex :
    Waits(t, m) /\ owner[held] = t => \/ Rank[held] < Rank[m]
                                      \/ m = "log" /\ held = "log"

(* When the mutexes are destroyed (lines 80-83) nobody holds one, and no   *)
(* thread that could still want one is alive -- also when start-up failed  *)
(* half way and only some of the threads exist.                            *)
DestroyedWhenIdle ==
  Performs("main", "destroy") =>
    /\ \A m \in Mutex : owner[m] = "none"
    /\ \A t \in Worker : life[t] # "alive"

(* Once the flag is cleared, or main has given up (lines 576-609), every   *)
(* thread that was started ends and main returns.                          *)
MainLeft == \A i \in DOMAIN todo["main"] : todo["main"][i].op # "loop"
ShutdownEndsThreads ==
  (initialised /\ (~running \/ MainLeft)) ~> (Exited /\ \A t \in Worker : life[t] # "alive")

-----------------------------------------------------------------------------
(* What the documents and comments say.                                    *)

(* "Receives SIGINT/SIGTERM signals for graceful shutdown"                 *)
(* (docs/ARHITECTURA_TEHNICA.md:44): a signal to the running server stops  *)
(* it.  It does not when the handler interrupts a thread in log_message.   *)
SignalStopsServer == (initialised /\ signals > 0) ~> Exited
=============================================================================

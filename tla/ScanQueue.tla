----------------------------- MODULE ScanQueue -----------------------------
(***************************************************************************)
(* The scan queue and the processor thread of the server                   *)
(* (src/server/antivirus_server.c:442-507, src/common/common.c:147-178).   *)
(*                                                                         *)
(* Nothing in src/ fills the queue yet: UPLOAD_FILE is answered "Command   *)
(* not implemented".  The producer here does what the processor relies on  *)
(* and docs/ARHITECTURA_TEHNICA.md:109 describes: under jobs_mutex it      *)
(* appends a pending job and counts it, then it posts job_semaphore.       *)
(***************************************************************************)
EXTENDS Integers, Sequences, FiniteSetsExt

CONSTANTS
  Producer,        \* whoever queues jobs
  MAX_JOBS,        \* the length of job_queue
  SemMayFail       \* may sem_timedwait fail for good?

ASSUME QueueAssumption == MAX_JOBS \in Nat /\ SemMayFail \in BOOLEAN

VARIABLES
  job_queue,       \* its first job_count entries
  job_semaphore,
  stats,           \* total_scans, clean_files, infected_files
  server_running,
  jobs_mutex,      \* who holds it
  ppc,             \* where the processor thread is
  job,             \* its local: the index of the job, 0 for NULL
  is_infected,     \* its local: what scan_file_with_clamav returned
  posting          \* producers between the append and the post

processorVars == <<ppc, job, is_infected>>
vars == <<job_queue, job_semaphore, stats, server_running, jobs_mutex,
          processorVars, posting>>

(* What scan_file_with_clamav can meet with: popen fails, a line that it   *)
(* reads contains FOUND, or none does.  None of these says what is in the  *)
(* file.  The line also holds the path, which may contain FOUND itself or, *)
(* being unquoted, name another file; FOUND may be cut in two by the       *)
(* buffer of fgets; and a clamscan that cannot be run prints no such line. *)
Outcome == {"popen fails", "FOUND", "no FOUND"}

(* scan is not in scan_job_t: it notes what the job's own scan met with.   *)
Job == [status : {"PENDING", "PROCESSING", "COMPLETED"}, result : {"", "CLEAN", "INFECTED"},
        scan : Outcome \cup {""}]

TypeOK ==
  /\ job_queue \in Seq(Job) /\ Len(job_queue) \in 0 .. MAX_JOBS
  /\ job_semaphore \in Nat
  /\ stats \in [total_scans : Nat, clean_files : Nat, infected_files : Nat]
  /\ server_running \in BOOLEAN
  /\ jobs_mutex \in {"free", "processor"}
  /\ ppc \in {"top", "wait", "take", "scan", "complete", "verdict", "count", "done"}
  /\ job \in 0 .. Len(job_queue)
  /\ is_infected \in {-1, 0, 1}
  /\ posting \subseteq Producer

Init ==
  /\ job_queue = <<>>
  /\ job_semaphore = 0
  /\ stats = [total_scans |-> 0, clean_files |-> 0, infected_files |-> 0]
  /\ server_running = TRUE
  /\ jobs_mutex = "free"
  /\ ppc = "top" /\ job = 0 /\ is_infected = 0
  /\ posting = {}

-----------------------------------------------------------------------------
(* The producers and the end of the server.                                *)

EnqueueUpTo(limit, p) ==
  /\ server_running
  /\ jobs_mutex = "free"
  /\ p \notin posting
  /\ Len(job_queue) < limit
  /\ job_queue' = Append(job_queue, [status |-> "PENDING", result |-> "", scan |-> ""])
  /\ posting' = posting \cup {p}
  /\ UNCHANGED <<job_semaphore, stats, server_running, jobs_mutex, processorVars>>
(* Mutant: one too many.                                                   *)
EnqueuePastEnd(p) == EnqueueUpTo(MAX_JOBS + 1, p)
Enqueue(p)        == EnqueueUpTo(MAX_JOBS, p)

Post(p) ==
  /\ p \in posting
  /\ job_semaphore' = job_semaphore + 1
  /\ posting' = posting \ {p}
  /\ UNCHANGED <<job_queue, stats, server_running, jobs_mutex, processorVars>>

Shutdown ==
  /\ server_running
  /\ server_running' = FALSE
  /\ UNCHANGED <<job_queue, job_semaphore, stats, jobs_mutex, processorVars, posting>>

-----------------------------------------------------------------------------
(* processor_thread_handler.                                               *)

(* while (state->server_running)                                           *)
Top ==
  /\ ppc = "top"
  /\ ppc' = IF server_running THEN "wait" ELSE "done"
  /\ UNCHANGED <<job_queue, job_semaphore, stats, server_running, jobs_mutex, job,
                 is_infected, posting>>

(* sem_timedwait: a post is consumed; or time is up, or a signal arrived;  *)
(* or it fails and the loop is left.                                       *)
Wait ==
  /\ ppc = "wait"
  /\ \/ /\ job_semaphore > 0
        /\ job_semaphore' = job_semaphore - 1
        /\ ppc' = "take"
     \/ ppc' = "top" /\ UNCHANGED job_semaphore
     \/ SemMayFail /\ ppc' = "done" /\ UNCHANGED job_semaphore
  /\ UNCHANGED <<job_queue, stats, server_running, jobs_mutex, job, is_infected, posting>>

Pending == {i \in DOMAIN job_queue : job_queue[i].status = "PENDING"}

(* i is the job to take, 0 when there is none.                             *)
TakeJob(i, next) ==
  /\ ppc = "take"
  /\ jobs_mutex = "free"
  /\ job' = i
  /\ IF i = 0
     THEN ppc' = "top" /\ UNCHANGED job_queue
     ELSE /\ job_queue' = [job_queue EXCEPT ![i].status = "PROCESSING"]
          /\ ppc' = next
  /\ UNCHANGED <<job_semaphore, stats, server_running, jobs_mutex, is_infected, posting>>

Oldest(jobs) == IF jobs = {} THEN 0 ELSE Min(jobs)
Newest(jobs) == IF jobs = {} THEN 0 ELSE Max(jobs)

(* Mutants: the newest job first; the search begins with the second entry; *)
(* the flag is looked at again before the job is begun.                    *)
TakeNewest   == TakeJob(Newest(Pending), "scan")
TakeOffByOne == TakeJob(Oldest(Pending \ {1}), "scan")
TakeThenStop == TakeJob(Oldest(Pending), IF server_running THEN "scan" ELSE "done")
(* The first pending job, marked while the mutex is held.                  *)
Take         == TakeJob(Oldest(Pending), "scan")

(* The value that scan_file_with_clamav returns.                           *)
ScanFile(outcome) == CASE outcome = "popen fails" -> -1
                       [] outcome = "FOUND"       -> 1
                       [] outcome = "no FOUND"    -> 0

(* The scan itself runs without the mutex.                                 *)
Scan ==
  /\ ppc = "scan"
  /\ \E outcome \in Outcome :
       /\ is_infected' = ScanFile(outcome)
       /\ job_queue' = [job_queue EXCEPT ![job].scan = outcome]
  /\ ppc' = "complete"
  /\ UNCHANGED <<job_semaphore, stats, server_running, jobs_mutex, job, posting>>

(* The job is completed and counted under jobs_mutex, in two sections of   *)
(* stats_mutex: the verdict, then the scan.                                *)
CompleteJob(i) ==
  /\ ppc = "complete"
  /\ jobs_mutex = "free"
  /\ jobs_mutex' = "processor"
  /\ job_queue' = [job_queue EXCEPT ![i].status = "COMPLETED",
                     ![i].result = IF is_infected # 0 THEN "INFECTED" ELSE "CLEAN"]
  /\ ppc' = "verdict"
  /\ UNCHANGED <<job_semaphore, stats, server_running, job, is_infected, posting>>
(* Mutant: the pointer now names the entry queued last.                    *)
CompleteLast == CompleteJob(Len(job_queue))
Complete     == CompleteJob(job)

(* Mutant: an error is not counted.                                        *)
CountVerdictOnly ==
  /\ ppc = "verdict"
  /\ stats' = CASE is_infected = 1  -> [stats EXCEPT !.infected_files = @ + 1]
                [] is_infected = 0  -> [stats EXCEPT !.clean_files = @ + 1]
                [] is_infected = -1 -> stats
  /\ ppc' = "count"
  /\ UNCHANGED <<job_queue, job_semaphore, server_running, jobs_mutex, job,
                 is_infected, posting>>
CountVerdict ==
  /\ ppc = "verdict"
  /\ stats' = IF is_infected # 0 THEN [stats EXCEPT !.infected_files = @ + 1]
                                 ELSE [stats EXCEPT !.clean_files = @ + 1]
  /\ ppc' = "count"
  /\ UNCHANGED <<job_queue, job_semaphore, server_running, jobs_mutex, job,
                 is_infected, posting>>

CountScan ==
  /\ ppc = "count"
  /\ stats' = [stats EXCEPT !.total_scans = @ + 1]
  /\ jobs_mutex' = "free"
  /\ ppc' = "top"
  /\ UNCHANGED <<job_queue, job_semaphore, server_running, job, is_infected, posting>>

Processor == Top \/ Wait \/ Take \/ Scan \/ Complete \/ CountVerdict \/ CountScan

Terminated == ppc = "done" /\ posting = {} /\ UNCHANGED vars

Next ==
  \/ Processor
  \/ \E p \in Producer : Enqueue(p) \/ Post(p)
  \/ Shutdown
  \/ Terminated

(* The processor thread runs; a producer that appended a job posts; a wait *)
(* that could consume a post does not end with EINTR for ever.             *)
Consume == Wait /\ job_semaphore' < job_semaphore
Fairness ==
  /\ WF_vars(Processor) /\ SF_vars(Consume)
  /\ \A p \in Producer : WF_vars(Post(p))

SafetySpec == Init /\ [][Next]_vars
Spec       == SafetySpec /\ Fairness

-----------------------------------------------------------------------------
(* What the proofs rest on: the one job that is marked PROCESSING is the   *)
(* one in hand, the mutex is held exactly while a finished job is being    *)
(* counted, and the scan is the second of the two counts.                  *)
JobInHand ==
  /\ ppc \in {"scan", "complete"} => job \in DOMAIN job_queue
  /\ \A i \in DOMAIN job_queue :
       job_queue[i].status = "PROCESSING" <=> ppc \in {"scan", "complete"} /\ i = job
MutexHeld   == jobs_mutex = "processor" <=> ppc \in {"verdict", "count"}
ScansBehind ==
  stats.clean_files + stats.infected_files
    = stats.total_scans + (IF ppc = "count" THEN 1 ELSE 0)
InOrder ==
  \A i, j \in DOMAIN job_queue :
    i < j /\ job_queue[j].status # "PENDING" => job_queue[i].status = "COMPLETED"
QueueInv ==
  JobInHand /\ MutexHeld /\ ScansBehind /\ InOrder /\ IsFiniteSet(posting)

With(status) == {i \in DOMAIN job_queue : job_queue[i].status = status}

(* Jobs are completed in the order they were queued, whatever the order of *)
(* the posts, and at most one is being scanned ("coada FIFO", README.md).  *)
FirstInFirstOut ==
  /\ InOrder
  /\ Cardinality(With("PROCESSING")) <= 1

(* No job is stranded: for every pending one a post is there, or still to  *)
(* come, or was just consumed.  The posts carry no job, so this is not     *)
(* about any one of them (lines 453-469).                                  *)
NoJobStranded ==
  Cardinality(Pending) <=
    job_semaphore + Cardinality(posting) + (IF ppc = "take" THEN 1 ELSE 0)

(* What GET_STATS may read in between (lines 485-497): the verdicts are    *)
(* never fewer than the scans and at most one ahead, and every completed   *)
(* job was counted once.                                                   *)
CountsAddUp ==
  LET verdicts == stats.clean_files + stats.infected_files IN
  /\ verdicts \in {stats.total_scans, stats.total_scans + 1}
  /\ Cardinality(With("COMPLETED")) = verdicts + (IF ppc = "verdict" THEN 1 ELSE 0)

(* It follows from JobInHand and MutexHeld that the thread never ends in   *)
(* the middle of a job, nor with the mutex held (lines 472-503).           *)
NothingHalfDone ==
  ppc = "done" => With("PROCESSING") = {} /\ jobs_mutex = "free"

(* is_infected is about the job in hand.                                   *)
VerdictInHand ==
  ppc = "complete" =>
    /\ job_queue[job].scan \in Outcome
    /\ is_infected = ScanFile(job_queue[job].scan)

(* The result stored in a job is the one its own scan returned: neither    *)
(* the pointer kept through the scan nor is_infected is ever another job's *)
(* (lines 474-484), and no job is completed before its scan has returned.  *)
(* It is no more than that: a scan that could not be made is stored as     *)
(* INFECTED, or as CLEAN, like any other.                                  *)
VerdictIsItsOwn ==
  \A i \in With("COMPLETED") :
    /\ job_queue[i].scan \in Outcome
    /\ job_queue[i].result = "INFECTED" <=> ScanFile(job_queue[i].scan) # 0

(* What the threads do with locks and posts amounts to the service of      *)
(* ScanService: jobs are begun in order, completed once, and the result of *)
(* a completed one is never written again, through the stale pointer of    *)
(* the scan (line 477) or otherwise.                                       *)
Service == INSTANCE ScanService WITH
  jobs <- [i \in DOMAIN job_queue |->
             [status |-> job_queue[i].status, result |-> job_queue[i].result]]
ServiceKept == Service!Spec

(* Every job is completed, unless the server stops or the thread is lost.  *)
EveryJobScanned ==
  \A i \in 1 .. MAX_JOBS :
    (i \in Pending) ~> (i \in With("COMPLETED") \/ ~server_running \/ ppc = "done")
=============================================================================

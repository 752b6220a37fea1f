---------------------------- MODULE ScanService ----------------------------
(***************************************************************************)
(* What the server owes to whoever has a file scanned, whatever threads,   *)
(* locks and semaphores do it: a job is taken up after all earlier ones    *)
(* are done, is completed once, with one verdict, and then stays as it is. *)
(* ScanQueue implements this; ClientSession is a client of it.             *)
(***************************************************************************)
EXTENDS Integers, Sequences

CONSTANT MAX_JOBS        \* the service takes no more jobs than this
VARIABLE jobs

Verdict  == {"CLEAN", "INFECTED"}
JobState == [status : {"PENDING", "PROCESSING"}, result : {""}]
              \cup [status : {"COMPLETED"}, result : Verdict]
NewJob   == [status |-> "PENDING", result |-> ""]

TypeOK == jobs \in Seq(JobState) /\ Len(jobs) <= MAX_JOBS

Done(i) == jobs[i].status = "COMPLETED"

Init == jobs = <<>>

Submit ==
  /\ Len(jobs) < MAX_JOBS
  /\ jobs' = Append(jobs, NewJob)

TakeUp(i) ==
  /\ jobs[i].status = "PENDING"
  /\ \A j \in 1 .. i - 1 : Done(j)
  /\ jobs' = [jobs EXCEPT ![i].status = "PROCESSING"]

Finish(i) ==
  /\ jobs[i].status = "PROCESSING"
  /\ \E verdict \in Verdict :
       jobs' = [jobs EXCEPT ![i] = [status |-> "COMPLETED", result |-> verdict]]

Work == \E i \in DOMAIN jobs : TakeUp(i) \/ Finish(i)
Next == Submit \/ Work
Spec == Init /\ [][Next]_jobs
=============================================================================

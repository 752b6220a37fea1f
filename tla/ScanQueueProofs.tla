-------------------------- MODULE ScanQueueProofs --------------------------
(***************************************************************************)
(* Theorems about ScanQueue, for every set of producers, every length of   *)
(* the queue, and whether or not the semaphore may fail.                   *)
(***************************************************************************)
EXTENDS ScanQueue, FiniteSetTheorems, SequenceTheorems, WellFoundedInduction, TLAPS

(* The loop that looks for a pending job finds the first one.              *)
LEMMA OldestIsFirst ==
  ASSUME NEW jobs \in SUBSET Nat, jobs # {}
  PROVE  Oldest(jobs) \in jobs /\ \A i \in jobs : Oldest(jobs) <= i
<1>1. PICK first \in jobs : \A i \in jobs : <<i, first>> \notin OpToRel(<, Nat)
  BY NatLessThanWellFounded, WFMin
<1>2. ASSUME NEW i \in jobs, i < first
      PROVE  FALSE
  <2>1. <<i, first>> \in Nat \X Nat /\ <<i, first>>[1] < <<i, first>>[2]
    BY <1>2
  <2>2. <<i, first>> \in OpToRel(<, Nat)
    BY ONLY <2>1 DEF OpToRel
  <2>. QED
    BY <1>1, <2>2
<1>3. \A i \in jobs : first <= i
  BY <1>2
<1>. QED
  BY <1>3 DEF Oldest, Min

(* Marking an entry changes that entry and nothing else of the queue.      *)
LEMMA EntryChanged ==
  ASSUME NEW q \in Seq(Job), NEW i \in DOMAIN q, NEW entry \in Job
  PROVE  LET new == [q EXCEPT ![i] = entry] IN
         /\ new \in Seq(Job) /\ Len(new) = Len(q) /\ DOMAIN new = DOMAIN q
         /\ \A j \in DOMAIN q : new[j] = IF j = i THEN entry ELSE q[j]
BY ExceptSeq, LenProperties

(* Queueing a job adds a pending entry at the end.                         *)
LEMMA EntryAdded ==
  ASSUME NEW q \in Seq(Job), NEW entry \in Job
  PROVE  LET new == Append(q, entry) IN
         /\ new \in Seq(Job) /\ Len(new) = Len(q) + 1
         /\ DOMAIN new = DOMAIN q \cup {Len(q) + 1}
         /\ Len(q) + 1 \notin DOMAIN q
         /\ \A j \in DOMAIN q : new[j] = q[j]
         /\ new[Len(q) + 1] = entry
<1>1. /\ Append(q, entry) \in Seq(Job) /\ Len(Append(q, entry)) = Len(q) + 1
      /\ \A j \in 1 .. Len(q) : Append(q, entry)[j] = q[j]
      /\ Append(q, entry)[Len(q) + 1] = entry
  BY AppendProperties
<1>2. /\ DOMAIN q = 1 .. Len(q) /\ Len(q) \in Nat
      /\ DOMAIN Append(q, entry) = 1 .. Len(q) + 1
  BY <1>1, LenProperties
<1>. QED
  BY <1>1, <1>2
-----------------------------------------------------------------------------
(* Types and the inductive invariant.                                      *)

LEMMA InitOK == Init => TypeOK /\ QueueInv
<1>. SUFFICES ASSUME Init PROVE TypeOK /\ QueueInv
  OBVIOUS
<1>1. job_queue \in Seq(Job) /\ Len(job_queue) = 0 /\ DOMAIN job_queue = {}
  BY EmptySeq DEF Init
<1>2. TypeOK
  BY <1>1, QueueAssumption DEF Init, TypeOK
<1>3. QueueInv
  BY <1>1, FS_EmptySet DEF Init, QueueInv, JobInHand, MutexHeld, ScansBehind, InOrder
<1>. QED
  BY <1>2, <1>3

(* A job is queued behind the others.                                      *)
LEMMA EnqueueKeeps ==
  ASSUME TypeOK, QueueInv, NEW p \in Producer, Enqueue(p)
  PROVE  TypeOK' /\ QueueInv'
<1>1. job_queue' = Append(job_queue, [status |-> "PENDING", result |-> "", scan |-> ""])
  BY DEF Enqueue, EnqueueUpTo
<1>. DEFINE new == [status |-> "PENDING", result |-> "", scan |-> ""]
<1>2. new \in Job /\ job_queue' = Append(job_queue, new)
  BY <1>1 DEF Job
<1>3. /\ job_queue' \in Seq(Job) /\ Len(job_queue') = Len(job_queue) + 1
      /\ DOMAIN job_queue' = DOMAIN job_queue \cup {Len(job_queue) + 1}
      /\ Len(job_queue) + 1 \notin DOMAIN job_queue
      /\ \A j \in DOMAIN job_queue : job_queue'[j] = job_queue[j]
      /\ job_queue'[Len(job_queue) + 1] = new
  <2>. HIDE DEF new
  <2>1. job_queue \in Seq(Job)
    BY DEF TypeOK
  <2>. QED
    BY <1>2, <2>1, EntryAdded
<1>4. DOMAIN job_queue = 1 .. Len(job_queue) /\ Len(job_queue) \in Nat
  BY LenProperties DEF TypeOK
<1>5. new.status = "PENDING"
  OBVIOUS
<1>. HIDE DEF new
<1>6. /\ Len(job_queue) < MAX_JOBS /\ posting' = posting \cup {p}
      /\ UNCHANGED <<job_semaphore, stats, server_running, jobs_mutex, ppc, job, is_infected>>
  BY DEF Enqueue, EnqueueUpTo, processorVars
<1>7. TypeOK'
  BY <1>3, <1>4, <1>6, QueueAssumption DEF TypeOK
<1>8. JobInHand'
  BY <1>3, <1>5, <1>6 DEF JobInHand, QueueInv
<1>9. InOrder'
  BY <1>3, <1>4, <1>5 DEF InOrder, QueueInv
<1>10. MutexHeld' /\ ScansBehind' /\ IsFiniteSet(posting')
  BY <1>6, FS_AddElement DEF QueueInv, MutexHeld, ScansBehind
<1>. QED
  BY <1>7, <1>8, <1>9, <1>10 DEF QueueInv

(* The first pending job is taken: all before it are done.                 *)
LEMMA TakeKeeps ==
  ASSUME TypeOK, QueueInv, Take, Pending # {}
  PROVE  /\ TypeOK' /\ QueueInv'
         /\ job' \in Pending /\ ppc' = "scan"
         /\ \A j \in DOMAIN job_queue : j < job' => job_queue[j].status = "COMPLETED"
         /\ job_queue' = [job_queue EXCEPT ![job'].status = "PROCESSING"]
<1>. DEFINE i == Oldest(Pending)
            entry == [job_queue[i] EXCEPT !.status = "PROCESSING"]
<1>1. DOMAIN job_queue = 1 .. Len(job_queue) /\ Len(job_queue) \in Nat
  BY LenProperties DEF TypeOK
<1>2. i \in Pending /\ \A k \in Pending : i <= k
  <2>1. Pending \in SUBSET Nat
    BY <1>1 DEF Pending
  <2>. QED
    BY <2>1, OldestIsFirst
<1>3. i \in DOMAIN job_queue /\ i # 0 /\ job_queue[i] \in Job /\ job_queue[i].status = "PENDING"
  BY <1>1, <1>2, ElementOfSeq DEF Pending, TypeOK
<1>4. /\ job' = i /\ ppc = "take" /\ ppc' = "scan"
      /\ job_queue' = [job_queue EXCEPT ![i].status = "PROCESSING"]
      /\ UNCHANGED <<job_semaphore, stats, server_running, jobs_mutex, is_infected, posting>>
  BY <1>3 DEF Take, TakeJob
<1>. HIDE DEF i
<1>5. entry \in Job /\ entry.status = "PROCESSING"
  BY <1>3 DEF Job
<1>6. job_queue' = [job_queue EXCEPT ![i] = entry]
  BY <1>4
<1>. HIDE DEF entry
<1>7. /\ job_queue' \in Seq(Job) /\ Len(job_queue') = Len(job_queue)
      /\ DOMAIN job_queue' = DOMAIN job_queue
      /\ \A j \in DOMAIN job_queue : job_queue'[j] = IF j = i THEN entry ELSE job_queue[j]
  BY <1>3, <1>5, <1>6, EntryChanged DEF TypeOK
<1>8. \A j \in DOMAIN job_queue : job_queue[j].status \notin {"PENDING", "COMPLETED"} => FALSE
  <2>1. \A j \in DOMAIN job_queue : job_queue[j].status # "PROCESSING"
    BY <1>4 DEF QueueInv, JobInHand
  <2>2. \A j \in DOMAIN job_queue : job_queue[j] \in Job
    BY <1>1, ElementOfSeq DEF TypeOK
  <2>. QED
    BY <2>1, <2>2 DEF Job
<1>9. \A j \in DOMAIN job_queue : j < i => job_queue[j].status = "COMPLETED"
  BY <1>1, <1>2, <1>3, <1>8 DEF Pending
<1>10. TypeOK'
  BY <1>1, <1>3, <1>4, <1>7 DEF TypeOK
<1>11. JobInHand'
  BY <1>3, <1>4, <1>5, <1>7, <1>8 DEF JobInHand
<1>12. InOrder'
  <2>. SUFFICES ASSUME NEW j \in DOMAIN job_queue, NEW k \in DOMAIN job_queue, j < k,
                       job_queue'[k].status # "PENDING"
                PROVE  job_queue'[j].status = "COMPLETED"
    BY <1>7 DEF InOrder
  <2>1. CASE k = i
    BY <1>1, <1>3, <1>7, <1>9, <2>1
  <2>2. CASE k # i
    <3>1. job_queue[k].status # "PENDING"
      BY <1>7, <2>2
    <3>2. job_queue[j].status = "COMPLETED"
      BY <3>1 DEF QueueInv, InOrder
    <3>. QED
      BY <1>3, <1>7, <3>2
  <2>. QED
    BY <2>1, <2>2
<1>13. MutexHeld' /\ ScansBehind' /\ IsFiniteSet(posting')
  BY <1>4 DEF QueueInv, MutexHeld, ScansBehind
<1>. QED
  BY <1>2, <1>4, <1>9, <1>10, <1>11, <1>12, <1>13 DEF QueueInv

(* An entry of the job in hand is rewritten.                               *)
LEMMA RewriteJob ==
  ASSUME TypeOK, QueueInv, ppc \in {"scan", "complete"}, NEW entry \in Job,
         job_queue' = [job_queue EXCEPT ![job] = entry]
  PROVE  /\ job \in DOMAIN job_queue /\ job_queue[job].status = "PROCESSING"
         /\ job_queue' \in Seq(Job) /\ Len(job_queue') = Len(job_queue)
         /\ DOMAIN job_queue' = DOMAIN job_queue
         /\ \A j \in DOMAIN job_queue : job_queue'[j] = IF j = job THEN entry ELSE job_queue[j]
         /\ DOMAIN job_queue \subseteq Nat
<1>1. job \in DOMAIN job_queue /\ job_queue[job].status = "PROCESSING"
  BY DEF QueueInv, JobInHand
<1>2. DOMAIN job_queue = 1 .. Len(job_queue)
  BY LenProperties DEF TypeOK
<1>. QED
  BY <1>1, <1>2, EntryChanged DEF TypeOK

(* The scan notes what it met with.                                        *)
LEMMA ScanKeeps ==
  ASSUME TypeOK, QueueInv, Scan
  PROVE  /\ TypeOK' /\ QueueInv'
         /\ DOMAIN job_queue' = DOMAIN job_queue
         /\ \A j \in DOMAIN job_queue : /\ job_queue'[j].status = job_queue[j].status
                                       /\ job_queue'[j].result = job_queue[j].result
<1>1. PICK outcome \in Outcome :
        /\ is_infected' = ScanFile(outcome)
        /\ job_queue' = [job_queue EXCEPT ![job].scan = outcome]
  BY DEF Scan
<1>. DEFINE entry == [job_queue[job] EXCEPT !.scan = outcome]
<1>2. /\ ppc = "scan" /\ ppc' = "complete"
      /\ UNCHANGED <<job_semaphore, stats, server_running, jobs_mutex, job, posting>>
  BY DEF Scan
<1>3. job_queue[job] \in Job
  <2>1. job \in 1 .. Len(job_queue)
    BY <1>2, LenProperties DEF QueueInv, JobInHand, TypeOK
  <2>. QED
    BY <2>1, ElementOfSeq DEF TypeOK
<1>4. /\ entry \in Job
      /\ entry.status = job_queue[job].status /\ entry.result = job_queue[job].result
  BY <1>3 DEF Job
<1>5. job_queue' = [job_queue EXCEPT ![job] = entry]
  BY <1>1
<1>. HIDE DEF entry
<1>6. /\ job \in DOMAIN job_queue
      /\ job_queue' \in Seq(Job) /\ Len(job_queue') = Len(job_queue)
      /\ DOMAIN job_queue' = DOMAIN job_queue
      /\ \A j \in DOMAIN job_queue : job_queue'[j] = IF j = job THEN entry ELSE job_queue[j]
  BY <1>2, <1>4, <1>5, RewriteJob
<1>7. \A j \in DOMAIN job_queue : /\ job_queue'[j].status = job_queue[j].status
                                /\ job_queue'[j].result = job_queue[j].result
  BY <1>4, <1>6
<1>8. is_infected' \in {-1, 0, 1}
  BY <1>1 DEF ScanFile, Outcome
<1>9. TypeOK'
  BY <1>2, <1>6, <1>8 DEF TypeOK
<1>10. JobInHand' /\ InOrder'
  BY <1>2, <1>6, <1>7 DEF QueueInv, JobInHand, InOrder
<1>11. MutexHeld' /\ ScansBehind' /\ IsFiniteSet(posting')
  BY <1>2 DEF QueueInv, MutexHeld, ScansBehind
<1>. QED
  BY <1>6, <1>7, <1>9, <1>10, <1>11 DEF QueueInv

(* The job in hand is completed.                                           *)
LEMMA CompleteKeeps ==
  ASSUME TypeOK, QueueInv, Complete
  PROVE  /\ TypeOK' /\ QueueInv'
         /\ job \in DOMAIN job_queue /\ job_queue[job].status = "PROCESSING"
         /\ DOMAIN job_queue' = DOMAIN job_queue
         /\ \E verdict \in {"CLEAN", "INFECTED"} :
              /\ job_queue'[job].status = "COMPLETED" /\ job_queue'[job].result = verdict
         /\ \A j \in DOMAIN job_queue \ {job} : job_queue'[j] = job_queue[j]
<1>. DEFINE verdict == IF is_infected # 0 THEN "INFECTED" ELSE "CLEAN"
            entry == [job_queue[job] EXCEPT !.status = "COMPLETED", !.result = verdict]
<1>1. /\ ppc = "complete" /\ ppc' = "verdict" /\ jobs_mutex' = "processor"
      /\ job_queue' = [job_queue EXCEPT ![job].status = "COMPLETED", ![job].result = verdict]
      /\ UNCHANGED <<job_semaphore, stats, server_running, job, is_infected, posting>>
  BY DEF Complete, CompleteJob
<1>2. job_queue[job] \in Job
  <2>1. job \in 1 .. Len(job_queue)
    BY <1>1, LenProperties DEF QueueInv, JobInHand, TypeOK
  <2>. QED
    BY <2>1, ElementOfSeq DEF TypeOK
<1>3. verdict \in {"CLEAN", "INFECTED"}
  OBVIOUS
<1>. HIDE DEF verdict
<1>4. entry \in Job /\ entry.status = "COMPLETED" /\ entry.result = verdict
  BY <1>2, <1>3 DEF Job
<1>5. job_queue' = [job_queue EXCEPT ![job] = entry]
  BY <1>1, <1>2 DEF Job
<1>. HIDE DEF entry
<1>6. /\ job \in DOMAIN job_queue /\ job_queue[job].status = "PROCESSING"
      /\ job_queue' \in Seq(Job) /\ Len(job_queue') = Len(job_queue)
      /\ DOMAIN job_queue' = DOMAIN job_queue /\ DOMAIN job_queue \subseteq Nat
      /\ \A j \in DOMAIN job_queue : job_queue'[j] = IF j = job THEN entry ELSE job_queue[j]
  BY <1>1, <1>4, <1>5, RewriteJob
<1>7. TypeOK'
  BY <1>1, <1>6 DEF TypeOK
<1>8. JobInHand'
  BY <1>1, <1>4, <1>6 DEF QueueInv, JobInHand
<1>9. InOrder'
  <2>. SUFFICES ASSUME NEW j \in DOMAIN job_queue, NEW k \in DOMAIN job_queue, j < k,
                       job_queue'[k].status # "PENDING"
                PROVE  job_queue'[j].status = "COMPLETED"
    BY <1>6 DEF InOrder
  <2>1. job_queue[k].status # "PENDING"
    BY <1>6
  <2>2. job_queue[j].status = "COMPLETED"
    BY <2>1 DEF QueueInv, InOrder
  <2>. QED
    BY <1>4, <1>6, <2>2
<1>10. MutexHeld' /\ ScansBehind' /\ IsFiniteSet(posting')
  BY <1>1 DEF QueueInv, MutexHeld, ScansBehind
<1>. QED
  BY <1>3, <1>4, <1>6, <1>7, <1>8, <1>9, <1>10 DEF QueueInv

(* The other steps leave the queue alone.                                  *)
QuietStep ==
  \/ Top \/ Wait \/ CountVerdict \/ CountScan \/ Shutdown \/ Terminated \/ UNCHANGED vars
  \/ Take /\ Pending = {}
  \/ \E p \in Producer : Post(p)

LEMMA QuietKeeps ==
  ASSUME TypeOK, QueueInv, QuietStep
  PROVE  TypeOK' /\ QueueInv' /\ UNCHANGED job_queue
<1>1. CASE Top
  BY <1>1 DEF Top, TypeOK, QueueInv, JobInHand, MutexHeld, ScansBehind, InOrder
<1>2. CASE Wait
  BY <1>2 DEF Wait, TypeOK, QueueInv, JobInHand, MutexHeld, ScansBehind, InOrder
<1>3. CASE CountVerdict
  <2>1. /\ ppc = "verdict" /\ ppc' = "count"
        /\ UNCHANGED <<job_queue, job_semaphore, server_running, jobs_mutex, job, is_infected, posting>>
    BY <1>3 DEF CountVerdict
  <2>2. /\ stats' \in [total_scans : Nat, clean_files : Nat, infected_files : Nat]
        /\ stats'.total_scans = stats.total_scans
        /\ stats'.clean_files + stats'.infected_files
             = stats.clean_files + stats.infected_files + 1
    <3>1. CASE is_infected # 0
      BY <1>3, <3>1 DEF CountVerdict, TypeOK
    <3>2. CASE is_infected = 0
      BY <1>3, <3>2 DEF CountVerdict, TypeOK
    <3>. QED
      BY <3>1, <3>2
  <2>3. ScansBehind'
    BY <2>1, <2>2 DEF QueueInv, ScansBehind
  <2>4. TypeOK'
    BY <2>1, <2>2 DEF TypeOK
  <2>. QED
    BY <2>1, <2>3, <2>4 DEF QueueInv, JobInHand, MutexHeld, InOrder
<1>4. CASE CountScan
  BY <1>4 DEF CountScan, TypeOK, QueueInv, JobInHand, MutexHeld, ScansBehind, InOrder
<1>5. CASE Shutdown
  BY <1>5 DEF Shutdown, processorVars, TypeOK, QueueInv, JobInHand, MutexHeld, ScansBehind, InOrder
<1>6. CASE Take /\ Pending = {}
  <2>1. /\ ppc = "take" /\ ppc' = "top" /\ job' = 0
        /\ UNCHANGED <<job_queue, job_semaphore, stats, server_running, jobs_mutex, is_infected, posting>>
    BY <1>6 DEF Take, TakeJob, Oldest
  <2>2. Len(job_queue) \in Nat
    BY DEF TypeOK
  <2>. QED
    BY <2>1, <2>2 DEF TypeOK, QueueInv, JobInHand, MutexHeld, ScansBehind, InOrder
<1>7. CASE \E p \in Producer : Post(p)
  <2>1. PICK p \in Producer : Post(p)
    BY <1>7
  <2>2. IsFiniteSet(posting')
    BY <2>1, FS_RemoveElement DEF Post, QueueInv
  <2>. QED
    BY <2>1, <2>2 DEF Post, processorVars, TypeOK, QueueInv, JobInHand, MutexHeld, ScansBehind, InOrder
<1>8. CASE Terminated \/ UNCHANGED vars
  BY <1>8 DEF Terminated, vars, processorVars, TypeOK, QueueInv, JobInHand, MutexHeld, ScansBehind, InOrder
<1>. QED
  BY <1>1, <1>2, <1>3, <1>4, <1>5, <1>6, <1>7, <1>8 DEF QuietStep

LEMMA NextCases ==
  [Next]_vars => \/ QuietStep \/ Scan \/ Complete
                 \/ Take /\ Pending # {}
                 \/ \E p \in Producer : Enqueue(p)
BY DEF Next, Processor, QuietStep

LEMMA StepKeeps == TypeOK /\ QueueInv /\ [Next]_vars => TypeOK' /\ QueueInv'
BY NextCases, QuietKeeps, ScanKeeps, CompleteKeeps, TakeKeeps, EnqueueKeeps

(* The types are kept; job_count stays within MAX_JOBS.                    *)
THEOREM QueueTyped == SafetySpec => []TypeOK
BY InitOK, StepKeeps, PTL DEF SafetySpec

(* The inductive invariant.                                                *)
THEOREM QueueConsistent == SafetySpec => []QueueInv
BY InitOK, StepKeeps, PTL DEF SafetySpec

-----------------------------------------------------------------------------
(* What follows from the invariant.                                        *)

LEMMA PendingFinite ==
  ASSUME TypeOK, NEW status
  PROVE  IsFiniteSet(With(status)) /\ IsFiniteSet(Pending) /\ IsFiniteSet(DOMAIN job_queue)
<1>1. DOMAIN job_queue = 1 .. Len(job_queue) /\ Len(job_queue) \in Nat
  BY LenProperties DEF TypeOK
<1>2. IsFiniteSet(DOMAIN job_queue)
  BY <1>1, FS_Interval
<1>3. With(status) \in SUBSET DOMAIN job_queue /\ Pending \in SUBSET DOMAIN job_queue
  BY DEF With, Pending
<1>. QED
  BY <1>2, <1>3, FS_Subset

(* Jobs are completed in the order they were queued, one at a time.        *)
THEOREM CompletedInOrder == SafetySpec => []FirstInFirstOut
<1>1. TypeOK /\ QueueInv => FirstInFirstOut
  <2>. SUFFICES ASSUME TypeOK, QueueInv PROVE FirstInFirstOut
    OBVIOUS
  <2>1. With("PROCESSING") = {} \/ With("PROCESSING") = {job}
    BY DEF With, QueueInv, JobInHand
  <2>2. Cardinality(With("PROCESSING")) <= 1
    BY <2>1, FS_EmptySet, FS_Singleton
  <2>. QED
    BY <2>2 DEF FirstInFirstOut, QueueInv
<1>. QED
  BY <1>1, QueueTyped, QueueConsistent, PTL

(* The thread ends between two jobs, without the mutex.                    *)
THEOREM EndsBetweenJobs == SafetySpec => []NothingHalfDone
<1>1. TypeOK /\ QueueInv => NothingHalfDone
  BY DEF NothingHalfDone, QueueInv, JobInHand, MutexHeld, With, TypeOK
<1>. QED
  BY <1>1, QueueTyped, QueueConsistent, PTL

(* For every pending job a post is there, to come, or just consumed.       *)
LEMMA StrandedStep ==
  TypeOK /\ QueueInv /\ NoJobStranded /\ [Next]_vars => NoJobStranded'
<1>. SUFFICES ASSUME TypeOK, QueueInv, NoJobStranded, [Next]_vars PROVE NoJobStranded'
  OBVIOUS
<1>1. IsFiniteSet(Pending) /\ IsFiniteSet(posting) /\ job_semaphore \in Nat
  BY PendingFinite DEF QueueInv, TypeOK
<1>2. Cardinality(Pending) \in Nat /\ Cardinality(posting) \in Nat
  BY <1>1, FS_CardinalityType
<1>3. CASE QuietStep
  <2>1. Pending' = Pending
    BY <1>3, QuietKeeps DEF Pending
  <2>2. CASE Take /\ Pending = {}
    <3>1. Cardinality(Pending) = 0 /\ UNCHANGED <<job_semaphore, posting>> /\ ppc' = "top"
      BY <2>2, FS_EmptySet DEF Take, TakeJob, Oldest
    <3>. QED
      BY <1>1, <1>2, <2>1, <3>1 DEF NoJobStranded
  <2>3. CASE \E p \in Producer : Post(p)
    <3>1. PICK p \in Producer : Post(p)
      BY <2>3
    <3>2. Cardinality(posting') = Cardinality(posting) - 1
      BY <1>1, <3>1, FS_RemoveElement DEF Post
    <3>3. job_semaphore' = job_semaphore + 1 /\ ppc' = ppc
      BY <3>1 DEF Post, processorVars
    <3>. QED
      BY <1>1, <1>2, <2>1, <3>2, <3>3 DEF NoJobStranded
  <2>4. CASE Wait
    <3>1. /\ posting' = posting /\ ppc = "wait"
          /\ \/ job_semaphore' = job_semaphore - 1 /\ ppc' = "take"
             \/ job_semaphore' = job_semaphore /\ ppc' # "take"
      BY <2>4 DEF Wait
    <3>. QED
      BY <1>1, <1>2, <2>1, <3>1 DEF NoJobStranded
  <2>5. CASE Top \/ CountVerdict \/ CountScan \/ Shutdown \/ Terminated \/ UNCHANGED vars
    <3>1. UNCHANGED <<job_semaphore, posting>> /\ (ppc = "take" <=> ppc' = "take")
      BY <2>5 DEF Top, CountVerdict, CountScan, Shutdown, Terminated, vars, processorVars
    <3>. QED
      BY <2>1, <3>1 DEF NoJobStranded
  <2>. QED
    BY <1>3, <2>2, <2>3, <2>4, <2>5 DEF QuietStep
<1>4. CASE Scan
  <2>1. Pending' = Pending
    BY <1>4, ScanKeeps DEF Pending
  <2>. QED
    BY <1>4, <2>1 DEF NoJobStranded, Scan
<1>5. CASE Complete
  <2>1. Pending' = Pending
    BY <1>5, CompleteKeeps DEF Pending
  <2>. QED
    BY <1>5, <2>1 DEF NoJobStranded, Complete, CompleteJob
<1>6. CASE Take /\ Pending # {}
  <2>1. job' \in Pending /\ ppc' = "scan" /\ Pending' = Pending \ {job'}
    <3>1. /\ job' \in Pending /\ ppc' = "scan"
          /\ job_queue' = [job_queue EXCEPT ![job'].status = "PROCESSING"]
      BY <1>6, TakeKeeps
    <3>2. job_queue[job'] \in Job
      BY <3>1, ElementOfSeq, LenProperties DEF TypeOK, Pending
    <3>3. /\ DOMAIN job_queue' = DOMAIN job_queue
          /\ job_queue'[job'].status = "PROCESSING"
          /\ \A j \in DOMAIN job_queue \ {job'} : job_queue'[j] = job_queue[j]
      BY <3>1, <3>2 DEF Pending, Job
    <3>. QED
      BY <3>1, <3>3 DEF Pending
  <2>2. Cardinality(Pending') = Cardinality(Pending) - 1
    BY <1>1, <2>1, FS_RemoveElement
  <2>3. ppc = "take" /\ UNCHANGED <<job_semaphore, posting>>
    BY <1>6 DEF Take, TakeJob
  <2>4. Cardinality(Pending) <= job_semaphore + Cardinality(posting) + 1
    BY <2>3 DEF NoJobStranded
  <2>5. ppc' = "scan" /\ Cardinality(posting') = Cardinality(posting)
    BY <2>1, <2>3
  <2>. QED
    BY <1>1, <1>2, <2>2, <2>3, <2>4, <2>5 DEF NoJobStranded
<1>7. CASE \E p \in Producer : Enqueue(p)
  <2>1. PICK p \in Producer :
          /\ p \notin posting /\ posting' = posting \cup {p}
          /\ job_queue' = Append(job_queue, [status |-> "PENDING", result |-> "", scan |-> ""])
          /\ UNCHANGED <<job_semaphore, ppc>>
    BY <1>7 DEF Enqueue, EnqueueUpTo, processorVars
  <2>. DEFINE new == [status |-> "PENDING", result |-> "", scan |-> ""]
              last == Len(job_queue) + 1
  <2>2. new \in Job /\ new.status = "PENDING" /\ job_queue' = Append(job_queue, new)
    BY <2>1 DEF Job
  <2>. HIDE DEF new
  <2>3. /\ DOMAIN job_queue' = DOMAIN job_queue \cup {last} /\ last \notin DOMAIN job_queue
        /\ \A j \in DOMAIN job_queue : job_queue'[j] = job_queue[j]
        /\ job_queue'[last] = new
    <3>1. job_queue \in Seq(Job)
      BY DEF TypeOK
    <3>. QED
      BY <2>2, <3>1, EntryAdded
  <2>4. Pending' = Pending \cup {last} /\ last \notin Pending
    BY <2>2, <2>3 DEF Pending
  <2>5. Cardinality(Pending') = Cardinality(Pending) + 1
    BY <1>1, <2>4, FS_AddElement
  <2>6. Cardinality(posting') = Cardinality(posting) + 1
    BY <1>1, <2>1, FS_AddElement
  <2>7. UNCHANGED <<job_semaphore, ppc>>
    BY <2>1
  <2>. HIDE DEF last
  <2>. DEFINE taking == IF ppc = "take" THEN 1 ELSE 0
  <2>8. Cardinality(Pending) <= job_semaphore + Cardinality(posting) + taking
    BY DEF NoJobStranded
  <2>9. Cardinality(Pending)' <= job_semaphore' + Cardinality(posting') + taking
    BY ONLY <1>1, <1>2, <2>5, <2>6, <2>7, <2>8
  <2>. QED
    BY <2>7, <2>9 DEF NoJobStranded
<1>. QED
  BY <1>3, <1>4, <1>5, <1>6, <1>7, NextCases

THEOREM NoneStranded == SafetySpec => []NoJobStranded
<1>1. Init => NoJobStranded
  BY FS_EmptySet DEF Init, NoJobStranded, Pending
<1>. QED
  BY <1>1, StrandedStep, QueueTyped, QueueConsistent, PTL DEF SafetySpec

(* Every completed job is counted once, by verdict and as a scan.          *)
LEMMA CountedStep ==
  TypeOK /\ QueueInv /\ CountsAddUp /\ [Next]_vars => CountsAddUp'
<1>. SUFFICES ASSUME TypeOK, QueueInv, CountsAddUp, [Next]_vars PROVE CountsAddUp'
  OBVIOUS
<1>. DEFINE verdicts == stats.clean_files + stats.infected_files
            done     == With("COMPLETED")
<1>1. IsFiniteSet(done)
  BY PendingFinite
<1>2. Cardinality(done) = verdicts + (IF ppc = "verdict" THEN 1 ELSE 0)
  BY DEF CountsAddUp
<1>3. TypeOK' /\ QueueInv'
  BY StepKeeps
<1>4. verdicts' \in {stats'.total_scans, stats'.total_scans + 1}
  BY <1>3 DEF QueueInv, ScansBehind, TypeOK
<1>. SUFFICES Cardinality(done)' = verdicts' + (IF ppc' = "verdict" THEN 1 ELSE 0)
  BY <1>4 DEF CountsAddUp
<1>5. CASE QuietStep \/ Scan \/ (Take /\ Pending # {}) \/ (\E p \in Producer : Enqueue(p))
  <2>1. done' = done
    <3>1. CASE QuietStep
      BY <3>1, QuietKeeps DEF With
    <3>2. CASE Scan
      BY <3>2, ScanKeeps DEF With
    <3>3. CASE Take /\ Pending # {}
      <4>1. /\ job' \in Pending
            /\ job_queue' = [job_queue EXCEPT ![job'].status = "PROCESSING"]
        BY <3>3, TakeKeeps
      <4>2. job_queue[job'] \in Job
        BY <4>1, ElementOfSeq, LenProperties DEF TypeOK, Pending
      <4>3. /\ DOMAIN job_queue' = DOMAIN job_queue
            /\ job_queue'[job'].status = "PROCESSING" /\ job_queue[job'].status = "PENDING"
            /\ \A j \in DOMAIN job_queue \ {job'} : job_queue'[j] = job_queue[j]
        BY <4>1, <4>2 DEF Pending, Job
      <4>. QED
        BY <4>3 DEF With
    <3>4. CASE \E p \in Producer : Enqueue(p)
      <4>1. job_queue' = Append(job_queue, [status |-> "PENDING", result |-> "", scan |-> ""])
        BY <3>4 DEF Enqueue, EnqueueUpTo
      <4>. DEFINE new == [status |-> "PENDING", result |-> "", scan |-> ""]
      <4>2. new \in Job /\ new.status = "PENDING" /\ job_queue' = Append(job_queue, new)
        BY <4>1 DEF Job
      <4>. HIDE DEF new
      <4>3. job_queue \in Seq(Job)
        BY DEF TypeOK
      <4>4. /\ DOMAIN job_queue' = DOMAIN job_queue \cup {Len(job_queue) + 1}
            /\ \A j \in DOMAIN job_queue : job_queue'[j] = job_queue[j]
            /\ job_queue'[Len(job_queue) + 1] = new
        BY <4>2, <4>3, EntryAdded
      <4>. QED
        BY <4>2, <4>4 DEF With
    <3>. QED
      BY <1>5, <3>1, <3>2, <3>3, <3>4
  <2>2. CASE CountVerdict
    <3>1. ppc = "verdict" /\ ppc' = "count" /\ verdicts' = verdicts + 1
      <4>1. CASE is_infected # 0
        BY <2>2, <4>1 DEF CountVerdict, TypeOK
      <4>2. CASE is_infected = 0
        BY <2>2, <4>2 DEF CountVerdict, TypeOK
      <4>. QED
        BY <2>2, <4>1, <4>2 DEF CountVerdict
    <3>2. verdicts \in Nat
      BY DEF TypeOK
    <3>. QED
      BY <1>2, <2>1, <3>1, <3>2
  <2>3. CASE ~CountVerdict
    <3>1. verdicts' = verdicts /\ (ppc = "verdict" <=> ppc' = "verdict")
      BY <1>5, <2>3
         DEF QuietStep, Top, Wait, CountScan, Shutdown, Terminated, vars, processorVars, Post,
             Scan, Take, TakeJob, Enqueue, EnqueueUpTo, TypeOK
    <3>. QED
      BY <1>2, <2>1, <3>1
  <2>. QED
    BY <2>2, <2>3
<1>6. CASE Complete
  <2>1. done' = done \cup {job} /\ job \notin done
    BY <1>6, CompleteKeeps DEF With
  <2>2. Cardinality(done)' = Cardinality(done) + 1
    BY <1>1, <2>1, FS_AddElement
  <2>3. ppc = "complete" /\ ppc' = "verdict" /\ stats' = stats
    BY <1>6 DEF Complete, CompleteJob
  <2>4. verdicts \in Nat /\ verdicts' = verdicts
    BY <2>3 DEF TypeOK
  <2>5. Cardinality(done) = verdicts
    BY <1>2, <2>3, <2>4
  <2>. QED
    BY <2>2, <2>3, <2>4, <2>5
<1>. HIDE DEF done, verdicts
<1>. QED
  BY <1>5, <1>6, NextCases

THEOREM CountedOnce == SafetySpec => []CountsAddUp
<1>1. Init => CountsAddUp
  BY FS_EmptySet DEF Init, CountsAddUp, With
<1>. QED
  BY <1>1, CountedStep, QueueTyped, QueueConsistent, PTL DEF SafetySpec

(* The local is_infected and the pointer into the queue stay about one job *)
(* from the scan to the verdict.                                           *)
LEMMA VerdictStep ==
  ASSUME TypeOK, QueueInv, VerdictInHand, VerdictIsItsOwn, [Next]_vars
  PROVE  VerdictInHand' /\ VerdictIsItsOwn'
<1>1. CASE QuietStep
  <2>1. \/ ppc' # "complete" \/ UNCHANGED vars \/ Shutdown
        \/ \E p \in Producer : Post(p)
    BY <1>1, QuietKeeps
       DEF QuietStep, Top, Wait, CountVerdict, CountScan, Terminated, Take, TakeJob, Oldest
  <2>2. job_queue' = job_queue /\ (ppc' = "complete" => UNCHANGED <<ppc, job, is_infected>>)
    BY <1>1, <2>1, QuietKeeps DEF vars, processorVars, Shutdown, Post
  <2>. QED
    BY <2>2 DEF VerdictInHand, VerdictIsItsOwn, With
<1>2. CASE Scan
  <2>1. PICK outcome \in Outcome :
          /\ is_infected' = ScanFile(outcome)
          /\ job_queue' = [job_queue EXCEPT ![job].scan = outcome]
          /\ ppc = "scan" /\ job' = job
    BY <1>2 DEF Scan
  <2>2. job \in DOMAIN job_queue /\ job_queue[job] \in Job /\ job_queue[job].status = "PROCESSING"
    BY <2>1, ElementOfSeq, LenProperties DEF QueueInv, JobInHand, TypeOK
  <2>3. /\ DOMAIN job_queue' = DOMAIN job_queue
        /\ job_queue'[job].scan = outcome
        /\ job_queue'[job].status = "PROCESSING"
        /\ \A j \in DOMAIN job_queue \ {job} : job_queue'[j] = job_queue[j]
    BY <2>1, <2>2 DEF Job
  <2>4. VerdictInHand'
    BY <2>1, <2>3 DEF VerdictInHand
  <2>. QED
    BY <2>3, <2>4 DEF VerdictIsItsOwn, With
<1>3. CASE Complete
  <2>. DEFINE verdict == IF is_infected # 0 THEN "INFECTED" ELSE "CLEAN"
  <2>1. /\ ppc = "complete" /\ ppc' = "verdict"
        /\ job_queue' = [job_queue EXCEPT ![job].status = "COMPLETED", ![job].result = verdict]
    BY <1>3 DEF Complete, CompleteJob
  <2>2. job \in DOMAIN job_queue /\ job_queue[job] \in Job
    BY <2>1, ElementOfSeq, LenProperties DEF QueueInv, JobInHand, TypeOK
  <2>. HIDE DEF verdict
  <2>3. /\ DOMAIN job_queue' = DOMAIN job_queue
        /\ job_queue'[job].scan = job_queue[job].scan
        /\ job_queue'[job].result = verdict
        /\ \A j \in DOMAIN job_queue \ {job} : job_queue'[j] = job_queue[j]
    BY <2>1, <2>2 DEF Job
  <2>4. /\ job_queue[job].scan \in Outcome
        /\ verdict = "INFECTED" <=> ScanFile(job_queue[job].scan) # 0
    BY <2>1 DEF VerdictInHand, verdict
  <2>5. VerdictIsItsOwn'
    BY <2>3, <2>4 DEF VerdictIsItsOwn, With
  <2>. QED
    BY <2>1, <2>5 DEF VerdictInHand
<1>4. CASE Take /\ Pending # {}
  <2>1. /\ job' \in Pending /\ ppc' = "scan"
        /\ job_queue' = [job_queue EXCEPT ![job'].status = "PROCESSING"]
    BY <1>4, TakeKeeps
  <2>2. job_queue[job'] \in Job
    BY <2>1, ElementOfSeq, LenProperties DEF TypeOK, Pending
  <2>3. /\ DOMAIN job_queue' = DOMAIN job_queue
        /\ job_queue'[job'].status = "PROCESSING"
        /\ \A j \in DOMAIN job_queue \ {job'} : job_queue'[j] = job_queue[j]
    BY <2>1, <2>2 DEF Pending, Job
  <2>4. \A i \in With("COMPLETED")' : i \in With("COMPLETED") /\ job_queue'[i] = job_queue[i]
    BY <2>3 DEF With
  <2>5. VerdictIsItsOwn'
    BY <2>4 DEF VerdictIsItsOwn
  <2>6. VerdictInHand'
    BY <2>1 DEF VerdictInHand
  <2>. QED
    BY <2>5, <2>6
<1>5. CASE \E p \in Producer : Enqueue(p)
  <2>1. /\ job_queue' = Append(job_queue, [status |-> "PENDING", result |-> "", scan |-> ""])
        /\ UNCHANGED <<ppc, job, is_infected>>
    BY <1>5 DEF Enqueue, EnqueueUpTo, processorVars
  <2>. DEFINE new == [status |-> "PENDING", result |-> "", scan |-> ""]
  <2>2. new \in Job /\ new.status = "PENDING" /\ job_queue' = Append(job_queue, new)
    BY <2>1 DEF Job
  <2>. HIDE DEF new
  <2>3. /\ DOMAIN job_queue' = DOMAIN job_queue \cup {Len(job_queue) + 1}
        /\ \A j \in DOMAIN job_queue : job_queue'[j] = job_queue[j]
        /\ job_queue'[Len(job_queue) + 1] = new
    <3>1. job_queue \in Seq(Job)
      BY DEF TypeOK
    <3>. QED
      BY <2>2, <3>1, EntryAdded
  <2>4. VerdictIsItsOwn'
    BY <2>2, <2>3 DEF VerdictIsItsOwn, With
  <2>5. ppc' = "complete" => ppc = "complete" /\ job_queue'[job'] = job_queue[job]
    BY <2>1, <2>3 DEF QueueInv, JobInHand
  <2>6. is_infected' = is_infected
    BY <2>1
  <2>7. VerdictInHand'
    BY <2>5, <2>6 DEF VerdictInHand
  <2>. QED
    BY <2>4, <2>7
<1>. QED
  BY <1>1, <1>2, <1>3, <1>4, <1>5, NextCases

(* The result stored in a completed job is the one its own scan returned,  *)
(* whatever that says of the file.                                         *)
THEOREM VerdictsTheirOwn == SafetySpec => []VerdictIsItsOwn
<1>1. Init => VerdictInHand /\ VerdictIsItsOwn
  BY DEF Init, VerdictInHand, VerdictIsItsOwn, With
<1>2. TypeOK /\ QueueInv /\ (VerdictInHand /\ VerdictIsItsOwn) /\ [Next]_vars
        => (VerdictInHand /\ VerdictIsItsOwn)'
  BY VerdictStep
<1>. QED
  BY <1>1, <1>2, QueueTyped, QueueConsistent, PTL DEF SafetySpec

-----------------------------------------------------------------------------
(* The queue, its locks and its semaphore implement ScanService.           *)

(* What a client can see of the queue.                                     *)
Shown == [i \in DOMAIN job_queue |->
            [status |-> job_queue[i].status, result |-> job_queue[i].result]]

LEMMA ShownSequence ==
  ASSUME NEW queue \in Seq(Job)
  PROVE  LET Entry == [status : {"PENDING", "PROCESSING", "COMPLETED"},
                       result : {"", "CLEAN", "INFECTED"}]
             shown == [i \in DOMAIN queue |->
                         [status |-> queue[i].status, result |-> queue[i].result]]
         IN  shown \in Seq(Entry) /\ Len(shown) = Len(queue)
<1>. DEFINE Entry == [status : {"PENDING", "PROCESSING", "COMPLETED"},
                     result : {"", "CLEAN", "INFECTED"}]
            shown == [i \in DOMAIN queue |->
                        [status |-> queue[i].status, result |-> queue[i].result]]
<1>1. DOMAIN queue = 1 .. Len(queue) /\ Len(queue) \in Nat
  BY LenProperties
<1>2. \A i \in 1 .. Len(queue) :
        [status |-> queue[i].status, result |-> queue[i].result] \in Entry
  <2>1. \A i \in 1 .. Len(queue) : queue[i] \in Job
    BY ElementOfSeq
  <2>. QED
    BY <2>1 DEF Job
<1>. HIDE DEF Entry
<1>3. shown \in [1 .. Len(queue) -> Entry]
  BY <1>1, <1>2
<1>4. shown \in Seq(Entry) /\ DOMAIN shown = 1 .. Len(queue)
  BY <1>1, <1>3
<1>. HIDE DEF shown
<1>5. Len(shown) = Len(queue)
  BY <1>1, <1>4, LenProperties
<1>6. shown \in Seq(Entry) /\ Len(shown) = Len(queue)
  BY <1>4, <1>5
<1>. QED
  BY <1>6 DEF shown, Entry

LEMMA SubmitShown ==
  ASSUME TypeOK, QueueInv, NEW p \in Producer, Enqueue(p)
  PROVE  Service!Submit
<1>1. /\ Len(job_queue) < MAX_JOBS
      /\ job_queue' = Append(job_queue, [status |-> "PENDING", result |-> "", scan |-> ""])
  BY DEF Enqueue, EnqueueUpTo
<1>. DEFINE new  == [status |-> "PENDING", result |-> "", scan |-> ""]
            last == Len(job_queue) + 1
            Entry == [status : {"PENDING", "PROCESSING", "COMPLETED"},
                      result : {"", "CLEAN", "INFECTED"}]
            seen == [status |-> "PENDING", result |-> ""]
<1>2. /\ new \in Job /\ new.status = "PENDING" /\ new.result = ""
      /\ job_queue' = Append(job_queue, new)
  BY <1>1 DEF Job
<1>. HIDE DEF new
<1>3. /\ DOMAIN job_queue' = DOMAIN job_queue \cup {last}
      /\ \A j \in DOMAIN job_queue : job_queue'[j] = job_queue[j]
      /\ job_queue'[last] = new /\ Len(job_queue') = last
  <2>1. job_queue \in Seq(Job)
    BY DEF TypeOK
  <2>. QED
    BY <1>2, <2>1, EntryAdded
<1>4. TypeOK'
  BY EnqueueKeeps
<1>5. /\ Shown \in Seq(Entry) /\ Len(Shown) = Len(job_queue) /\ DOMAIN Shown = DOMAIN job_queue
      /\ Shown' \in Seq(Entry) /\ Len(Shown') = last /\ DOMAIN Shown' = DOMAIN job_queue'
  <2>1. /\ Shown \in Seq(Entry) /\ Len(Shown) = Len(job_queue)
        /\ DOMAIN Shown = DOMAIN job_queue
    BY ShownSequence DEF TypeOK, Shown
  <2>2. /\ Shown' \in Seq(Entry) /\ Len(Shown') = Len(job_queue')
        /\ DOMAIN Shown' = DOMAIN job_queue'
    BY <1>4, ShownSequence DEF TypeOK, Shown
  <2>. QED
    BY <1>3, <2>1, <2>2
<1>6. \A j \in DOMAIN job_queue' :
        Shown'[j] = [status |-> job_queue'[j].status, result |-> job_queue'[j].result]
  BY DEF Shown
<1>7. \A j \in DOMAIN job_queue : Shown'[j] = Shown[j]
  BY <1>3, <1>6 DEF Shown
<1>8. Shown'[last] = seen
  <2>1. Shown'[last] = [status |-> job_queue'[last].status, result |-> job_queue'[last].result]
    BY <1>3, <1>6
  <2>2. job_queue'[last].status = "PENDING" /\ job_queue'[last].result = ""
    BY <1>2, <1>3
  <2>. QED
    BY <2>1, <2>2
<1>9. seen \in Entry
  OBVIOUS
<1>. HIDE DEF Entry, seen
<1>10. /\ Append(Shown, seen) \in Seq(Entry) /\ Len(Append(Shown, seen)) = last
       /\ \A j \in 1 .. Len(Shown) : Append(Shown, seen)[j] = Shown[j]
       /\ Append(Shown, seen)[last] = seen
  BY <1>5, <1>9, AppendProperties
<1>11. Len(job_queue) \in Nat /\ DOMAIN job_queue = 1 .. Len(job_queue)
  BY LenProperties DEF TypeOK
<1>12. \A j \in 1 .. last : Shown'[j] = Append(Shown, seen)[j]
  BY <1>5, <1>7, <1>8, <1>10, <1>11
<1>13. Shown' = Append(Shown, seen)
  BY <1>5, <1>10, <1>12, SeqEqual
<1>. QED
  BY <1>1, <1>5, <1>13 DEF Service!Submit, Service!NewJob, Shown, seen

(* One entry of the queue changes, and so does what is shown of it.        *)
LEMMA ChangeShown ==
  ASSUME TypeOK, TypeOK', NEW i \in DOMAIN job_queue,
         DOMAIN job_queue' = DOMAIN job_queue,
         \A j \in DOMAIN job_queue \ {i} : job_queue'[j] = job_queue[j]
  PROVE  Shown' = [Shown EXCEPT ![i] = [status |-> job_queue'[i].status,
                                        result |-> job_queue'[i].result]]
BY DEF Shown

LEMMA TakeUpShown ==
  ASSUME TypeOK, QueueInv, Take, Pending # {}
  PROVE  \E i \in DOMAIN Shown : Service!TakeUp(i)
<1>1. /\ job' \in Pending /\ TypeOK'
      /\ \A j \in DOMAIN job_queue : j < job' => job_queue[j].status = "COMPLETED"
      /\ job_queue' = [job_queue EXCEPT ![job'].status = "PROCESSING"]
  BY TakeKeeps
<1>2. /\ DOMAIN job_queue = 1 .. Len(job_queue) /\ Len(job_queue) \in Nat
      /\ job' \in DOMAIN job_queue /\ job_queue[job'].status = "PENDING"
  BY <1>1, LenProperties DEF TypeOK, Pending
<1>3. job_queue[job'] \in Job
  BY <1>2, ElementOfSeq DEF TypeOK
<1>4. /\ DOMAIN job_queue' = DOMAIN job_queue
      /\ job_queue'[job'].status = "PROCESSING" /\ job_queue'[job'].result = job_queue[job'].result
      /\ \A j \in DOMAIN job_queue \ {job'} : job_queue'[j] = job_queue[j]
  BY <1>1, <1>2, <1>3 DEF Job
<1>5. Shown' = [Shown EXCEPT ![job'] = [status |-> "PROCESSING", result |-> job_queue[job'].result]]
  BY <1>1, <1>2, <1>4, ChangeShown
<1>6. /\ Shown[job'] = [status |-> "PENDING", result |-> job_queue[job'].result]
      /\ \A j \in 1 .. job' - 1 : Shown[j].status = "COMPLETED"
      /\ job' \in DOMAIN Shown
  BY <1>1, <1>2 DEF Shown
<1>7. Shown' = [Shown EXCEPT ![job'].status = "PROCESSING"]
  <2>1. [Shown[job'] EXCEPT !.status = "PROCESSING"]
          = [status |-> "PROCESSING", result |-> job_queue[job'].result]
    BY <1>6
  <2>2. [Shown EXCEPT ![job'].status = "PROCESSING"]
          = [Shown EXCEPT ![job'] = [Shown[job'] EXCEPT !.status = "PROCESSING"]]
    <3>. HIDE DEF Shown
    <3>. QED
      OBVIOUS
  <2>. QED
    BY <1>5, <2>1, <2>2
<1>. QED
  BY <1>6, <1>7 DEF Service!TakeUp, Service!Done, Shown

LEMMA FinishShown ==
  ASSUME TypeOK, QueueInv, Complete
  PROVE  \E i \in DOMAIN Shown : Service!Finish(i)
<1>1. /\ TypeOK' /\ job \in DOMAIN job_queue /\ job_queue[job].status = "PROCESSING"
      /\ DOMAIN job_queue' = DOMAIN job_queue
      /\ \A j \in DOMAIN job_queue \ {job} : job_queue'[j] = job_queue[j]
  BY CompleteKeeps
<1>2. PICK verdict \in {"CLEAN", "INFECTED"} :
        job_queue'[job].status = "COMPLETED" /\ job_queue'[job].result = verdict
  BY CompleteKeeps
<1>3. Shown' = [Shown EXCEPT ![job] = [status |-> "COMPLETED", result |-> verdict]]
  BY <1>1, <1>2, ChangeShown
<1>4. job \in DOMAIN Shown /\ Shown[job].status = "PROCESSING"
  BY <1>1 DEF Shown
<1>. QED
  BY <1>3, <1>4 DEF Service!Finish, Service!Verdict, Shown

(* What the threads of ScanQueue do is what ScanService promises.          *)
THEOREM QueueImplementsService == SafetySpec => ServiceKept
<1>1. Init => Service!Init
  <2>. SUFFICES ASSUME Init PROVE Shown = <<>>
    BY DEF Service!Init, Shown
  <2>. QED
    BY DEF Init, Shown
<1>2. TypeOK /\ QueueInv /\ [Next]_vars => [Service!Next]_Shown
  <2>. SUFFICES ASSUME TypeOK, QueueInv, [Next]_vars PROVE Service!Next \/ Shown' = Shown
    OBVIOUS
  <2>1. CASE QuietStep
    BY <2>1, QuietKeeps DEF Shown
  <2>2. CASE Scan
    BY <2>2, ScanKeeps DEF Shown
  <2>3. CASE Complete
    BY <2>3, FinishShown DEF Service!Next, Service!Work, Shown
  <2>4. CASE Take /\ Pending # {}
    BY <2>4, TakeUpShown DEF Service!Next, Service!Work, Shown
  <2>5. CASE \E p \in Producer : Enqueue(p)
    BY <2>5, SubmitShown DEF Service!Next
  <2>. QED
    BY <2>1, <2>2, <2>3, <2>4, <2>5, NextCases
<1>. QED
  BY <1>1, <1>2, QueueTyped, QueueConsistent, PTL DEF SafetySpec, ServiceKept, Service!Spec, Shown
=============================================================================

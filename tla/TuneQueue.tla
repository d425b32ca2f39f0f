------------------------------ MODULE TuneQueue ------------------------------
(***************************************************************************)
(* The file queue between the admin API and the host GPU supervisor        *)
(* (app/tune_admin, app/api/admin_tune.py, scripts/tune_demo_supervisor.py). *)
(*                                                                         *)
(* An API process (a handler) answers a POST by taking a lock FILE,        *)
(* checking that no job is active, and writing jobs/{id}.json and then     *)
(* requests/{id}.json.  The supervisor polls: recover stale claims, expire *)
(* uploads, rename the oldest request to *.processing.json, run it.  The   *)
(* two sides share nothing but the directory, and either may die between   *)
(* two file operations.                                                    *)
(*                                                                         *)
(* A file's mtime is modelled by its age, which saturates at the threshold *)
(* the code compares it with.  A claim is a rename, so the age survives    *)
(* it.  depth counts the ".processing" suffixes of a request's name.       *)
(***************************************************************************)
EXTENDS Integers, FiniteSets

CONSTANTS Handlers,         \* API processes that can be in a POST at once
          Jobs,             \* job UUIDs
          KindOf,           \* the endpoint that will draw each id
          LockStale,        \* queue_lock_stale_seconds, in ticks
          HeartbeatStale,   \* heartbeat_stale_seconds
          ProcessingStale,  \* processing_stale_seconds
          UploadTTL,        \* upload_ttl_seconds
          MaxApiCrashes, MaxSupervisorCrashes

ASSUME TuneConstants ==
    /\ {LockStale, HeartbeatStale, ProcessingStale, UploadTTL} \subseteq Nat
    /\ {MaxApiCrashes, MaxSupervisorCrashes} \subseteq Nat
    /\ KindOf \in [Jobs -> {"train_smoke", "infer_live"}]

Gone == -1                     \* there is no such file
NoJob == "no job"
ASSUME NoJobIsNotAJob == NoJob \notin Jobs

Active == {"queued", "running"}
Terminal == {"completed", "failed"}

VARIABLES
    lock,       \* age of .api-queue.lock, or Gone
    pc, mine,   \* each handler: the next step of its POST and the job it serves
    verdict,    \* each handler: the error it will raise after unlocking ("ok" if none)
    kind,       \* each job: its kind, fixed by the POST that drew the id
    status,     \* jobs/{id}.json: its status, or "none"
    requests,   \* requests/*.json: records [job, depth, age]
    upload,     \* uploads/{id}.*: its age, or Gone
    sup, cur,   \* the supervisor's next step and the claimed request
    outcome,    \* the status process_claim is about to write
    rundirs,    \* jobs whose run directory exists
    children,   \* jobs whose training or inference process is on the GPU
    heartbeat,  \* age of the published overview
    spawned,    \* how many times a job's command was started
    apiCrashes, supCrashes, stolen  \* faults so far; a stale lock was removed

apiVars == <<lock, pc, mine, verdict, kind>>
supVars == <<sup, cur, outcome, rundirs, children, heartbeat, spawned>>
files == <<status, requests, upload>>
faults == <<apiCrashes, supCrashes, stolen>>
vars == <<apiVars, supVars, files, faults>>

Claimed == [job : Jobs, depth : Nat, age : Nat]
NoClaim == [job |-> NoJob]

Init ==
    /\ lock = Gone
    /\ pc = [h \in Handlers |-> "idle"]
    /\ mine = [h \in Handlers |-> NoJob]
    /\ verdict = [h \in Handlers |-> "ok"]
    /\ kind = [j \in Jobs |-> "none"]
    /\ status = [j \in Jobs |-> "none"]
    /\ requests = {}
    /\ upload = [j \in Jobs |-> Gone]
    /\ sup = "recover" /\ cur = NoClaim /\ outcome = "none"
    /\ rundirs = {} /\ children = {}
    /\ heartbeat = HeartbeatStale + 1
    /\ spawned = [j \in Jobs |-> 0]
    /\ apiCrashes = 0 /\ supCrashes = 0 /\ stolen = FALSE

------------------------------------------------------------------------------
(* Time.  Every age grows until no comparison in the code can tell.        *)

Older(age, cap) == IF age = Gone \/ age = cap THEN age ELSE age + 1

Tick ==
    /\ lock' = Older(lock, LockStale + 1)
    /\ heartbeat' = Older(heartbeat, HeartbeatStale + 1)
    /\ requests' = {[r EXCEPT !.age = Older(@, ProcessingStale)] : r \in requests}
    /\ upload' = [j \in Jobs |-> Older(upload[j], UploadTTL)]
    /\ UNCHANGED <<pc, mine, verdict, kind, status, sup, cur, outcome,
                   rundirs, children, spawned, faults>>

------------------------------------------------------------------------------
(* The API process.                                                        *)

Healthy == heartbeat <= HeartbeatStale

Goto(h, l) == pc' = [pc EXCEPT ![h] = l]

\* start_smoke_training / start_live_inference up to the drawn UUID: refused
\* (with no effect) unless the overview's heartbeat is fresh.
Post(h, j) ==
    /\ pc[h] = "idle"
    /\ kind[j] = "none"
    /\ Healthy
    /\ kind' = [kind EXCEPT ![j] = KindOf[j]]
    /\ mine' = [mine EXCEPT ![h] = j]
    /\ Goto(h, IF KindOf[j] = "infer_live" THEN "stage" ELSE "lock")
    /\ UNCHANGED <<lock, verdict, supVars, files, faults>>

StageUpload(h) ==
    /\ pc[h] = "stage"
    /\ \/ /\ upload' = [upload EXCEPT ![mine[h]] = 0]
          /\ Goto(h, "lock")
          /\ UNCHANGED verdict
       \/ /\ verdict' = [verdict EXCEPT ![h] = "storage"]
          /\ Goto(h, "answer")
          /\ UNCHANGED upload
    /\ UNCHANGED <<lock, mine, kind, supVars, status, requests, faults>>

\* _queue_lock, O_CREAT|O_EXCL succeeds on either attempt.
CreateLock(h) ==
    /\ pc[h] \in {"lock", "relock"}
    /\ lock = Gone
    /\ lock' = 0
    /\ Goto(h, "check")
    /\ UNCHANGED <<mine, verdict, kind, supVars, files, faults>>

\* The lock exists: too fresh, or already the second attempt.
LockBusy(h) ==
    /\ pc[h] \in {"lock", "relock"}
    /\ lock # Gone
    /\ lock <= LockStale \/ pc[h] = "relock"
    /\ verdict' = [verdict EXCEPT ![h] = "busy"]
    /\ Goto(h, "answer")
    /\ UNCHANGED <<lock, mine, kind, supVars, files, faults>>

\* stat() says stale on the first attempt; the unlink is a later system call.
SeeStaleLock(h) ==
    /\ pc[h] = "lock"
    /\ lock > LockStale
    /\ Goto(h, "steal")
    /\ UNCHANGED <<lock, mine, verdict, kind, supVars, files, faults>>

StealLock(h) ==
    /\ pc[h] = "steal"
    /\ lock' = Gone
    /\ stolen' = TRUE
    /\ Goto(h, "relock")
    /\ UNCHANGED <<mine, verdict, kind, supVars, files, apiCrashes, supCrashes>>

ActiveJobs == {j \in Jobs : status[j] \in Active}

CheckSkipsQueued(h) ==         \* mutant: only a running job is busy
    /\ pc[h] = "check"
    /\ IF \E j \in Jobs : status[j] = "running"
       THEN /\ verdict' = [verdict EXCEPT ![h] = "busy"]
            /\ Goto(h, "unlock")
       ELSE Goto(h, "job") /\ UNCHANGED verdict
    /\ UNCHANGED <<lock, mine, kind, supVars, files, faults>>

\* _active_job_exists, under the lock.
CheckActive(h) ==
    /\ pc[h] = "check"
    /\ IF ActiveJobs # {}
       THEN /\ verdict' = [verdict EXCEPT ![h] = "busy"]
            /\ Goto(h, "unlock")
       ELSE Goto(h, "job") /\ UNCHANGED verdict
    /\ UNCHANGED <<lock, mine, kind, supVars, files, faults>>

\* The two atomic writes of enqueue; a failing one goes to the except branch.
WriteJob(h) ==
    /\ pc[h] = "job"
    /\ \/ /\ status' = [status EXCEPT ![mine[h]] = "queued"]
          /\ Goto(h, "request")
          /\ UNCHANGED verdict
       \/ /\ verdict' = [verdict EXCEPT ![h] = "storage"]
          /\ Goto(h, "undo")
          /\ UNCHANGED status
    /\ UNCHANGED <<lock, mine, kind, supVars, requests, upload, faults>>

WriteRequest(h) ==
    /\ pc[h] = "request"
    /\ \/ /\ requests' = requests \cup {[job |-> mine[h], depth |-> 0, age |-> 0]}
          /\ Goto(h, "unlock")
          /\ UNCHANGED verdict
       \/ /\ verdict' = [verdict EXCEPT ![h] = "storage"]
          /\ Goto(h, "undo")
          /\ UNCHANGED requests
    /\ UNCHANGED <<lock, mine, kind, supVars, status, upload, faults>>

\* The except branch: unlink the request, then the status.
Undo(h) ==
    /\ pc[h] = "undo"
    /\ requests' = {r \in requests : r.job # mine[h] \/ r.depth # 0}
    /\ status' = [status EXCEPT ![mine[h]] = "none"]
    /\ Goto(h, "unlock")
    /\ UNCHANGED <<lock, mine, verdict, kind, supVars, upload, faults>>

\* The finally of _queue_lock removes whatever lock file is there.
Unlock(h) ==
    /\ pc[h] = "unlock"
    /\ lock' = Gone
    /\ Goto(h, "answer")
    /\ UNCHANGED <<mine, verdict, kind, supVars, files, faults>>

\* 202, or the error after remove_upload; the answer itself has no reader here.
Answer(h) ==
    /\ pc[h] = "answer"
    /\ upload' = [upload EXCEPT ![mine[h]] = IF verdict[h] = "ok" THEN @ ELSE Gone]
    /\ mine' = [mine EXCEPT ![h] = NoJob]
    /\ verdict' = [verdict EXCEPT ![h] = "ok"]
    /\ Goto(h, "idle")
    /\ UNCHANGED <<lock, kind, supVars, status, requests, faults>>

\* The process dies in the middle of a POST; files stay as they are.
ApiCrash(h) ==
    /\ pc[h] # "idle"
    /\ apiCrashes < MaxApiCrashes
    /\ apiCrashes' = apiCrashes + 1
    /\ mine' = [mine EXCEPT ![h] = NoJob]
    /\ verdict' = [verdict EXCEPT ![h] = "ok"]
    /\ Goto(h, "idle")
    /\ UNCHANGED <<lock, kind, supVars, files, supCrashes, stolen>>

------------------------------------------------------------------------------
(* The supervisor: run_once, over and over.                                *)

SupUnchanged == UNCHANGED <<apiVars, faults>>

\* recover_stale_processing: strip one ".processing" from every stale claim,
\* or drop the claim when the destination is there.
RecoverStale ==
    /\ sup = "recover"
    /\ LET stale == {r \in requests : r.depth > 0 /\ r.age >= ProcessingStale}
           back == {[r EXCEPT !.depth = @ - 1] : r \in
                      {s \in stale : ~\E q \in requests :
                                        q.job = s.job /\ q.depth = s.depth - 1}}
       IN requests' = (requests \ stale) \cup back
    /\ sup' = "expire"
    /\ UNCHANGED <<cur, outcome, rundirs, children, heartbeat, spawned, status, upload>>
    /\ SupUnchanged

DeleteExpiredUploads ==
    /\ sup = "expire"
    /\ upload' = [j \in Jobs |-> IF upload[j] >= UploadTTL THEN Gone ELSE upload[j]]
    /\ sup' = "claim"
    /\ UNCHANGED <<cur, outcome, rundirs, children, heartbeat, spawned, status, requests>>
    /\ SupUnchanged

Oldest(r) == \A q \in requests : q.age <= r.age

\* claim_next globs "*.json", which also matches "*.processing.json".
ClaimNext ==
    /\ sup = "claim"
    /\ \E r \in requests :
         /\ Oldest(r)
         /\ cur' = [r EXCEPT !.depth = @ + 1]
         /\ requests' = (requests \ {r}) \cup {cur'}
    /\ sup' = "validate"
    /\ UNCHANGED <<outcome, rundirs, children, heartbeat, spawned, status, upload>>
    /\ SupUnchanged

\* Nothing to claim: publish_overview and poll again.
NothingToClaim ==
    /\ sup = "claim"
    /\ requests = {}
    /\ heartbeat' = 0
    /\ sup' = "recover"
    /\ UNCHANGED <<cur, outcome, rundirs, children, spawned, files>>
    /\ SupUnchanged

\* validate_request compares the file's name with the job id, so a claim of a
\* claim fails, and its failure is written under an invented "invalid-..." id.
Validate ==
    /\ sup = "validate"
    /\ sup' = IF cur.depth = 1 THEN "mkdir" ELSE "discard"
    /\ UNCHANGED <<cur, outcome, rundirs, children, heartbeat, spawned, files>>
    /\ SupUnchanged

MakeRunDirExistOk ==           \* mutant: mkdir(exist_ok=True)
    /\ sup = "mkdir"
    /\ rundirs' = rundirs \cup {cur.job}
    /\ status' = [status EXCEPT ![cur.job] = "queued"]
    /\ sup' = "start"
    /\ UNCHANGED <<outcome, cur, children, heartbeat, spawned, requests, upload>>
    /\ SupUnchanged

\* execute: mkdir(exist_ok=False) raises for a job that already has a run.
MakeRunDir ==
    /\ sup = "mkdir"
    /\ IF cur.job \in rundirs
       THEN /\ outcome' = "failed"
            /\ sup' = "finish"
            /\ UNCHANGED <<rundirs, status>>
       ELSE /\ rundirs' = rundirs \cup {cur.job}
            /\ status' = [status EXCEPT ![cur.job] = "queued"]
            /\ sup' = "start"
            /\ UNCHANGED outcome
    /\ UNCHANGED <<cur, children, heartbeat, spawned, requests, upload>>
    /\ SupUnchanged

StartRunning ==
    /\ sup = "start"
    /\ status' = [status EXCEPT ![cur.job] = "running"]
    /\ heartbeat' = 0
    /\ sup' = "preflight"
    /\ UNCHANGED <<cur, outcome, rundirs, children, spawned, requests, upload>>
    /\ SupUnchanged

\* preflight and build_command, which needs the upload of an inference job.
Preflight ==
    /\ sup = "preflight"
    /\ \/ /\ kind[cur.job] = "infer_live" => upload[cur.job] # Gone
          /\ sup' = "spawn"
          /\ UNCHANGED outcome
       \/ /\ outcome' = "failed"
          /\ sup' = "finish"
    /\ UNCHANGED <<cur, rundirs, children, heartbeat, spawned, files>>
    /\ SupUnchanged

Spawn ==
    /\ sup = "spawn"
    /\ children' = children \cup {cur.job}
    /\ spawned' = [spawned EXCEPT ![cur.job] = @ + 1]
    /\ status' = [status EXCEPT ![cur.job] = "running"]
    /\ sup' = "wait"
    /\ UNCHANGED <<cur, outcome, rundirs, heartbeat, requests, upload>>
    /\ SupUnchanged

HeartbeatAfterOutcome ==       \* mutant: the callback may still run after the child
    /\ sup \in {"preflight", "wait", "cleanup"}
    /\ heartbeat' = 0
    /\ status' = [status EXCEPT ![cur.job] = "running"]
    /\ UNCHANGED <<sup, cur, outcome, rundirs, children, spawned, requests, upload>>
    /\ SupUnchanged

\* The periodic callback while a subprocess runs.
Heartbeat ==
    /\ sup \in {"preflight", "wait"}
    /\ heartbeat' = 0
    /\ status' = [status EXCEPT ![cur.job] = "running"]
    /\ UNCHANGED <<sup, cur, outcome, rundirs, children, spawned, requests, upload>>
    /\ SupUnchanged

\* A child ends by itself, supervised or orphaned.
ChildExit(j) ==
    /\ j \in children
    /\ children' = children \ {j}
    /\ UNCHANGED <<sup, cur, outcome, rundirs, heartbeat, spawned, files>>
    /\ SupUnchanged

\* Exit code and result document decide the outcome.
Reap ==
    /\ sup = "wait"
    /\ cur.job \notin children
    /\ outcome' \in Terminal
    /\ sup' = "finish"
    /\ UNCHANGED <<cur, rundirs, children, heartbeat, spawned, files>>
    /\ SupUnchanged

\* process.kill() and TimeoutExpired.
KillOnTimeout ==
    /\ sup = "wait"
    /\ cur.job \in children
    /\ children' = children \ {cur.job}
    /\ outcome' = "failed"
    /\ sup' = "finish"
    /\ UNCHANGED <<cur, rundirs, heartbeat, spawned, files>>
    /\ SupUnchanged

WriteSuccessOnly ==            \* mutant: a failure leaves the running status
    /\ sup = "finish"
    /\ status' = [status EXCEPT ![cur.job] = IF outcome = "completed" THEN outcome ELSE @]
    /\ sup' = "cleanup"
    /\ UNCHANGED <<cur, outcome, rundirs, children, heartbeat, spawned, requests, upload>>
    /\ SupUnchanged

WriteOutcome ==
    /\ sup = "finish"
    /\ status' = [status EXCEPT ![cur.job] = outcome]
    /\ sup' = "cleanup"
    /\ UNCHANGED <<cur, outcome, rundirs, children, heartbeat, spawned, requests, upload>>
    /\ SupUnchanged

\* The finally of process_claim, then publish_overview.  A discarded claim
\* has no parsed request, hence no upload to remove.
Cleanup ==
    /\ sup \in {"cleanup", "discard"}
    /\ requests' = requests \ {r \in requests : r.job = cur.job /\ r.depth = cur.depth}
    /\ upload' = IF sup = "cleanup" THEN [upload EXCEPT ![cur.job] = Gone] ELSE upload
    /\ heartbeat' = 0
    /\ cur' = NoClaim
    /\ outcome' = "none"
    /\ sup' = "recover"
    /\ UNCHANGED <<rundirs, children, spawned, status>>
    /\ SupUnchanged

\* The host process dies; flock is released, a running child is orphaned.
SupervisorCrash ==
    /\ sup # "down"
    /\ supCrashes < MaxSupervisorCrashes
    /\ supCrashes' = supCrashes + 1
    /\ sup' = "down" /\ cur' = NoClaim /\ outcome' = "none"
    /\ UNCHANGED <<apiVars, files, rundirs, children, heartbeat, spawned, apiCrashes, stolen>>

SupervisorStart ==
    /\ sup = "down"
    /\ sup' = "recover"
    /\ UNCHANGED <<cur, outcome, rundirs, children, heartbeat, spawned, files>>
    /\ SupUnchanged

------------------------------------------------------------------------------
HandlerStep(h) ==
    \/ StageUpload(h) \/ CreateLock(h) \/ LockBusy(h) \/ SeeStaleLock(h) \/ StealLock(h)
    \/ CheckActive(h) \/ WriteJob(h) \/ WriteRequest(h) \/ Undo(h) \/ Unlock(h) \/ Answer(h)

\* The supervisor's own progress (a heartbeat is not progress).
SupervisorStep ==
    \/ RecoverStale \/ DeleteExpiredUploads \/ ClaimNext \/ NothingToClaim \/ Validate
    \/ MakeRunDir \/ StartRunning \/ Preflight \/ Spawn \/ Reap \/ KillOnTimeout
    \/ WriteOutcome \/ Cleanup \/ SupervisorStart

Next ==
    \/ Tick
    \/ \E h \in Handlers :
         \/ \E j \in Jobs : Post(h, j)
         \/ HandlerStep(h)
         \/ ApiCrash(h)
    \/ SupervisorStep
    \/ Heartbeat
    \/ \E j \in Jobs : ChildExit(j)
    \/ SupervisorCrash

Spec == Init /\ [][Next]_vars

\* Time passes, an admitted POST runs to its answer, and the operator's
\* service manager keeps a supervisor running.  POSTs, crashes and the GPU
\* process itself are under no obligation: the supervisor's timeout ends it.
FairSpec ==
    /\ Spec
    /\ WF_vars(Tick)
    /\ WF_vars(SupervisorStep)
    /\ \A h \in Handlers : WF_vars(HandlerStep(h))

------------------------------------------------------------------------------

\* At most one job is queued or running, whatever crashes, as long as no
\* handler removed a lock it found stale: the check and the two writes of
\* enqueue (repository.py:252) are serialized by the lock file.
OneActiveJob == ~stolen => Cardinality(ActiveJobs) <= 1

\* Recovery requeues a claim but never repeats the work: a job's command is
\* started at most once, whatever the supervisor's crashes (execute's
\* mkdir(exist_ok=False), tune_demo_supervisor.py:729).
NoJobRunsTwice == \A j \in Jobs : spawned[j] <= 1

\* What a poll of a job showed as final stays final, without a supervisor crash.
FinalStatusStays ==
    [][supCrashes = 0 =>
         \A j \in Jobs : status[j] \in Terminal => status'[j] = status[j]]_vars

\* Without crashes every queued job is settled (timeouts bound the GPU work;
\* tune_demo_supervisor.py:837).
JobsSettle ==
    \A j \in Jobs :
        [](apiCrashes = 0 /\ supCrashes = 0) =>
            (status[j] \in Active ~> (status[j] \in Terminal \cup {"none"}))

==============================================================================

------------------------------- MODULE TunePanel -------------------------------
(***************************************************************************)
(* The Tune tab (TunePanel.jsx) over the tune endpoints: the overview and  *)
(* job polls, the two kinds of job it starts, the protected sample audio   *)
(* and the microphone.                                                     *)
(*                                                                         *)
(* A GET is answered when it is sent and its answer delivered later, in    *)
(* any order.  An effect with a timer is modelled by the condition under   *)
(* which it runs.  The server shows inference as ready exactly when it     *)
(* publishes comparisons, so the set of shown samples stands for both.     *)
(***************************************************************************)
EXTENDS Naturals, FiniteSets, AdminShell

CONSTANTS Jobs, Samples,
          Polls,          \* job polls in flight at once
          Fetches,        \* audio downloads in flight at once
          MaxStreams,     \* microphone streams opened in a session
          MaxLost         \* replies that never come, and job files removed

ASSUME TunePanelConstants == {MaxStreams, MaxLost} \subseteq Nat

VARIABLES
    job,        \* server: jobs/{id}.json, "none", "active", "final" or "gone" (file removed)
    published,  \* server: current_job of the overview file, which may be old
    approved,   \* server: samples with an approved comparison
    tracked,    \* trackedJobId
    shown,      \* the job detail in the panel
    overview,   \* the overview reply under way
    poll,       \* each job poll: the reply under way
    post,       \* the POST under way
    lost        \* replies and files lost so far

VARIABLES
    listed,     \* heldoutSamples: the samples the panel lists
    selected,   \* selectedSampleId
    fetch,      \* each download: its sample and whether its effect was cleaned up
    player      \* the download whose object URL the audio element plays

VARIABLES
    prompts, strays,    \* permission prompts of this panel, and of panels that are gone
    stream,             \* streamRef and recorderRef: the stream of the latest press
    recorder,           \* each opened stream's MediaRecorder: its state
    live,               \* streams whose tracks still capture
    recording, clip,    \* the flag of that name; a recorded blob is there
    overlap             \* Record was pressed while a prompt was open

jobVars == <<job, published, tracked, shown, overview, poll, post, lost>>
audioVars == <<approved, listed, selected, fetch, player>>
micVars == <<prompts, strays, stream, recorder, live, recording, clip, overlap>>
tuneVars == <<jobVars, audioVars, micVars>>

NoJob == "no job"
NoSample == "no sample"
NoStream == 0
Off == [at |-> "off"]
NoShown == [job |-> NoJob, status |-> "none"]
Streams == 1..MaxStreams

TuneInit ==
    /\ job = [j \in Jobs |-> "none"] /\ published = NoJob
    /\ approved \in (IF plan = "listen" THEN SUBSET Samples
                     ELSE IF plan = "record" THEN {{s} : s \in Samples} ELSE {{}})
    /\ tracked = NoJob /\ shown = NoShown
    /\ overview = Off /\ poll = [p \in Polls |-> Off] /\ post = Off /\ lost = 0
    /\ listed = {} /\ selected = NoSample
    /\ fetch = [f \in Fetches |-> Off] /\ player = Off
    /\ prompts = 0 /\ strays = 0 /\ stream = NoStream
    /\ recorder = [s \in Streams |-> "none"] /\ live = {}
    /\ recording = FALSE /\ clip = FALSE /\ overlap = FALSE

------------------------------------------------------------------------------
(* The server.                                                             *)

ActiveJob == {j \in Jobs : job[j] = "active"}

JobEnds(j) ==
    /\ job[j] = "active"
    /\ job' = [job EXCEPT ![j] = "final"]
    /\ UNCHANGED <<published, tracked, shown, overview, poll, post, lost, audioVars, micVars>>

\* The operator clears a finished job's file from the runtime directory.
JobRemoved(j) ==
    /\ job[j] = "final"
    /\ lost < MaxLost
    /\ lost' = lost + 1
    /\ job' = [job EXCEPT ![j] = "gone"]
    /\ UNCHANGED <<published, tracked, shown, overview, poll, post, audioVars, micVars>>

\* publish_overview: the supervisor rewrites the file now and then.
PublishJob ==
    /\ published' = IF ActiveJob = {} THEN NoJob ELSE CHOOSE j \in ActiveJob : TRUE
    /\ UNCHANGED <<job, tracked, shown, overview, poll, post, lost, audioVars, micVars>>

PublishSamples ==
    /\ approved' \in SUBSET Samples
    /\ UNCHANGED <<listed, selected, fetch, player, jobVars, micVars>>

\* TuneAdminService.overview: the active job file wins over the overview file.
CurrentJob == IF ActiveJob # {} THEN CHOOSE j \in ActiveJob : TRUE ELSE published

------------------------------------------------------------------------------
(* Overview and job polls.                                                 *)

\* jobBusy: a job is tracked and not shown as finished.
JobBusy == tracked # NoJob /\ ~(shown.job = tracked /\ shown.status = "final")

AskOverview ==
    /\ Open("tune")
    /\ overview = Off
    /\ overview' = [at |-> "sent", job |-> CurrentJob, samples |-> approved]
    /\ UNCHANGED <<job, published, tracked, shown, poll, post, lost, audioVars, micVars>>

\* The audio effect: clean up the old download, start one for the selection.
Cleaned == [f \in Fetches |->
              CASE fetch[f] = Off -> Off
                [] fetch[f] # Off /\ fetch[f].at = "playing" -> Off
                [] OTHER -> [fetch[f] EXCEPT !.cancelled = TRUE]]

SelectSample(s) ==
    /\ selected' = s
    /\ IF s = selected THEN UNCHANGED <<fetch, player>>
       ELSE /\ player' = Off
            /\ IF s = NoSample THEN fetch' = Cleaned
               ELSE \E f \in Fetches :
                      /\ Cleaned[f] = Off
                      /\ fetch' = [Cleaned EXCEPT ![f] =
                                     [at |-> "sent", sample |-> s, cancelled |-> FALSE]]

\* setOverview, setTrackedJobId when a job is current, and the effect that
\* moves the selection to a sample that is still listed.
DeliverOverview ==
    /\ overview # Off
    /\ listed' = overview.samples
    /\ IF selected \in listed' THEN SelectSample(selected)
       ELSE IF listed' = {} THEN SelectSample(NoSample)
       ELSE SelectSample(CHOOSE s \in listed' : TRUE)
    /\ tracked' = IF overview.job = NoJob THEN tracked ELSE overview.job
    /\ overview' = Off
    /\ post' = IF post # Off /\ post.at = "busy" THEN Off ELSE post
    /\ UNCHANGED <<job, published, approved, shown, poll, lost, micVars>>

\* The overview fails (503, network): the panel keeps what it has.
LoseOverview ==
    /\ overview # Off
    /\ lost < MaxLost
    /\ lost' = lost + 1
    /\ overview' = Off
    /\ post' = IF post # Off /\ post.at = "busy" THEN Off ELSE post
    /\ UNCHANGED <<job, published, tracked, shown, poll, audioVars, micVars>>

\* A new poll takes the next free slot.
PollSlot == CHOOSE p \in Polls : poll[p] = Off

AskJobUnlessFinal(p) ==        \* mutant: any finished detail stops the poll, whichever job it is
    /\ Open("tune")
    /\ poll[p] = Off /\ p = PollSlot
    /\ tracked # NoJob /\ shown.status # "final"
    /\ poll' = [poll EXCEPT ![p] = [at |-> "sent", job |-> tracked, status |-> job[tracked]]]
    /\ UNCHANGED <<job, published, tracked, shown, overview, post, lost, audioVars, micVars>>

\* The effect with the job timer.
AskJob(p) ==
    /\ Open("tune")
    /\ poll[p] = Off /\ p = PollSlot
    /\ JobBusy
    /\ poll' = [poll EXCEPT ![p] = [at |-> "sent", job |-> tracked, status |-> job[tracked]]]
    /\ UNCHANGED <<job, published, tracked, shown, overview, post, lost, audioVars, micVars>>

\* A detail replaces the one shown, even an older one; 404 drops the tracking.
DeliverJob(p) ==
    /\ poll[p] # Off
    /\ IF poll[p].status \in {"none", "gone"}
       THEN tracked' = NoJob /\ UNCHANGED shown
       ELSE shown' = [job |-> poll[p].job, status |-> poll[p].status] /\ UNCHANGED tracked
    /\ poll' = [poll EXCEPT ![p] = Off]
    /\ UNCHANGED <<job, published, overview, post, lost, audioVars, micVars>>

LoseJob(p) ==
    /\ poll[p] # Off
    /\ lost < MaxLost
    /\ lost' = lost + 1
    /\ poll' = [poll EXCEPT ![p] = Off]
    /\ UNCHANGED <<job, published, tracked, shown, overview, post, audioVars, micVars>>

------------------------------------------------------------------------------
(* Starting a job: startProof and submitInference.                         *)

Submit ==
    /\ Open("tune")
    /\ post = Off
    /\ ~JobBusy
    /\ \/ plan = "proof"
       \/ plan = "record" /\ clip /\ ~recording /\ listed # {}
    /\ post' = [at |-> "sent", job |-> NoJob]
    /\ UNCHANGED <<job, published, tracked, shown, overview, poll, lost, audioVars, micVars>>

Reply(answer, j) == IF post.at = "stray" THEN Off ELSE [at |-> answer, job |-> j]

\* Ids are fresh, so which one comes next makes no difference.
UnusedJobs == {j \in Jobs : job[j] = "none"}
NewJob == CHOOSE j \in UnusedJobs : TRUE

\* enqueue: at most one active job.  The answer may be lost.
Enqueue ==
    /\ post # Off /\ post.at \in {"sent", "stray"}
    /\ \E answer \in {"job", "409", "none"} :
         /\ \/ /\ ActiveJob = {} /\ answer \in {"job", "none"}
               /\ UnusedJobs # {}
               /\ job' = [job EXCEPT ![NewJob] = "active"]
               /\ post' = Reply(answer, NewJob)
            \/ /\ answer \in {"409", "none"}
               /\ answer = "409" => ActiveJob # {}
               /\ UNCHANGED job
               /\ post' = Reply(answer, NoJob)
    /\ UNCHANGED <<published, tracked, shown, overview, poll, lost, audioVars, micVars>>

\* Accepted: the answer becomes the shown job.  409: the overview is read
\* before the button comes back.
DeliverPost ==
    /\ post # Off
    /\ \/ /\ post.at = "job"
          /\ shown' = [job |-> post.job, status |-> "active"]
          /\ tracked' = post.job
          /\ post' = Off
          /\ UNCHANGED overview
       \/ /\ post.at = "409"
          /\ overview = Off
          /\ overview' = [at |-> "sent", job |-> CurrentJob, samples |-> approved]
          /\ post' = [post EXCEPT !.at = "busy"]
          /\ UNCHANGED <<shown, tracked>>
       \/ /\ post.at = "none"
          /\ post' = Off
          /\ UNCHANGED <<shown, tracked, overview>>
    /\ UNCHANGED <<job, published, poll, lost, audioVars, micVars>>

------------------------------------------------------------------------------
(* Held-out samples and their audio.                                       *)

PickSample(s) ==
    /\ Open("tune")
    /\ s \in listed \ {selected}
    /\ SelectSample(s)
    /\ UNCHANGED <<approved, listed, jobVars, micVars>>

\* The blob arrives, or the download fails.
DeliverAudio(f) ==
    /\ fetch[f] # Off /\ fetch[f].at = "sent"
    /\ \/ /\ ~fetch[f].cancelled
          /\ fetch' = [fetch EXCEPT ![f].at = "playing"]
          /\ player' = f
       \/ /\ fetch' = [fetch EXCEPT ![f] = Off]
          /\ UNCHANGED player
    /\ UNCHANGED <<approved, listed, selected, jobVars, micVars>>

------------------------------------------------------------------------------
(* The microphone.                                                         *)

\* startRecording up to getUserMedia: the Record button stays enabled until
\* the prompt is answered.
PressRecord ==
    /\ Open("tune")
    /\ ~recording /\ post = Off /\ ~JobBusy /\ listed # {}
    /\ prompts + Cardinality({s \in Streams : recorder[s] # "none"}) < MaxStreams
    /\ prompts' = prompts + 1
    /\ overlap' = (overlap \/ prompts > 0)
    /\ clip' = FALSE
    /\ UNCHANGED <<strays, stream, recorder, live, recording, jobVars, audioVars>>

Granted ==
    /\ prompts > 0
    /\ prompts' = prompts - 1
    /\ \E s \in Streams :
         /\ recorder[s] = "none"
         /\ recorder' = [recorder EXCEPT ![s] = "recording"]
         /\ live' = live \cup {s}
         /\ stream' = s
    /\ recording' = TRUE
    /\ UNCHANGED <<strays, clip, overlap, jobVars, audioVars>>

\* A recorder whose tracks have all been stopped stops by itself.
Hushed(r, on) == [s \in Streams |-> IF r[s] = "recording" /\ s \notin on THEN "stopping" ELSE r[s]]

\* releaseRecordingResources.
Release(r) ==
    /\ live' = live \ {stream}
    /\ stream' = NoStream
    /\ recorder' = Hushed(r, live')

Denied ==
    /\ prompts > 0
    /\ prompts' = prompts - 1
    /\ Release(recorder)
    /\ recording' = FALSE
    /\ UNCHANGED <<strays, clip, overlap, jobVars, audioVars>>

\* The Stop button, the eight-second timer, or leaving the inference view.
StopRecording ==
    /\ stream # NoStream
    /\ recorder[stream] = "recording"
    /\ recorder' = [recorder EXCEPT ![stream] = "stopping"]
    /\ UNCHANGED <<prompts, strays, stream, live, recording, clip, overlap, jobVars, audioVars>>

\* onstop: too short or empty, or a clip to submit.
Stopped(s) ==
    /\ recorder[s] = "stopping"
    /\ Release([recorder EXCEPT ![s] = "done"])
    /\ recording' = FALSE
    /\ clip' \in {clip, TRUE}
    /\ UNCHANGED <<prompts, strays, overlap, jobVars, audioVars>>

StrayKeepsStream ==            \* mutant: no mountedRef test after getUserMedia
    /\ strays > 0
    /\ strays' = strays - 1
    /\ \/ UNCHANGED <<live, recorder>>
       \/ \E s \in Streams : /\ recorder[s] = "none"
                             /\ recorder' = [recorder EXCEPT ![s] = "recording"]
                             /\ live' = live \cup {s}
    /\ UNCHANGED <<prompts, stream, recording, clip, overlap, jobVars, audioVars>>

\* A prompt of a panel that is gone: its stream is stopped at once.
StrayAnswered ==
    /\ strays > 0
    /\ strays' = strays - 1
    /\ UNCHANGED <<prompts, stream, recorder, live, recording, clip, overlap, jobVars, audioVars>>

------------------------------------------------------------------------------
(* Mounting and unmounting.                                                *)

TuneEnter ==
    /\ UNCHANGED <<jobVars, audioVars, micVars>>

TuneLeave ==
    /\ tracked' = NoJob /\ shown' = NoShown
    /\ overview' = Off /\ poll' = [p \in Polls |-> Off]
    /\ post' = IF post # Off /\ post.at = "sent" THEN [post EXCEPT !.at = "stray"] ELSE Off
    /\ listed' = {} /\ selected' = NoSample
    /\ fetch' = Cleaned /\ player' = Off
    /\ prompts' = 0 /\ strays' = strays + prompts
    /\ live' = live \ {stream}
    /\ stream' = NoStream
    /\ recorder' = [s \in Streams |-> IF s = stream \/ recorder[s] = "stopping" THEN "done"
                                      ELSE recorder[s]]
    /\ recording' = FALSE /\ clip' = FALSE
    /\ UNCHANGED <<job, published, lost, approved, overlap>>

JobStep ==
    \/ \E j \in Jobs : JobEnds(j) \/ JobRemoved(j)
    \/ PublishJob \/ AskOverview \/ DeliverOverview \/ LoseOverview
    \/ \E p \in Polls : AskJob(p) \/ DeliverJob(p) \/ LoseJob(p)
    \/ Submit \/ Enqueue \/ DeliverPost

AudioStep ==
    \/ PublishSamples \/ AskOverview \/ DeliverOverview
    \/ \E s \in Samples : PickSample(s)
    \/ \E f \in Fetches : DeliverAudio(f)

MicStep ==
    \/ AskOverview \/ DeliverOverview
    \/ PressRecord \/ Granted \/ Denied \/ StopRecording \/ StrayAnswered
    \/ \E s \in Streams : Stopped(s)
    \/ Submit \/ Enqueue \/ DeliverPost

------------------------------------------------------------------------------

\* The panel does not go on showing a job as active, with its buttons
\* disabled, after the job is over: neither an old overview that tracks it
\* again nor a late detail keeps it so (the effect at TunePanel.jsx:380).
StuckBusy == tracked # NoJob /\ JobBusy /\ job[tracked] # "active"
JobBadgeSettles == []<>~StuckBusy

\* No microphone is left open: every capturing stream is the one the panel
\* will release, also when the prompt is answered after the panel is gone,
\* as long as Record was not pressed twice for one prompt (TunePanel.jsx:526).
NoMicLeftOpen == ~overlap => live \subseteq {stream}
==============================================================================

---------------------------- MODULE AsyncTranscribe ----------------------------
(***************************************************************************)
(* The asynchronous upload of a recording in LectureLive, of one session:    *)
(* chunks, processor (src/lib/audio/asyncUploadProcessor.ts), the job at     *)
(* Soniox, and the finalization (src/lib/audio/asyncTranscribeFinalize.ts)   *)
(* that the browser's status requests and the maintenance timer drive.  The  *)
(* user may cancel and start again: every start is an attempt.               *)
(*                                                                         *)
(* A step is one statement or transaction of the database, or one operation  *)
(* on the upload's directory, with the conditions the statement repeats.     *)
(* Each attempt has at most one processor, for its start is claimed; the     *)
(* processors of two attempts may run at once, in one directory.             *)
(***************************************************************************)
EXTENDS Naturals, FiniteSets

CONSTANTS
    Users,        \* requests of the owner: status, cancel
    Timers,       \* runs of the maintenance
    MaxAttempts,  \* bound: starts of an upload
    MaxFaults     \* bound: crashes, failed statements, lost acknowledgements

ASSUME AsyncAssumption ==
    /\ Users \cap Timers = {} /\ 0 \notin Users \cup Timers
    /\ MaxAttempts \in Nat \ {0} /\ MaxFaults \in Nat

VARIABLES
    ses,       \* the Session row
    dir,       \* the upload's directory
    opening,   \* the attempt whose manifest is being written, 0 for none
    job,       \* the Soniox transcription of each attempt
    audio,     \* the stored recording of each attempt, with its ledger row
    text,      \* transcripts that are stored, by the request that made them
    proc,      \* what the processor of each attempt is at
    req,       \* what each request and timer is at
    bills,     \* ghost: charges of the session, by the upload's end and by its own finalization
    faults

vars == <<ses, dir, opening, job, audio, text, proc, req, bills, faults>>

Attempts == 1..MaxAttempts
Requests == Users \cup Timers
Own == MaxAttempts + 1     \* the recording that the session's own finalization publishes
NoOne == 0
Quiet == [pc |-> "idle", job |-> 0]
Empty == [chunks |-> "none", mp3 |-> FALSE]

Over == {"completed", "failed", "canceled"}
Active == ses.status \notin Over \cup {"none"}
To(status) == ses' = [ses EXCEPT !.status = status]
GiveUp == ses' = [ses EXCEPT !.status = "failed", !.reserved = FALSE]
Reserve == ses' = [ses EXCEPT !.reserved = TRUE]
Unreserve == ses' = [ses EXCEPT !.reserved = FALSE]
Names(a) == ses' = [ses EXCEPT !.status = "transcribing", !.job = a]
Step(a, pc) == proc' = [proc EXCEPT ![a] = pc]
Go(r, pc) == req' = [req EXCEPT ![r].pc = pc]
Returns(r) == req' = [req EXCEPT ![r] = Quiet]
Fault == faults < MaxFaults /\ faults' = faults + 1
Wiped == dir' = Empty

----------------------------------------------------------------------------
Init ==
    /\ ses = [status |-> "none", attempt |-> 0, job |-> 0, recording |-> 0,
              transcript |-> NoOne, closed |-> FALSE, reserved |-> FALSE]
    /\ dir = Empty /\ opening = 0
    /\ job = [a \in Attempts |-> "none"]
    /\ audio = [a \in Attempts |-> "none"]
    /\ text = {}
    /\ proc = [a \in Attempts |-> "idle"]
    /\ req = [r \in Requests |-> Quiet]
    /\ bills = [upload |-> 0, own |-> 0] /\ faults = 0

\* The claim of an init: an attempt of its own, and its reservation in the place of what
\* an earlier one left.  That the session is open was read before, and may be so no more.
Start ==
    /\ opening = 0 /\ ses.attempt < MaxAttempts
    /\ ses.status \in {"none", "uploading", "failed", "canceled"}
    /\ ses' = [ses EXCEPT !.status = "uploading", !.attempt = @ + 1, !.reserved = TRUE]
    /\ opening' = ses.attempt + 1
    /\ UNCHANGED <<dir, job, audio, text, proc, req, bills, faults>>
\* Then the manifest, and another file's chunks are removed; or the attempt that is still the
\* session's is given up with its reservation.
Open ==
    /\ opening # 0 /\ opening' = 0
    /\ \E chunks \in {"some", dir.chunks} \ {"none"} : dir' = [dir EXCEPT !.chunks = chunks]
    /\ UNCHANGED <<ses, job, audio, text, proc, req, bills, faults>>
OpenFails ==
    /\ opening # 0 /\ opening' = 0 /\ Fault
    /\ IF ses.status = "uploading" /\ ses.attempt = opening
       THEN GiveUp ELSE UNCHANGED ses
    /\ UNCHANGED <<dir, job, audio, text, proc, req, bills>>
Chunks ==
    /\ ses.status = "uploading" /\ dir.chunks = "some"
    /\ dir' = [dir EXCEPT !.chunks = "all"]
    /\ UNCHANGED <<ses, opening, job, audio, text, proc, req, bills, faults>>
\* The start of the processor is claimed.
Complete ==
    /\ ses.status = "uploading" /\ dir.chunks = "all"
    /\ To("transcoding") /\ Step(ses.attempt, "begin")
    /\ UNCHANGED <<dir, opening, job, audio, text, req, bills, faults>>

\* The session is finalized on its own, with a recording of its own unless it has one, and
\* charged, if it has a billable duration, whatever its upload is at.  That the row then names a
\* transcript of the finalization's making is left out: transcript is what the upload put there.
CloseSession ==
    /\ ~ses.closed
    /\ \E recording \in IF ses.recording = 0 THEN {0, Own} ELSE {ses.recording} :
          ses' = [ses EXCEPT !.closed = TRUE, !.recording = recording]
    /\ \E charge \in {0, 1} : bills' = [bills EXCEPT !.own = @ + charge]
    /\ UNCHANGED <<dir, opening, job, audio, text, proc, req, faults>>

----------------------------------------------------------------------------
\* setStatus of processAsyncUpload and cancelAsyncUpload refuses a session that is over.
Settable == Active

Begin(a) ==
    /\ proc[a] = "begin"
    /\ IF Settable THEN To("transcoding") /\ Step(a, "transcode")
                   ELSE Step(a, "halt") /\ UNCHANGED ses
    /\ UNCHANGED <<dir, opening, job, audio, text, req, bills, faults>>
\* Merge, check and transcode what is in the directory.
Transcode(a) ==
    /\ proc[a] = "transcode"
    /\ \/ dir.chunks = "all" /\ dir' = [dir EXCEPT !.mp3 = TRUE] /\ Step(a, "stage")
       \/ Step(a, "fail") /\ UNCHANGED dir
    /\ UNCHANGED <<ses, opening, job, audio, text, req, bills, faults>>
Stage(a) ==
    /\ proc[a] = "stage"
    /\ IF dir.mp3 THEN audio' = [audio EXCEPT ![a] = "reserved"] /\ Step(a, "publish")
                  ELSE Step(a, "fail") /\ UNCHANGED audio
    /\ UNCHANGED <<ses, dir, opening, job, text, req, bills, faults>>

\* The publication of the recording, with its ledger row and that of what it replaces.
\* Slip: of a session that was finalized meanwhile, too.
OpenAny == Active
StillOpen == Active /\ ~ses.closed
Published(a) ==
    /\ ses' = [ses EXCEPT !.status = "sending", !.recording = a]
    /\ audio' = [b \in Attempts |-> IF b = a THEN "active"
                                    ELSE IF b = ses.recording THEN "replaced" ELSE audio[b]]
Rollback(a) == audio' = [audio EXCEPT ![a] = "deleted"]
Publish(a) ==
    /\ proc[a] = "publish"
    /\ IF StillOpen THEN Published(a) /\ Step(a, "topUp")
                    ELSE Rollback(a) /\ Step(a, "halt") /\ UNCHANGED ses
    /\ UNCHANGED <<dir, opening, job, text, req, bills, faults>>
PublishFails(a) ==
    /\ proc[a] = "publish" /\ Fault
    /\ (StillOpen /\ Published(a)) \/ UNCHANGED <<ses, audio>>
    /\ Step(a, "readback")
    /\ UNCHANGED <<dir, opening, job, text, req, bills>>
\* Slip: a failed publication has not been made.
NotPublishedAny(a) == audio[a] \in {"reserved", "active"}
NotPublished(a) == ses.recording # a /\ audio[a] = "reserved"
\* Published, not published, or, when both have moved on or cannot be read, left alone.
Readback(a) ==
    /\ proc[a] = "readback"
    /\ \/ NotPublished(a) /\ Rollback(a) /\ Step(a, "fail")
       \/ ~NotPublished(a) /\ ses.recording = a /\ Step(a, "topUp") /\ UNCHANGED audio
       \/ Step(a, "idle") /\ UNCHANGED audio
    /\ UNCHANGED <<ses, dir, opening, job, text, req, bills, faults>>

\* The reservation is raised to the measured duration, or there is too little quota.
TopUp(a) ==
    /\ proc[a] = "topUp"
    /\ \/ Reserve /\ Step(a, "send")
       \/ Step(a, "fail") /\ UNCHANGED ses
    /\ UNCHANGED <<dir, opening, job, audio, text, req, bills, faults>>
Send(a) ==
    /\ proc[a] = "send"
    /\ \/ Step(a, "fail") /\ UNCHANGED ses
       \/ IF Settable THEN To("sending") /\ Step(a, "create")
                      ELSE Step(a, "halt") /\ UNCHANGED ses
    /\ UNCHANGED <<dir, opening, job, audio, text, req, bills, faults>>
Create(a) ==
    /\ proc[a] = "create"
    /\ \/ job' = [job EXCEPT ![a] = "running"] /\ Step(a, "record")
       \/ Step(a, "fail") /\ UNCHANGED job
    /\ UNCHANGED <<ses, dir, opening, audio, text, req, bills, faults>>
Record(a) ==
    /\ proc[a] = "record" /\ Step(a, "halt")
    /\ IF Settable
       THEN Names(a) /\ UNCHANGED job
       ELSE job' = [job EXCEPT ![a] = "gone"] /\ UNCHANGED ses
    /\ UNCHANGED <<dir, opening, audio, text, req, bills, faults>>
\* The end of every processor: its local files.
Halt(a) ==
    /\ proc[a] = "halt" /\ Wiped /\ Step(a, "idle")
    /\ UNCHANGED <<ses, opening, job, audio, text, req, bills, faults>>
\* An error marks the session, and who marks it releases the reservation.
Fail(a) ==
    /\ proc[a] = "fail"
    /\ IF Settable THEN To("failed") /\ Step(a, "release")
                   ELSE Step(a, "halt") /\ UNCHANGED ses
    /\ UNCHANGED <<dir, opening, job, audio, text, req, bills, faults>>
Release(a) ==
    /\ proc[a] = "release" /\ Step(a, "halt")
    /\ Unreserve
    /\ UNCHANGED <<dir, opening, job, audio, text, req, bills, faults>>

----------------------------------------------------------------------------
Remote(a) ==
    /\ job[a] = "running"
    /\ \E answer \in {"done", "error"} : job' = [job EXCEPT ![a] = answer]
    /\ UNCHANGED <<ses, dir, opening, audio, text, proc, req, bills, faults>>

\* An end without a result deletes the job, if it can, and leaves its number.
MayDelete(a) == UNCHANGED job \/ (a # 0 /\ job' = [job EXCEPT ![a] = "gone"])

\* A request reads the row and asks Soniox; an answer that is not an end changes nothing.
Look(r) ==
    /\ req[r].pc = "idle" /\ ses.job # 0
    /\ ses.status = "transcribing" \/ (r \in Timers /\ ses.status = "finalizing")
    /\ \/ job[ses.job] = "done" /\ req' = [req EXCEPT ![r] = [pc |-> "claim", job |-> ses.job]]
       \/ /\ job[ses.job] = "error" /\ r \in Users
          /\ req' = [req EXCEPT ![r] = [pc |-> "error", job |-> ses.job]]
    /\ UNCHANGED <<ses, dir, opening, job, audio, text, proc, bills, faults>>
\* Slip: the status that Soniox reports is stored as it is.
JobErrorRaw(r) ==
    /\ req[r].pc = "error" /\ Returns(r)
    /\ IF ses.status = "transcribing" THEN To("error") ELSE UNCHANGED ses
    /\ MayDelete(req[r].job) /\ UNCHANGED <<dir, opening, audio, text, proc, bills, faults>>
JobError(r) ==
    /\ req[r].pc = "error" /\ Returns(r)
    /\ IF ses.status = "transcribing" THEN To("failed") ELSE UNCHANGED ses
    /\ MayDelete(req[r].job) /\ UNCHANGED <<dir, opening, audio, text, proc, bills, faults>>

\* finalizeAsyncTranscription: of the requests that see the job done, one claims the end;
\* the maintenance claims what was left in it, too.
Claim(r) ==
    /\ req[r].pc = "claim"
    /\ IF ses.status = "transcribing" \/ (r \in Timers /\ ses.status = "finalizing")
       THEN To("finalizing") /\ Go(r, "fetch") ELSE Returns(r) /\ UNCHANGED ses
    /\ UNCHANGED <<dir, opening, job, audio, text, proc, bills, faults>>
\* The transcript is fetched and stored, under a name of its own.
Fetch(r) ==
    /\ req[r].pc = "fetch" /\ job[req[r].job] = "done"
    /\ text' = text \cup {r} /\ Go(r, "commit")
    /\ UNCHANGED <<ses, dir, opening, job, audio, proc, bills, faults>>
\* Or not: a request sets the session back or fails it, the maintenance leaves it.
FetchFails(r) ==
    /\ req[r].pc = "fetch" /\ Returns(r)
    /\ IF r \in Users /\ ses.status = "finalizing"
       THEN To("transcribing") \/ To("failed") ELSE UNCHANGED ses
    /\ UNCHANGED <<dir, opening, job, audio, text, proc, bills, faults>>

\* The transaction of the end and the charge.  Slip: of every session that is not given up.
CommittableAny == ses.status \notin {"none", "canceled", "failed"}
Committable == ses.status = "finalizing"
Commits(r) ==
    /\ ses' = [ses EXCEPT !.status = "completed", !.transcript = r, !.closed = TRUE, !.reserved = FALSE]
    /\ bills' = [bills EXCEPT !.upload = @ + 1]
Commit(r) ==
    /\ req[r].pc = "commit"
    /\ IF Committable THEN Commits(r) /\ Go(r, "purge") /\ UNCHANGED text
                      ELSE text' = text \ {r} /\ Go(r, "check") /\ UNCHANGED <<ses, bills>>
    /\ UNCHANGED <<dir, opening, job, audio, proc, faults>>
CommitFails(r) ==
    /\ req[r].pc = "commit" /\ Fault /\ Go(r, "readback")
    /\ (Committable /\ Commits(r)) \/ UNCHANGED <<ses, bills>>
    /\ UNCHANGED <<dir, opening, job, audio, text, proc>>
\* A failed transaction is read back: made, or the session and the text are set back; what
\* cannot be read is left as it is.
CommitReadback(r) ==
    /\ req[r].pc = "readback"
    /\ \/ ses.transcript = r /\ Go(r, "purge") /\ UNCHANGED <<ses, text>>
       \/ /\ ses.transcript # r /\ Returns(r) /\ text' = text \ {r}
          /\ IF Committable THEN To("transcribing") ELSE UNCHANGED ses
       \/ Returns(r) /\ UNCHANGED <<ses, text>>
    /\ UNCHANGED <<dir, opening, job, audio, proc, bills, faults>>
\* Only of a session that was cancelled is the job deleted: another may still need it.
Check(r) ==
    /\ req[r].pc = "check"
    /\ IF ses.status = "canceled" THEN Go(r, "purge") ELSE Returns(r)
    /\ UNCHANGED <<ses, dir, opening, job, audio, text, proc, bills, faults>>

\* The job is deleted at Soniox; only then its number is cleared, whatever the row holds.
Purge(r) ==
    /\ req[r].pc = "purge"
    /\ \/ job' = [job EXCEPT ![req[r].job] = "gone"] /\ Go(r, "clear")
       \/ Returns(r) /\ UNCHANGED job
    /\ UNCHANGED <<ses, dir, opening, audio, text, proc, bills, faults>>
Clear(r) ==
    /\ req[r].pc = "clear" /\ Returns(r)
    /\ ses' = [ses EXCEPT !.job = 0]
    /\ UNCHANGED <<dir, opening, job, audio, text, proc, bills, faults>>

----------------------------------------------------------------------------
\* The user's cancel reads the row, marks it, and cleans up what it read.
Ask(r) ==
    /\ req[r].pc = "idle" /\ Active
    /\ req' = [req EXCEPT ![r] = [pc |-> "cancel", job |-> ses.job]]
    /\ UNCHANGED <<ses, dir, opening, job, audio, text, proc, bills, faults>>
Cancel(r) ==
    /\ req[r].pc = "cancel" /\ Go(r, "wipe")
    /\ IF Settable THEN To("canceled") ELSE UNCHANGED ses
    /\ UNCHANGED <<dir, opening, job, audio, text, proc, bills, faults>>
Wipe(r) ==
    /\ req[r].pc = "wipe" /\ Wiped
    /\ IF req[r].job # 0 THEN Go(r, "purge") ELSE Returns(r)
    /\ UNCHANGED <<ses, opening, job, audio, text, proc, bills, faults>>

\* The maintenance fails an upload that stands still, unless its job can be saved.
Salvageable ==
    /\ ses.status \in {"transcribing", "finalizing"} /\ ses.job # 0
    /\ job[ses.job] # "error"
Expire(r) ==
    /\ req[r].pc = "idle" /\ Active /\ ~Salvageable
    /\ To("failed") /\ req' = [req EXCEPT ![r] = [pc |-> "wipe", job |-> 0]]
    /\ MayDelete(ses.job) /\ UNCHANGED <<dir, opening, audio, text, proc, bills, faults>>
\* Sweeps of sessions that are over: the job and its number, and the reservation.
SweepJob(r) ==
    /\ req[r].pc = "idle" /\ ses.status \in Over /\ ses.job # 0
    /\ req' = [req EXCEPT ![r] = [pc |-> "purge", job |-> ses.job]]
    /\ UNCHANGED <<ses, dir, opening, job, audio, text, proc, bills, faults>>
SweepMinutes(r) ==
    /\ req[r].pc = "idle" /\ ses.status \in Over /\ ses.reserved
    /\ Go(r, "settle")
    /\ UNCHANGED <<ses, dir, opening, job, audio, text, proc, bills, faults>>
Settle(r) ==
    /\ req[r].pc = "settle" /\ Returns(r)
    /\ Unreserve
    /\ UNCHANGED <<dir, opening, job, audio, text, proc, bills, faults>>

\* The one process of the program ends, and what its handlers held with it.
Crash ==
    /\ Fault /\ opening' = 0
    /\ proc' = [a \in Attempts |-> "idle"] /\ req' = [r \in Requests |-> Quiet]
    /\ UNCHANGED <<ses, dir, job, audio, text, bills>>

----------------------------------------------------------------------------
Processor(a) ==
    \/ Begin(a) \/ Transcode(a) \/ Stage(a) \/ Publish(a) \/ PublishFails(a) \/ Readback(a)
    \/ TopUp(a) \/ Send(a) \/ Create(a) \/ Record(a) \/ Halt(a) \/ Fail(a) \/ Release(a)
Finish(r) ==
    \/ Claim(r) \/ Fetch(r) \/ FetchFails(r) \/ Commit(r) \/ CommitFails(r)
    \/ CommitReadback(r) \/ Check(r) \/ Purge(r) \/ Clear(r)
User(r) == Look(r) \/ JobError(r) \/ Ask(r) \/ Cancel(r) \/ Wipe(r) \/ Finish(r)
Timer(r) ==
    \/ Look(r) \/ Expire(r) \/ Wipe(r) \/ SweepJob(r) \/ SweepMinutes(r) \/ Settle(r) \/ Finish(r)

Next ==
    \/ Start \/ Open \/ OpenFails \/ Chunks \/ Complete \/ CloseSession
    \/ \E a \in Attempts : Processor(a) \/ Remote(a)
    \/ \E r \in Users : User(r)
    \/ \E r \in Timers : Timer(r)
    \/ Crash
Spec == Init /\ [][Next]_vars

----------------------------------------------------------------------------
Statuses == Over \cup {"none", "uploading", "transcoding", "sending", "transcribing", "finalizing"}
SesType == [status : Statuses, attempt : 0..MaxAttempts, job : 0..MaxAttempts, recording : 0..Own,
            transcript : Requests \cup {NoOne}, closed : BOOLEAN, reserved : BOOLEAN]
ProcType == {"idle", "begin", "transcode", "stage", "publish", "readback", "topUp",
             "send", "create", "record", "halt", "fail", "release"}
Places == {"idle", "claim", "error", "fetch", "commit", "readback", "check",
           "purge", "clear", "cancel", "wipe", "settle"}
ReqType == [pc : Places, job : 0..MaxAttempts]
TypeOK ==
    /\ ses \in SesType
    /\ dir \in [chunks : {"none", "some", "all"}, mp3 : BOOLEAN] /\ opening \in 0..MaxAttempts
    /\ job \in [Attempts -> {"none", "running", "done", "error", "gone"}]
    /\ audio \in [Attempts -> {"none", "reserved", "active", "replaced", "deleted"}]
    /\ text \subseteq Requests
    /\ proc \in [Attempts -> ProcType] /\ req \in [Requests -> ReqType]
    /\ bills \in [upload : Nat, own : Nat] /\ faults \in 0..MaxFaults

\* Each of the two ends of a session charges it at most once, however many requests, timers and
\* lost acknowledgements drive it: the upload's exactly when it completes, which closes it, and
\* the session's own when it closes it (sessionFinalization.ts 424-480, asyncTranscribeFinalize.ts
\* 169-206).  That the first of the two excludes the other is not so (README, sections 9 and 11).
EndsBilledOnce ==
    /\ bills.upload = (IF ses.status = "completed" THEN 1 ELSE 0)
    /\ bills.own <= 1 /\ (bills.own = 1 => ses.closed)
    /\ ses.status = "completed" => ses.closed

\* What a session names is there: neither a rollback after a lost acknowledgement nor a second
\* attempt deletes its recording or its transcript, which is there in a completed session
\* (asyncUploadProcessor.ts 276-345, asyncTranscribeFinalize.ts 214-273).
PublishedKept ==
    /\ ses.recording \in Attempts => audio[ses.recording] = "active"
    /\ ses.transcript # NoOne => ses.transcript \in text
    /\ ses.status = "completed" => ses.transcript # NoOne

\* An end is final: only a new start leaves a failed or cancelled upload, nothing a completed
\* one, nor does anything charge its session any more, and no processor replaces the recording of a session that was finalized meanwhile
\* (asyncUploadProcessor.ts 81-120, 276-299).
EndIsFinal ==
    /\ ses.status = "completed" => ses'.status = "completed" /\ bills' = bills
    /\ ses.status \in Over /\ ses'.status # ses.status => ses'.attempt > ses.attempt
    /\ ses.closed => ses'.recording = ses.recording
FinalStays == [][EndIsFinal]_vars

\* A processor changes no status any more once its attempt was cancelled or failed: it finds
\* that and leaves (async-upload/route.ts 5-6, asyncUploadProcessor.ts 85-86).
StaleLeaves == [][\A a \in 1..(ses.attempt - 1) : proc'[a] # proc[a] => ses'.status = ses.status]_vars
=============================================================================

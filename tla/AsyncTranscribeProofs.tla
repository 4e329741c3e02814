------------------------ MODULE AsyncTranscribeProofs ------------------------
(***************************************************************************)
(* Proofs about AsyncTranscribe for every number of attempts, of requests   *)
(* and timers, and of crashes, failed statements and lost acknowledgements. *)
(***************************************************************************)
EXTENDS AsyncTranscribe, TLAPS

\* An attempt that has not been completed has neither a processor nor a recording.
NotStarted(a) == a > ses.attempt \/ (a = ses.attempt /\ ses.status = "uploading")
Fresh ==
    \A a \in Attempts :
        NotStarted(a) => proc[a] = "idle" /\ audio[a] = "none" /\ ses.recording # a
\* Until it publishes, a processor's recording is not the session's.
Ahead ==
    \A a \in Attempts :
        proc[a] \in {"begin", "transcode", "stage", "publish"} => ses.recording # a
RecordingKept == ses.recording \in Attempts => audio[ses.recording] = "active"
RecordingInv == Fresh /\ Ahead /\ RecordingKept

\* A transcript is that of a completed session, and whoever committed it is past the place
\* where a text is taken back.
TranscriptInv ==
    /\ \A r \in Requests : req[r].pc = "commit" => r \in text
    /\ ses.status = "completed" <=> ses.transcript # NoOne
    /\ ses.transcript # NoOne =>
           ses.transcript \in text /\ req[ses.transcript].pc \notin {"fetch", "commit"}

\* The inductive invariant.
UploadInv == TypeOK /\ EndsBilledOnce /\ RecordingInv /\ TranscriptInv

\* The first upload has done nothing.
LEMMA InitHolds == Init => UploadInv
  BY AsyncAssumption
  DEF Init, UploadInv, TypeOK, Statuses, SesType, ProcType, Places, ReqType, EndsBilledOnce, RecordingInv,
      Fresh, NotStarted, Ahead, RecordingKept, TranscriptInv, Empty, Quiet, Over, NoOne, Own, Requests, Attempts

\* No request has the name that stands for none.
LEMMA NoOneElse == NoOne \notin Requests
  BY AsyncAssumption DEF NoOne, Requests

\* The fields of the row have their types.
LEMMA SesFields ==
    ASSUME TypeOK
    PROVE  /\ ses.status \in Statuses /\ ses.attempt \in 0..MaxAttempts
           /\ ses.job \in 0..MaxAttempts /\ ses.recording \in 0..Own
           /\ ses.transcript \in Requests \cup {NoOne}
           /\ ses.closed \in BOOLEAN /\ ses.reserved \in BOOLEAN
  BY DEF TypeOK, SesType

\* A status is written, and nothing else.
LEMMA ToFacts ==
    ASSUME TypeOK, NEW s \in Statuses, To(s)
    PROVE  /\ ses' \in SesType /\ ses'.status = s
           /\ ses'.attempt = ses.attempt /\ ses'.job = ses.job
           /\ ses'.recording = ses.recording /\ ses'.transcript = ses.transcript
           /\ ses'.closed = ses.closed /\ ses'.reserved = ses.reserved
  BY DEF TypeOK, SesType, To

\* A failed init marks the row and drops its reservation, and nothing else.
LEMMA GiveUpFacts ==
    ASSUME TypeOK, GiveUp
    PROVE  /\ ses' \in SesType /\ ses'.status = "failed"
           /\ ses'.attempt = ses.attempt /\ ses'.job = ses.job
           /\ ses'.recording = ses.recording /\ ses'.transcript = ses.transcript
           /\ ses'.closed = ses.closed
  BY DEF TypeOK, SesType, Statuses, Over, GiveUp

\* A raised reservation leaves the other fields.
LEMMA ReserveFacts ==
    ASSUME TypeOK, Reserve
    PROVE  /\ ses' \in SesType /\ ses'.status = ses.status
           /\ ses'.attempt = ses.attempt /\ ses'.job = ses.job
           /\ ses'.recording = ses.recording /\ ses'.transcript = ses.transcript
           /\ ses'.closed = ses.closed
  BY DEF TypeOK, SesType, Reserve

\* So does a released one.
LEMMA UnreserveFacts ==
    ASSUME TypeOK, Unreserve
    PROVE  /\ ses' \in SesType /\ ses'.status = ses.status
           /\ ses'.attempt = ses.attempt /\ ses'.job = ses.job
           /\ ses'.recording = ses.recording /\ ses'.transcript = ses.transcript
           /\ ses'.closed = ses.closed
  BY DEF TypeOK, SesType, Unreserve

\* A recorded job leaves the files that the row names.
LEMMA NamesFacts ==
    ASSUME TypeOK, NEW a \in Attempts, Names(a)
    PROVE  /\ ses' \in SesType /\ ses'.status = "transcribing" /\ ses'.job = a
           /\ ses'.attempt = ses.attempt
           /\ ses'.recording = ses.recording /\ ses'.transcript = ses.transcript
           /\ ses'.closed = ses.closed
  BY AsyncAssumption, a \in 0..MaxAttempts DEF TypeOK, SesType, Statuses, Attempts, Names

\* A publication names the recording, and replaces no third one.
LEMMA PublishedFacts ==
    ASSUME TypeOK, NEW a \in Attempts, Published(a)
    PROVE  /\ ses' \in SesType /\ ses'.status = "sending" /\ ses'.recording = a
           /\ ses'.attempt = ses.attempt /\ ses'.job = ses.job
           /\ ses'.transcript = ses.transcript
           /\ ses'.closed = ses.closed /\ ses'.reserved = ses.reserved
           /\ audio' \in [Attempts -> {"none", "reserved", "active", "replaced", "deleted"}]
           /\ audio'[a] = "active"
           /\ \A b \in Attempts \ {a, ses.recording} : audio'[b] = audio[b]
<1>1. a \in 0..Own
  BY AsyncAssumption DEF Attempts, Own
<1>2. ses' = [ses EXCEPT !.status = "sending", !.recording = a]
  BY DEF Published
<1>3. /\ ses' \in SesType /\ ses'.status = "sending" /\ ses'.recording = a
      /\ ses'.attempt = ses.attempt /\ ses'.job = ses.job
      /\ ses'.transcript = ses.transcript
      /\ ses'.closed = ses.closed /\ ses'.reserved = ses.reserved
  BY <1>1, <1>2 DEF TypeOK, SesType, Statuses
<1>4. audio' = [b \in Attempts |-> IF b = a THEN "active"
                                   ELSE IF b = ses.recording THEN "replaced" ELSE audio[b]]
  BY DEF Published
<1>5. /\ audio' \in [Attempts -> {"none", "reserved", "active", "replaced", "deleted"}]
      /\ audio'[a] = "active"
      /\ \A b \in Attempts \ {a, ses.recording} : audio'[b] = audio[b]
  BY <1>4 DEF TypeOK
<1> QED
  BY <1>3, <1>5

\* The end of a transcription completes, charges and names the transcript.
LEMMA CommitsFacts ==
    ASSUME TypeOK, NEW r \in Requests, Commits(r)
    PROVE  /\ ses' \in SesType /\ ses'.status = "completed" /\ ses'.transcript = r
           /\ ses'.attempt = ses.attempt /\ ses'.job = ses.job
           /\ ses'.recording = ses.recording /\ ses'.closed = TRUE /\ ses'.reserved = FALSE
           /\ bills' = [bills EXCEPT !.upload = @ + 1]
           /\ bills'.upload = bills.upload + 1 /\ bills'.own = bills.own
  BY DEF TypeOK, SesType, Statuses, Over, Commits

\* A processor moves alone.
LEMMA StepFacts ==
    ASSUME TypeOK, NEW a \in Attempts, NEW p \in ProcType, Step(a, p)
    PROVE  /\ proc' \in [Attempts -> ProcType] /\ proc'[a] = p
           /\ \A b \in Attempts \ {a} : proc'[b] = proc[b]
  BY DEF TypeOK, Step

\* A request moves alone, and keeps the job it read.
LEMMA GoFacts ==
    ASSUME TypeOK, NEW r \in Requests, NEW p \in Places, Go(r, p)
    PROVE  /\ req' \in [Requests -> ReqType]
           /\ req'[r].pc = p /\ req'[r].job = req[r].job
           /\ \A q \in Requests \ {r} : req'[q] = req[q]
  BY DEF TypeOK, ReqType, Go

\* A request that returns holds nothing, and disturbs no other.
LEMMA ReturnsFacts ==
    ASSUME TypeOK, NEW r \in Requests, Returns(r)
    PROVE  /\ req' \in [Requests -> ReqType] /\ req'[r] = Quiet
           /\ \A q \in Requests \ {r} : req'[q] = req[q]
  BY AsyncAssumption DEF TypeOK, ReqType, Places, Returns, Quiet

\* A step keeps the types.
LEMMA TypeStep ==
    ASSUME TypeOK, [Next]_vars
    PROVE  TypeOK'
<1>1. CASE Start
  <2>1. ses.attempt + 1 \in 0..MaxAttempts
    BY <1>1, SesFields, AsyncAssumption DEF Start
  <2>2. ses' = [ses EXCEPT !.status = "uploading", !.attempt = @ + 1, !.reserved = TRUE]
    BY <1>1 DEF Start
  <2>3. ses' \in SesType
    BY <2>1, <2>2 DEF TypeOK, SesType, Statuses
  <2> QED
    BY <1>1, <2>1, <2>3 DEF Start, TypeOK
<1>2. CASE Open
  <2>1. PICK chunks \in {"some", dir.chunks} \ {"none"} : dir' = [dir EXCEPT !.chunks = chunks]
    BY <1>2 DEF Open
  <2>2. dir' \in [chunks : {"none", "some", "all"}, mp3 : BOOLEAN]
    BY <2>1 DEF TypeOK
  <2> QED
    BY <1>2, <2>2, AsyncAssumption DEF Open, TypeOK
<1>3. CASE OpenFails
  BY <1>3, AsyncAssumption, SesFields, GiveUpFacts DEF OpenFails, Fault, TypeOK, Statuses,
      ProcType, Places, ReqType, Attempts, Over
<1>4. CASE Chunks
  BY <1>4, AsyncAssumption, SesFields DEF Chunks, TypeOK, Statuses, ProcType, Places, ReqType,
      Attempts, Over
<1>5. CASE Complete
  BY <1>5, AsyncAssumption, SesFields, ToFacts, StepFacts DEF Complete, Step, TypeOK, Statuses,
      ProcType, Places, ReqType, Attempts, Over
<1>6. CASE CloseSession
  <2>1. PICK recording \in IF ses.recording = 0 THEN {0, Own} ELSE {ses.recording} :
          ses' = [ses EXCEPT !.closed = TRUE, !.recording = recording]
    BY <1>6 DEF CloseSession
  <2>2. recording \in 0..Own
    BY <2>1, SesFields, AsyncAssumption DEF Own
  <2>3. ses' \in SesType
    BY <2>1, <2>2 DEF TypeOK, SesType
  <2> QED
    BY <1>6, <2>3 DEF CloseSession, TypeOK
<1>7. CASE Crash
  BY <1>7, AsyncAssumption, SesFields DEF Crash, Fault, Quiet, TypeOK, Statuses, ProcType, Places,
      ReqType, Attempts, Over
<1>8. ASSUME NEW a \in Attempts, Processor(a) \/ Remote(a) PROVE TypeOK'
  <2>1. CASE Begin(a)
    BY <2>1, AsyncAssumption, SesFields, ToFacts, StepFacts DEF Begin, Active, Settable, Over,
        TypeOK, Statuses, ProcType, Places, ReqType, Attempts
  <2>2. CASE Transcode(a)
    BY <2>2, AsyncAssumption, SesFields, StepFacts DEF Transcode, TypeOK, Statuses, ProcType,
        Places, ReqType, Attempts, Over
  <2>3. CASE Stage(a)
    BY <2>3, AsyncAssumption, SesFields, StepFacts DEF Stage, TypeOK, Statuses, ProcType, Places,
        ReqType, Attempts, Over
  <2>4. CASE Publish(a)
    BY <2>4, AsyncAssumption, SesFields, StepFacts, PublishedFacts DEF Publish, Active, StillOpen,
        Rollback, Over, TypeOK, Statuses, ProcType, Places, ReqType, Attempts
  <2>5. CASE PublishFails(a)
    BY <2>5, AsyncAssumption, SesFields, StepFacts, PublishedFacts DEF PublishFails, Active,
        Fault, StillOpen, Over, TypeOK, Statuses, ProcType, Places, ReqType, Attempts
  <2>6. CASE Readback(a)
    BY <2>6, AsyncAssumption, SesFields, StepFacts DEF Readback, Rollback, NotPublished, TypeOK,
        Statuses, ProcType, Places, ReqType, Attempts, Over
  <2>7. CASE TopUp(a)
    BY <2>7, AsyncAssumption, SesFields, ReserveFacts, StepFacts DEF TopUp, TypeOK, Statuses,
        ProcType, Places, ReqType, Attempts, Over
  <2>8. CASE Send(a)
    BY <2>8, AsyncAssumption, SesFields, ToFacts, StepFacts DEF Send, Active, Settable, Over,
        TypeOK, Statuses, ProcType, Places, ReqType, Attempts
  <2>9. CASE Create(a)
    BY <2>9, AsyncAssumption, SesFields, StepFacts DEF Create, TypeOK, Statuses, ProcType, Places,
        ReqType, Attempts, Over
  <2>10. CASE Record(a)
    BY <2>10, AsyncAssumption, SesFields, NamesFacts, StepFacts DEF Record, Active, Settable,
        Over, TypeOK, Statuses, ProcType, Places, ReqType, Attempts
  <2>11. CASE Halt(a)
    BY <2>11, AsyncAssumption, SesFields, StepFacts DEF Halt, Wiped, Empty, TypeOK, Statuses,
        ProcType, Places, ReqType, Attempts, Over
  <2>12. CASE Fail(a)
    BY <2>12, AsyncAssumption, SesFields, ToFacts, StepFacts DEF Fail, Active, Settable, Over,
        TypeOK, Statuses, ProcType, Places, ReqType, Attempts
  <2>13. CASE Release(a)
    BY <2>13, AsyncAssumption, SesFields, UnreserveFacts, StepFacts DEF Release, TypeOK, Statuses,
        ProcType, Places, ReqType, Attempts, Over
  <2>14. CASE Remote(a)
    BY <2>14, AsyncAssumption, SesFields DEF Remote, TypeOK, Statuses, ProcType, Places, ReqType,
        Attempts, Over
  <2> QED
    BY <1>8, <2>1, <2>2, <2>3, <2>4, <2>5, <2>6, <2>7, <2>8, <2>9, <2>10, <2>11, <2>12,
      <2>13, <2>14 DEF Processor
<1>9. ASSUME NEW r \in Requests, User(r) \/ Timer(r) PROVE TypeOK'
  <2>1. CASE Look(r)
    <3>1. PICK pc \in {"claim", "error"} : req' = [req EXCEPT ![r] = [pc |-> pc, job |-> ses.job]]
      BY <2>1 DEF Look
    <3>2. [pc |-> pc, job |-> ses.job] \in ReqType
      BY <3>1, SesFields DEF ReqType, Places
    <3> QED
      BY <2>1, <3>1, <3>2 DEF Look, TypeOK
  <2>2. CASE JobError(r)
    BY <2>2, AsyncAssumption, SesFields, ToFacts, ReturnsFacts DEF JobError, MayDelete, Quiet,
        TypeOK, Statuses, ProcType, Places, ReqType, Attempts, Over
  <2>3. CASE Ask(r)
    BY <2>3, AsyncAssumption, SesFields DEF Ask, Active, Over, TypeOK, Statuses, ProcType, Places,
        ReqType, Attempts
  <2>4. CASE Cancel(r)
    BY <2>4, AsyncAssumption, SesFields, ToFacts, GoFacts DEF Cancel, Active, Settable, Over,
        TypeOK, Statuses, ProcType, Places, ReqType, Attempts
  <2>5. CASE Wipe(r)
    BY <2>5, AsyncAssumption, SesFields, GoFacts, ReturnsFacts DEF Wipe, Wiped, Empty, Quiet,
        TypeOK, Statuses, ProcType, Places, ReqType, Attempts, Over
  <2>6. CASE Expire(r)
    <3>1. [pc |-> "wipe", job |-> 0] \in ReqType
      BY AsyncAssumption DEF ReqType, Places
    <3>2. ses' \in SesType
      BY <2>6, ToFacts DEF Expire, Statuses, Over
    <3>3. job' \in [Attempts -> {"none", "running", "done", "error", "gone"}]
      BY <2>6 DEF Expire, MayDelete, TypeOK
    <3> QED
      BY <2>6, <3>1, <3>2, <3>3 DEF Expire, TypeOK
  <2>7. CASE SweepJob(r)
    BY <2>7, AsyncAssumption, SesFields DEF SweepJob, Over, TypeOK, Statuses, ProcType, Places,
        ReqType, Attempts
  <2>8. CASE SweepMinutes(r)
    BY <2>8, AsyncAssumption, SesFields, GoFacts DEF SweepMinutes, Over, TypeOK, Statuses,
        ProcType, Places, ReqType, Attempts
  <2>9. CASE Settle(r)
    BY <2>9, AsyncAssumption, SesFields, UnreserveFacts, ReturnsFacts DEF Settle, Quiet, TypeOK,
        Statuses, ProcType, Places, ReqType, Attempts, Over
  <2>10. CASE Claim(r)
    BY <2>10, AsyncAssumption, SesFields, ToFacts, GoFacts, ReturnsFacts DEF Claim, Quiet, TypeOK,
        Statuses, ProcType, Places, ReqType, Attempts, Over
  <2>11. CASE Fetch(r)
    BY <2>11, AsyncAssumption, SesFields, GoFacts DEF Fetch, TypeOK, Statuses, ProcType, Places,
        ReqType, Attempts, Over
  <2>12. CASE FetchFails(r)
    BY <2>12, AsyncAssumption, SesFields, ToFacts, ReturnsFacts DEF FetchFails, Quiet, TypeOK,
        Statuses, ProcType, Places, ReqType, Attempts, Over
  <2>13. CASE Commit(r)
    <3>1. Commits(r) => ses' \in SesType /\ bills' = [bills EXCEPT !.upload = @ + 1]
      BY CommitsFacts
    <3>2. Go(r, "purge") \/ Go(r, "check")
      BY <2>13 DEF Commit
    <3>3. req' \in [Requests -> ReqType]
      BY <3>2, GoFacts DEF Places
    <3> QED
      BY <2>13, <3>1, <3>3 DEF Commit, TypeOK
  <2>14. CASE CommitFails(r)
    <3>1. Commits(r) => ses' \in SesType /\ bills' = [bills EXCEPT !.upload = @ + 1]
      BY CommitsFacts
    <3>2. req' \in [Requests -> ReqType]
      BY <2>14, GoFacts DEF CommitFails, Places
    <3>3. faults' \in 0..MaxFaults
      BY <2>14, AsyncAssumption DEF CommitFails, Fault, TypeOK
    <3> QED
      BY <2>14, <3>1, <3>2, <3>3 DEF CommitFails, TypeOK
  <2>15. CASE CommitReadback(r)
    BY <2>15, AsyncAssumption, SesFields, ToFacts, GoFacts, ReturnsFacts DEF CommitReadback,
        Committable, Quiet, TypeOK, Statuses, ProcType, Places, ReqType, Attempts, Over
  <2>16. CASE Check(r)
    BY <2>16, AsyncAssumption, SesFields, GoFacts, ReturnsFacts DEF Check, Quiet, TypeOK,
        Statuses, ProcType, Places, ReqType, Attempts, Over
  <2>17. CASE Purge(r)
    BY <2>17, AsyncAssumption, SesFields, GoFacts, ReturnsFacts DEF Purge, Quiet, TypeOK,
        Statuses, ProcType, Places, ReqType, Attempts, Over
  <2>18. CASE Clear(r)
    <3>1. ses' = [ses EXCEPT !.job = 0] /\ Returns(r)
      BY <2>18 DEF Clear
    <3>2. ses' \in SesType
      BY <3>1, AsyncAssumption DEF TypeOK, SesType
    <3>3. req' \in [Requests -> ReqType]
      BY <3>1, ReturnsFacts
    <3> QED
      BY <2>18, <3>2, <3>3 DEF Clear, TypeOK
  <2> QED
    BY <1>9, <2>1, <2>2, <2>3, <2>4, <2>5, <2>6, <2>7, <2>8, <2>9, <2>10, <2>11, <2>12,
      <2>13, <2>14, <2>15, <2>16, <2>17, <2>18 DEF User, Timer, Finish
<1>10. CASE UNCHANGED vars
  BY <1>10 DEF vars, TypeOK, Statuses, ProcType, Places, ReqType, Attempts, Over
<1> QED
  BY <1>1, <1>2, <1>3, <1>4, <1>5, <1>6, <1>7, <1>8, <1>9, <1>10 DEF Next, Requests

\* The upload's charge goes with the completion, which nothing leaves, and the other with the
\* closing of the session, which happens once.
LEMMA BilledStep ==
    ASSUME TypeOK, EndsBilledOnce, [Next]_vars
    PROVE  EndsBilledOnce'
<1>1. CASE Start
  BY <1>1 DEF Start, EndsBilledOnce, Over, Statuses
<1>2. CASE Open
  BY <1>2 DEF Open, EndsBilledOnce, Over, Statuses
<1>3. CASE OpenFails
  BY <1>3, GiveUpFacts DEF OpenFails, Fault, EndsBilledOnce, Over, Statuses
<1>4. CASE Chunks
  BY <1>4 DEF Chunks, EndsBilledOnce, Over, Statuses
<1>5. CASE Complete
  BY <1>5, ToFacts DEF Complete, EndsBilledOnce, Over, Statuses, TypeOK
<1>6. CASE CloseSession
  <2>1. bills.own = 0
    BY <1>6 DEF CloseSession, EndsBilledOnce, TypeOK
  <2>2. ses'.closed = TRUE /\ ses'.status = ses.status
    BY <1>6 DEF CloseSession, TypeOK, SesType
  <2>3. bills'.upload = bills.upload /\ bills'.own \in {0, 1}
    BY <1>6, <2>1 DEF CloseSession, TypeOK
  <2> QED
    BY <2>2, <2>3, <1>6 DEF EndsBilledOnce
<1>7. CASE Crash
  BY <1>7 DEF Crash, Fault, Quiet, EndsBilledOnce, Over, Statuses
<1>8. ASSUME NEW a \in Attempts, Processor(a) \/ Remote(a) PROVE EndsBilledOnce'
  <2>1. CASE Begin(a)
    BY <2>1, ToFacts DEF Begin, Active, Settable, Over, EndsBilledOnce, Statuses
  <2>2. CASE Transcode(a)
    BY <2>2 DEF Transcode, EndsBilledOnce, Over, Statuses
  <2>3. CASE Stage(a)
    BY <2>3 DEF Stage, EndsBilledOnce, Over, Statuses, TypeOK
  <2>4. CASE Publish(a)
    BY <2>4, PublishedFacts DEF Publish, Active, StillOpen, Rollback, Over, EndsBilledOnce, Statuses,
        TypeOK
  <2>5. CASE PublishFails(a)
    BY <2>5, PublishedFacts DEF PublishFails, Active, Fault, StillOpen, Over, EndsBilledOnce,
        Statuses, TypeOK
  <2>6. CASE Readback(a)
    BY <2>6 DEF Readback, Rollback, NotPublished, EndsBilledOnce, Over, Statuses, TypeOK
  <2>7. CASE TopUp(a)
    BY <2>7, ReserveFacts DEF TopUp, EndsBilledOnce, Over, Statuses
  <2>8. CASE Send(a)
    BY <2>8, ToFacts DEF Send, Active, Settable, Over, EndsBilledOnce, Statuses
  <2>9. CASE Create(a)
    BY <2>9 DEF Create, EndsBilledOnce, Over, Statuses
  <2>10. CASE Record(a)
    BY <2>10, NamesFacts DEF Record, Active, Settable, Over, EndsBilledOnce, Statuses
  <2>11. CASE Halt(a)
    BY <2>11 DEF Halt, Wiped, Empty, EndsBilledOnce, Over, Statuses
  <2>12. CASE Fail(a)
    BY <2>12, ToFacts DEF Fail, Active, Settable, Over, EndsBilledOnce, Statuses
  <2>13. CASE Release(a)
    BY <2>13, UnreserveFacts DEF Release, EndsBilledOnce, Over, Statuses
  <2>14. CASE Remote(a)
    BY <2>14 DEF Remote, EndsBilledOnce, Over, Statuses
  <2> QED
    BY <1>8, <2>1, <2>2, <2>3, <2>4, <2>5, <2>6, <2>7, <2>8, <2>9, <2>10, <2>11, <2>12,
      <2>13, <2>14 DEF Processor
<1>9. ASSUME NEW r \in Requests, User(r) \/ Timer(r) PROVE EndsBilledOnce'
  <2>1. CASE Look(r)
    BY <2>1 DEF Look, EndsBilledOnce, Over, Statuses
  <2>2. CASE JobError(r)
    BY <2>2, ToFacts DEF JobError, MayDelete, EndsBilledOnce, Over, Statuses
  <2>3. CASE Ask(r)
    BY <2>3 DEF Ask, Active, Over, EndsBilledOnce, Statuses
  <2>4. CASE Cancel(r)
    BY <2>4, ToFacts DEF Cancel, Active, Settable, Over, EndsBilledOnce, Statuses
  <2>5. CASE Wipe(r)
    BY <2>5 DEF Wipe, Wiped, Empty, EndsBilledOnce, Over, Statuses
  <2>6. CASE Expire(r)
    BY <2>6, ToFacts DEF Expire, Active, MayDelete, Salvageable, Over, EndsBilledOnce, Statuses
  <2>7. CASE SweepJob(r)
    BY <2>7 DEF SweepJob, Over, EndsBilledOnce, Statuses
  <2>8. CASE SweepMinutes(r)
    BY <2>8 DEF SweepMinutes, Over, EndsBilledOnce, Statuses
  <2>9. CASE Settle(r)
    BY <2>9, UnreserveFacts DEF Settle, EndsBilledOnce, Over, Statuses
  <2>10. CASE Claim(r)
    BY <2>10, ToFacts DEF Claim, EndsBilledOnce, Over, Statuses
  <2>11. CASE Fetch(r)
    BY <2>11 DEF Fetch, EndsBilledOnce, Over, Statuses
  <2>12. CASE FetchFails(r)
    BY <2>12, ToFacts DEF FetchFails, EndsBilledOnce, Over, Statuses
  <2>13. CASE Commit(r)
    <3>1. Commits(r) => /\ ses'.status = "completed" /\ ses'.closed = TRUE
                        /\ bills'.upload = bills.upload + 1 /\ bills'.own = bills.own
      BY CommitsFacts
    <3> QED
      BY <2>13, <3>1 DEF Commit, Committable, EndsBilledOnce
  <2>14. CASE CommitFails(r)
    <3>1. Commits(r) => /\ ses'.status = "completed" /\ ses'.closed = TRUE
                        /\ bills'.upload = bills.upload + 1 /\ bills'.own = bills.own
      BY CommitsFacts
    <3> QED
      BY <2>14, <3>1 DEF CommitFails, Committable, EndsBilledOnce
  <2>15. CASE CommitReadback(r)
    BY <2>15, ToFacts DEF CommitReadback, Committable, EndsBilledOnce, Over, Statuses
  <2>16. CASE Check(r)
    BY <2>16 DEF Check, EndsBilledOnce, Over, Statuses
  <2>17. CASE Purge(r)
    BY <2>17 DEF Purge, EndsBilledOnce, Over, Statuses
  <2>18. CASE Clear(r)
    BY <2>18 DEF Clear, EndsBilledOnce, Over, Statuses
  <2> QED
    BY <1>9, <2>1, <2>2, <2>3, <2>4, <2>5, <2>6, <2>7, <2>8, <2>9, <2>10, <2>11, <2>12,
      <2>13, <2>14, <2>15, <2>16, <2>17, <2>18 DEF User, Timer, Finish
<1>10. CASE UNCHANGED vars
  BY <1>10 DEF vars, EndsBilledOnce, Over, Statuses
<1> QED
  BY <1>1, <1>2, <1>3, <1>4, <1>5, <1>6, <1>7, <1>8, <1>9, <1>10 DEF Next, Requests

\* A recording is deleted only while it is not the session's, and a processor publishes its own.
LEMMA RecordingStep ==
    ASSUME TypeOK, RecordingInv, [Next]_vars
    PROVE  RecordingInv'
<1>1. CASE Start
  BY <1>1, AsyncAssumption, SesFields DEF Start, RecordingInv, Fresh, NotStarted, Ahead,
      RecordingKept, Attempts, Own, Over, Statuses, ProcType
<1>2. CASE Open
  BY <1>2, AsyncAssumption, SesFields DEF Open, RecordingInv, Fresh, NotStarted, Ahead,
      RecordingKept, Attempts, Own, Over, Statuses, ProcType
<1>3. CASE OpenFails
  BY <1>3, AsyncAssumption, SesFields, GiveUpFacts DEF OpenFails, Fault, RecordingInv, Fresh,
      NotStarted, Ahead, RecordingKept, Attempts, Own, Over, Statuses, ProcType
<1>4. CASE Chunks
  BY <1>4, AsyncAssumption, SesFields DEF Chunks, RecordingInv, Fresh, NotStarted, Ahead,
      RecordingKept, Attempts, Own, Over, Statuses, ProcType
<1>5. CASE Complete
  <2>1. \A b \in Attempts : b # ses.attempt => proc'[b] = proc[b]
    BY <1>5 DEF Complete, Step, TypeOK
  <2>2. /\ ses'.status = "transcoding" /\ ses'.attempt = ses.attempt
        /\ ses'.recording = ses.recording
    BY <1>5, ToFacts DEF Complete, Statuses
  <2>3. ses.attempt \in Attempts => ses.recording # ses.attempt
    BY <1>5 DEF Complete, RecordingInv, Fresh, NotStarted
  <2> QED
    BY <1>5, <2>1, <2>2, <2>3, SesFields DEF Complete, RecordingInv, Fresh, NotStarted, Ahead,
        RecordingKept, Attempts
<1>6. CASE CloseSession
  BY <1>6, AsyncAssumption, SesFields DEF CloseSession, RecordingInv, Fresh, NotStarted, Ahead,
      RecordingKept, Attempts, Own, Over, Statuses, ProcType
<1>7. CASE Crash
  BY <1>7, AsyncAssumption, SesFields DEF Crash, Fault, Quiet, RecordingInv, Fresh, NotStarted,
      Ahead, RecordingKept, Attempts, Own, Over, Statuses, ProcType
<1>8. ASSUME NEW a \in Attempts, Processor(a) \/ Remote(a) PROVE RecordingInv'
  <2>1. CASE Begin(a)
    BY <2>1, AsyncAssumption, SesFields, ToFacts, StepFacts DEF Begin, Active, Settable, Over,
        RecordingInv, Fresh, NotStarted, Ahead, RecordingKept, Attempts, Own, Statuses, ProcType
  <2>2. CASE Transcode(a)
    BY <2>2, AsyncAssumption, SesFields, StepFacts DEF Transcode, RecordingInv, Fresh, NotStarted,
        Ahead, RecordingKept, Attempts, Own, Over, Statuses, ProcType
  <2>3. CASE Stage(a)
    BY <2>3, AsyncAssumption, SesFields, StepFacts DEF Stage, RecordingInv, Fresh, NotStarted,
        Ahead, RecordingKept, Attempts, Own, Over, Statuses, ProcType, TypeOK
  <2>4. CASE Publish(a)
    BY <2>4, AsyncAssumption, SesFields, StepFacts, PublishedFacts DEF Publish, Active, StillOpen,
        Rollback, Over, RecordingInv, Fresh, NotStarted, Ahead, RecordingKept, Attempts, Own,
        Statuses, ProcType, TypeOK
  <2>5. CASE PublishFails(a)
    BY <2>5, AsyncAssumption, SesFields, StepFacts, PublishedFacts DEF PublishFails, Active,
        Fault, StillOpen, Over, RecordingInv, Fresh, NotStarted, Ahead, RecordingKept, Attempts,
        Own, Statuses, ProcType, TypeOK
  <2>6. CASE Readback(a)
    BY <2>6, AsyncAssumption, SesFields, StepFacts DEF Readback, Rollback, NotPublished,
        RecordingInv, Fresh, NotStarted, Ahead, RecordingKept, Attempts, Own, Over, Statuses,
        ProcType, TypeOK
  <2>7. CASE TopUp(a)
    BY <2>7, AsyncAssumption, SesFields, ReserveFacts, StepFacts DEF TopUp, RecordingInv, Fresh,
        NotStarted, Ahead, RecordingKept, Attempts, Own, Over, Statuses, ProcType
  <2>8. CASE Send(a)
    BY <2>8, AsyncAssumption, SesFields, ToFacts, StepFacts DEF Send, Active, Settable, Over,
        RecordingInv, Fresh, NotStarted, Ahead, RecordingKept, Attempts, Own, Statuses, ProcType
  <2>9. CASE Create(a)
    BY <2>9, AsyncAssumption, SesFields, StepFacts DEF Create, RecordingInv, Fresh, NotStarted,
        Ahead, RecordingKept, Attempts, Own, Over, Statuses, ProcType
  <2>10. CASE Record(a)
    BY <2>10, AsyncAssumption, SesFields, NamesFacts, StepFacts DEF Record, Active, Settable,
        Over, RecordingInv, Fresh, NotStarted, Ahead, RecordingKept, Attempts, Own, Statuses,
        ProcType
  <2>11. CASE Halt(a)
    BY <2>11, AsyncAssumption, SesFields, StepFacts DEF Halt, Wiped, Empty, RecordingInv, Fresh,
        NotStarted, Ahead, RecordingKept, Attempts, Own, Over, Statuses, ProcType
  <2>12. CASE Fail(a)
    BY <2>12, AsyncAssumption, SesFields, ToFacts, StepFacts DEF Fail, Active, Settable, Over,
        RecordingInv, Fresh, NotStarted, Ahead, RecordingKept, Attempts, Own, Statuses, ProcType
  <2>13. CASE Release(a)
    BY <2>13, AsyncAssumption, SesFields, UnreserveFacts, StepFacts DEF Release, RecordingInv,
        Fresh, NotStarted, Ahead, RecordingKept, Attempts, Own, Over, Statuses, ProcType
  <2>14. CASE Remote(a)
    BY <2>14, AsyncAssumption, SesFields DEF Remote, RecordingInv, Fresh, NotStarted, Ahead,
        RecordingKept, Attempts, Own, Over, Statuses, ProcType
  <2> QED
    BY <1>8, <2>1, <2>2, <2>3, <2>4, <2>5, <2>6, <2>7, <2>8, <2>9, <2>10, <2>11, <2>12,
      <2>13, <2>14 DEF Processor
<1>9. ASSUME NEW r \in Requests, User(r) \/ Timer(r) PROVE RecordingInv'
  <2>1. CASE Look(r)
    BY <2>1, AsyncAssumption, SesFields DEF Look, RecordingInv, Fresh, NotStarted, Ahead,
        RecordingKept, Attempts, Own, Over, Statuses, ProcType
  <2>2. CASE JobError(r)
    BY <2>2, AsyncAssumption, SesFields, ToFacts DEF JobError, MayDelete, RecordingInv, Fresh,
        NotStarted, Ahead, RecordingKept, Attempts, Own, Over, Statuses, ProcType
  <2>3. CASE Ask(r)
    BY <2>3, AsyncAssumption, SesFields DEF Ask, Active, Over, RecordingInv, Fresh, NotStarted,
        Ahead, RecordingKept, Attempts, Own, Statuses, ProcType
  <2>4. CASE Cancel(r)
    BY <2>4, AsyncAssumption, SesFields, ToFacts DEF Cancel, Active, Settable, Over, RecordingInv,
        Fresh, NotStarted, Ahead, RecordingKept, Attempts, Own, Statuses, ProcType
  <2>5. CASE Wipe(r)
    BY <2>5, AsyncAssumption, SesFields DEF Wipe, Wiped, Empty, RecordingInv, Fresh, NotStarted,
        Ahead, RecordingKept, Attempts, Own, Over, Statuses, ProcType
  <2>6. CASE Expire(r)
    BY <2>6, AsyncAssumption, SesFields, ToFacts DEF Expire, Active, MayDelete, Salvageable, Over,
        RecordingInv, Fresh, NotStarted, Ahead, RecordingKept, Attempts, Own, Statuses, ProcType
  <2>7. CASE SweepJob(r)
    BY <2>7, AsyncAssumption, SesFields DEF SweepJob, Over, RecordingInv, Fresh, NotStarted,
        Ahead, RecordingKept, Attempts, Own, Statuses, ProcType
  <2>8. CASE SweepMinutes(r)
    BY <2>8, AsyncAssumption, SesFields DEF SweepMinutes, Over, RecordingInv, Fresh, NotStarted,
        Ahead, RecordingKept, Attempts, Own, Statuses, ProcType
  <2>9. CASE Settle(r)
    BY <2>9, AsyncAssumption, SesFields, UnreserveFacts DEF Settle, RecordingInv, Fresh,
        NotStarted, Ahead, RecordingKept, Attempts, Own, Over, Statuses, ProcType
  <2>10. CASE Claim(r)
    BY <2>10, AsyncAssumption, SesFields, ToFacts DEF Claim, RecordingInv, Fresh, NotStarted,
        Ahead, RecordingKept, Attempts, Own, Over, Statuses, ProcType
  <2>11. CASE Fetch(r)
    BY <2>11, AsyncAssumption, SesFields DEF Fetch, RecordingInv, Fresh, NotStarted, Ahead,
        RecordingKept, Attempts, Own, Over, Statuses, ProcType
  <2>12. CASE FetchFails(r)
    BY <2>12, AsyncAssumption, SesFields, ToFacts DEF FetchFails, RecordingInv, Fresh, NotStarted,
        Ahead, RecordingKept, Attempts, Own, Over, Statuses, ProcType
  <2>13. CASE Commit(r)
    BY <2>13, AsyncAssumption, SesFields, CommitsFacts DEF Commit, Committable, RecordingInv,
        Fresh, NotStarted, Ahead, RecordingKept, Attempts, Own, Over, Statuses, ProcType
  <2>14. CASE CommitFails(r)
    BY <2>14, AsyncAssumption, SesFields, CommitsFacts DEF CommitFails, Fault, Committable,
        RecordingInv, Fresh, NotStarted, Ahead, RecordingKept, Attempts, Own, Over, Statuses,
        ProcType
  <2>15. CASE CommitReadback(r)
    BY <2>15, AsyncAssumption, SesFields, ToFacts DEF CommitReadback, Committable, RecordingInv,
        Fresh, NotStarted, Ahead, RecordingKept, Attempts, Own, Over, Statuses, ProcType
  <2>16. CASE Check(r)
    BY <2>16, AsyncAssumption, SesFields DEF Check, RecordingInv, Fresh, NotStarted, Ahead,
        RecordingKept, Attempts, Own, Over, Statuses, ProcType
  <2>17. CASE Purge(r)
    BY <2>17, AsyncAssumption, SesFields DEF Purge, RecordingInv, Fresh, NotStarted, Ahead,
        RecordingKept, Attempts, Own, Over, Statuses, ProcType
  <2>18. CASE Clear(r)
    BY <2>18, AsyncAssumption, SesFields DEF Clear, RecordingInv, Fresh, NotStarted, Ahead,
        RecordingKept, Attempts, Own, Over, Statuses, ProcType
  <2> QED
    BY <1>9, <2>1, <2>2, <2>3, <2>4, <2>5, <2>6, <2>7, <2>8, <2>9, <2>10, <2>11, <2>12,
      <2>13, <2>14, <2>15, <2>16, <2>17, <2>18 DEF User, Timer, Finish
<1>10. CASE UNCHANGED vars
  BY <1>10 DEF vars, RecordingInv, Fresh, NotStarted, Ahead, RecordingKept, Attempts, Own, Over,
      Statuses, ProcType
<1> QED
  BY <1>1, <1>2, <1>3, <1>4, <1>5, <1>6, <1>7, <1>8, <1>9, <1>10 DEF Next, Requests

\* A transcript is taken back only by a request that has not committed it.
LEMMA TranscriptStep ==
    ASSUME TypeOK, TranscriptInv, [Next]_vars
    PROVE  TranscriptInv'
<1>1. CASE Start
  BY <1>1, NoOneElse, SesFields DEF Start, TranscriptInv, Over, Statuses, Places
<1>2. CASE Open
  BY <1>2, NoOneElse, SesFields DEF Open, TranscriptInv, Over, Statuses, Places
<1>3. CASE OpenFails
  BY <1>3, NoOneElse, SesFields, GiveUpFacts DEF OpenFails, Fault, TranscriptInv, Over, Statuses,
      Places
<1>4. CASE Chunks
  BY <1>4, NoOneElse, SesFields DEF Chunks, TranscriptInv, Over, Statuses, Places
<1>5. CASE Complete
  BY <1>5, NoOneElse, SesFields, ToFacts DEF Complete, TranscriptInv, Over, Statuses, Places,
      TypeOK
<1>6. CASE CloseSession
  BY <1>6, NoOneElse, SesFields DEF CloseSession, TranscriptInv, Over, Statuses, Places
<1>7. CASE Crash
  BY <1>7, NoOneElse, SesFields DEF Crash, Fault, Quiet, TranscriptInv, Over, Statuses, Places
<1>8. ASSUME NEW a \in Attempts, Processor(a) \/ Remote(a) PROVE TranscriptInv'
  <2>1. CASE Begin(a)
    BY <2>1, NoOneElse, SesFields, ToFacts DEF Begin, Active, Settable, Over, TranscriptInv,
        Statuses, Places
  <2>2. CASE Transcode(a)
    BY <2>2, NoOneElse, SesFields DEF Transcode, TranscriptInv, Over, Statuses, Places
  <2>3. CASE Stage(a)
    BY <2>3, NoOneElse, SesFields DEF Stage, TranscriptInv, Over, Statuses, Places, TypeOK
  <2>4. CASE Publish(a)
    BY <2>4, NoOneElse, SesFields, PublishedFacts DEF Publish, Active, StillOpen, Rollback, Over,
        TranscriptInv, Statuses, Places, TypeOK
  <2>5. CASE PublishFails(a)
    BY <2>5, NoOneElse, SesFields, PublishedFacts DEF PublishFails, Active, Fault, StillOpen,
        Over, TranscriptInv, Statuses, Places, TypeOK
  <2>6. CASE Readback(a)
    BY <2>6, NoOneElse, SesFields DEF Readback, Rollback, NotPublished, TranscriptInv, Over,
        Statuses, Places, TypeOK
  <2>7. CASE TopUp(a)
    BY <2>7, NoOneElse, SesFields, ReserveFacts DEF TopUp, TranscriptInv, Over, Statuses, Places
  <2>8. CASE Send(a)
    BY <2>8, NoOneElse, SesFields, ToFacts DEF Send, Active, Settable, Over, TranscriptInv,
        Statuses, Places
  <2>9. CASE Create(a)
    BY <2>9, NoOneElse, SesFields DEF Create, TranscriptInv, Over, Statuses, Places
  <2>10. CASE Record(a)
    BY <2>10, NoOneElse, SesFields, NamesFacts DEF Record, Active, Settable, Over, TranscriptInv,
        Statuses, Places
  <2>11. CASE Halt(a)
    BY <2>11, NoOneElse, SesFields DEF Halt, Wiped, Empty, TranscriptInv, Over, Statuses, Places
  <2>12. CASE Fail(a)
    BY <2>12, NoOneElse, SesFields, ToFacts DEF Fail, Active, Settable, Over, TranscriptInv,
        Statuses, Places
  <2>13. CASE Release(a)
    BY <2>13, NoOneElse, SesFields, UnreserveFacts DEF Release, TranscriptInv, Over, Statuses,
        Places
  <2>14. CASE Remote(a)
    BY <2>14, NoOneElse, SesFields DEF Remote, TranscriptInv, Over, Statuses, Places
  <2> QED
    BY <1>8, <2>1, <2>2, <2>3, <2>4, <2>5, <2>6, <2>7, <2>8, <2>9, <2>10, <2>11, <2>12,
      <2>13, <2>14 DEF Processor
<1>9. ASSUME NEW r \in Requests, User(r) \/ Timer(r) PROVE TranscriptInv'
  <2>1. CASE Look(r)
    <3>1. \A q \in Requests \ {r} : req'[q] = req[q]
      BY <2>1 DEF Look, TypeOK
    <3>2. req'[r].pc \in {"claim", "error"}
      BY <2>1 DEF Look, TypeOK
    <3> QED
      BY <2>1, <3>1, <3>2, NoOneElse, SesFields DEF Look, TranscriptInv
  <2>2. CASE JobError(r)
    BY <2>2, NoOneElse, SesFields, ToFacts, ReturnsFacts DEF JobError, MayDelete, Quiet,
        TranscriptInv, Over, Statuses, Places
  <2>3. CASE Ask(r)
    BY <2>3, NoOneElse, SesFields DEF Ask, Active, Over, TranscriptInv, Statuses, Places
  <2>4. CASE Cancel(r)
    BY <2>4, NoOneElse, SesFields, ToFacts, GoFacts DEF Cancel, Active, Settable, Over,
        TranscriptInv, Statuses, Places
  <2>5. CASE Wipe(r)
    BY <2>5, NoOneElse, SesFields, GoFacts, ReturnsFacts DEF Wipe, Wiped, Empty, Quiet,
        TranscriptInv, Over, Statuses, Places
  <2>6. CASE Expire(r)
    BY <2>6, NoOneElse, SesFields, ToFacts DEF Expire, Active, MayDelete, Salvageable, Over,
        TranscriptInv, Statuses, Places
  <2>7. CASE SweepJob(r)
    BY <2>7, NoOneElse, SesFields DEF SweepJob, Over, TranscriptInv, Statuses, Places
  <2>8. CASE SweepMinutes(r)
    BY <2>8, NoOneElse, SesFields, GoFacts DEF SweepMinutes, Over, TranscriptInv, Statuses, Places
  <2>9. CASE Settle(r)
    BY <2>9, NoOneElse, SesFields, UnreserveFacts, ReturnsFacts DEF Settle, Quiet, TranscriptInv,
        Over, Statuses, Places
  <2>10. CASE Claim(r)
    BY <2>10, NoOneElse, SesFields, ToFacts, GoFacts, ReturnsFacts DEF Claim, Quiet,
        TranscriptInv, Over, Statuses, Places
  <2>11. CASE Fetch(r)
    BY <2>11, NoOneElse, SesFields, GoFacts DEF Fetch, TranscriptInv, Over, Statuses, Places
  <2>12. CASE FetchFails(r)
    BY <2>12, NoOneElse, SesFields, ToFacts, ReturnsFacts DEF FetchFails, Quiet, TranscriptInv,
        Over, Statuses, Places
  <2>13. CASE Commit(r)
    <3>1. Commits(r) => ses'.status = "completed" /\ ses'.transcript = r
      BY CommitsFacts
    <3>2. \A q \in Requests \ {r} : req'[q] = req[q]
      BY <2>13, GoFacts DEF Commit, Places
    <3>3. req'[r].pc \in {"purge", "check", "readback"}
      BY <2>13, GoFacts DEF Commit, Places
    <3> QED
      BY <2>13, <3>1, <3>2, <3>3, NoOneElse, SesFields DEF Commit, Committable, TranscriptInv
  <2>14. CASE CommitFails(r)
    <3>1. Commits(r) => ses'.status = "completed" /\ ses'.transcript = r
      BY CommitsFacts
    <3>2. \A q \in Requests \ {r} : req'[q] = req[q]
      BY <2>14, GoFacts DEF CommitFails, Places
    <3>3. req'[r].pc \in {"purge", "check", "readback"}
      BY <2>14, GoFacts DEF CommitFails, Places
    <3> QED
      BY <2>14, <3>1, <3>2, <3>3, NoOneElse, SesFields DEF CommitFails, Committable, TranscriptInv
  <2>15. CASE CommitReadback(r)
    BY <2>15, NoOneElse, SesFields, ToFacts, GoFacts, ReturnsFacts DEF CommitReadback,
        Committable, Quiet, TranscriptInv, Over, Statuses, Places
  <2>16. CASE Check(r)
    BY <2>16, NoOneElse, SesFields, GoFacts, ReturnsFacts DEF Check, Quiet, TranscriptInv, Over,
        Statuses, Places
  <2>17. CASE Purge(r)
    BY <2>17, NoOneElse, SesFields, GoFacts, ReturnsFacts DEF Purge, Quiet, TranscriptInv, Over,
        Statuses, Places
  <2>18. CASE Clear(r)
    BY <2>18, NoOneElse, SesFields, ReturnsFacts DEF Clear, Quiet, TranscriptInv, Over, Statuses,
        Places
  <2> QED
    BY <1>9, <2>1, <2>2, <2>3, <2>4, <2>5, <2>6, <2>7, <2>8, <2>9, <2>10, <2>11, <2>12,
      <2>13, <2>14, <2>15, <2>16, <2>17, <2>18 DEF User, Timer, Finish
<1>10. CASE UNCHANGED vars
  BY <1>10 DEF vars, TranscriptInv, Over, Statuses, Places
<1> QED
  BY <1>1, <1>2, <1>3, <1>4, <1>5, <1>6, <1>7, <1>8, <1>9, <1>10 DEF Next, Requests

\* An end is left by a new start alone.
LEMMA FinalStep ==
    ASSUME TypeOK, EndsBilledOnce, [Next]_vars
    PROVE  EndIsFinal
<1>1. CASE Start
  BY <1>1, SesFields DEF Start, EndIsFinal, Over, Statuses
<1>2. CASE Open
  BY <1>2, SesFields DEF Open, EndIsFinal, Over, Statuses
<1>3. CASE OpenFails
  BY <1>3, SesFields, GiveUpFacts DEF OpenFails, Fault, EndIsFinal, Over, Statuses
<1>4. CASE Chunks
  BY <1>4, SesFields DEF Chunks, EndIsFinal, Over, Statuses
<1>5. CASE Complete
  BY <1>5, SesFields, ToFacts DEF Complete, EndIsFinal, Over, Statuses, TypeOK
<1>6. CASE CloseSession
  BY <1>6, SesFields DEF CloseSession, EndsBilledOnce, EndIsFinal, Over, Statuses
<1>7. CASE Crash
  BY <1>7, SesFields DEF Crash, Fault, Quiet, EndIsFinal, Over, Statuses
<1>8. ASSUME NEW a \in Attempts, Processor(a) \/ Remote(a) PROVE EndIsFinal
  <2>1. CASE Begin(a)
    BY <2>1, SesFields, ToFacts DEF Begin, Active, Settable, Over, EndIsFinal, Statuses
  <2>2. CASE Transcode(a)
    BY <2>2, SesFields DEF Transcode, EndIsFinal, Over, Statuses
  <2>3. CASE Stage(a)
    BY <2>3, SesFields DEF Stage, EndIsFinal, Over, Statuses, TypeOK
  <2>4. CASE Publish(a)
    BY <2>4, SesFields, PublishedFacts DEF Publish, Active, StillOpen, Rollback, Over, EndIsFinal,
        Statuses, TypeOK
  <2>5. CASE PublishFails(a)
    BY <2>5, SesFields, PublishedFacts DEF PublishFails, Active, Fault, StillOpen, Over,
        EndIsFinal, Statuses, TypeOK
  <2>6. CASE Readback(a)
    BY <2>6, SesFields DEF Readback, Rollback, NotPublished, EndIsFinal, Over, Statuses, TypeOK
  <2>7. CASE TopUp(a)
    BY <2>7, SesFields, ReserveFacts DEF TopUp, EndIsFinal, Over, Statuses
  <2>8. CASE Send(a)
    BY <2>8, SesFields, ToFacts DEF Send, Active, Settable, Over, EndIsFinal, Statuses
  <2>9. CASE Create(a)
    BY <2>9, SesFields DEF Create, EndIsFinal, Over, Statuses
  <2>10. CASE Record(a)
    BY <2>10, SesFields, NamesFacts DEF Record, Active, Settable, Over, EndIsFinal, Statuses
  <2>11. CASE Halt(a)
    BY <2>11, SesFields DEF Halt, Wiped, Empty, EndIsFinal, Over, Statuses
  <2>12. CASE Fail(a)
    BY <2>12, SesFields, ToFacts DEF Fail, Active, Settable, Over, EndIsFinal, Statuses
  <2>13. CASE Release(a)
    BY <2>13, SesFields, UnreserveFacts DEF Release, EndIsFinal, Over, Statuses
  <2>14. CASE Remote(a)
    BY <2>14, SesFields DEF Remote, EndIsFinal, Over, Statuses
  <2> QED
    BY <1>8, <2>1, <2>2, <2>3, <2>4, <2>5, <2>6, <2>7, <2>8, <2>9, <2>10, <2>11, <2>12,
      <2>13, <2>14 DEF Processor
<1>9. ASSUME NEW r \in Requests, User(r) \/ Timer(r) PROVE EndIsFinal
  <2>1. CASE Look(r)
    BY <2>1, SesFields DEF Look, EndIsFinal, Over, Statuses
  <2>2. CASE JobError(r)
    BY <2>2, SesFields, ToFacts DEF JobError, MayDelete, EndIsFinal, Over, Statuses
  <2>3. CASE Ask(r)
    BY <2>3, SesFields DEF Ask, Active, Over, EndIsFinal, Statuses
  <2>4. CASE Cancel(r)
    BY <2>4, SesFields, ToFacts DEF Cancel, Active, Settable, Over, EndIsFinal, Statuses
  <2>5. CASE Wipe(r)
    BY <2>5, SesFields DEF Wipe, Wiped, Empty, EndIsFinal, Over, Statuses
  <2>6. CASE Expire(r)
    BY <2>6, SesFields, ToFacts DEF Expire, Active, MayDelete, Salvageable, Over, EndIsFinal,
        Statuses
  <2>7. CASE SweepJob(r)
    BY <2>7, SesFields DEF SweepJob, Over, EndIsFinal, Statuses
  <2>8. CASE SweepMinutes(r)
    BY <2>8, SesFields DEF SweepMinutes, Over, EndIsFinal, Statuses
  <2>9. CASE Settle(r)
    BY <2>9, SesFields, UnreserveFacts DEF Settle, EndIsFinal, Over, Statuses
  <2>10. CASE Claim(r)
    BY <2>10, SesFields, ToFacts DEF Claim, EndIsFinal, Over, Statuses
  <2>11. CASE Fetch(r)
    BY <2>11, SesFields DEF Fetch, EndIsFinal, Over, Statuses
  <2>12. CASE FetchFails(r)
    BY <2>12, SesFields, ToFacts DEF FetchFails, EndIsFinal, Over, Statuses
  <2>13. CASE Commit(r)
    BY <2>13, SesFields, CommitsFacts DEF Commit, Committable, EndIsFinal, Over, Statuses
  <2>14. CASE CommitFails(r)
    BY <2>14, SesFields, CommitsFacts DEF CommitFails, Fault, Committable, EndIsFinal, Over,
        Statuses
  <2>15. CASE CommitReadback(r)
    BY <2>15, SesFields, ToFacts DEF CommitReadback, Committable, EndIsFinal, Over, Statuses
  <2>16. CASE Check(r)
    BY <2>16, SesFields DEF Check, EndIsFinal, Over, Statuses
  <2>17. CASE Purge(r)
    BY <2>17, SesFields DEF Purge, EndIsFinal, Over, Statuses
  <2>18. CASE Clear(r)
    BY <2>18, SesFields DEF Clear, EndIsFinal, Over, Statuses
  <2> QED
    BY <1>9, <2>1, <2>2, <2>3, <2>4, <2>5, <2>6, <2>7, <2>8, <2>9, <2>10, <2>11, <2>12,
      <2>13, <2>14, <2>15, <2>16, <2>17, <2>18 DEF User, Timer, Finish
<1>10. CASE UNCHANGED vars
  BY <1>10 DEF vars, EndIsFinal, Over, Statuses
<1> QED
  BY <1>1, <1>2, <1>3, <1>4, <1>5, <1>6, <1>7, <1>8, <1>9, <1>10 DEF Next, Requests

\* Every step keeps the invariant.
LEMMA StepHolds == UploadInv /\ [Next]_vars => UploadInv'
  BY TypeStep, BilledStep, RecordingStep, TranscriptStep DEF UploadInv

\* The inductive invariant holds of every reachable state.
THEOREM UploadSafe == Spec => []UploadInv
  BY InitHolds, StepHolds, PTL DEF Spec

\* Every variable keeps its type.
THEOREM UploadTypes == Spec => []TypeOK
<1>1. UploadInv => TypeOK
  BY DEF UploadInv
<1> QED
  BY <1>1, UploadSafe, PTL

\* Each of the two ends of a session charges it at most once: the upload's exactly when it
\* completes, and the session's own, when it does, as it closes the session.
THEOREM ChargedOnce == Spec => []EndsBilledOnce
<1>1. UploadInv => EndsBilledOnce
  BY DEF UploadInv
<1> QED
  BY <1>1, UploadSafe, PTL

\* The recording and the transcript that a session names are there.
THEOREM NamedIsThere == Spec => []PublishedKept
<1>1. UploadInv => PublishedKept
  BY DEF UploadInv, RecordingInv, RecordingKept, TranscriptInv, PublishedKept
<1> QED
  BY <1>1, UploadSafe, PTL

\* An end is left by a new start alone, a completed session is charged no more, and a finalized
\* one keeps its recording.
THEOREM EndsStay == Spec => FinalStays
<1>1. UploadInv /\ [Next]_vars => [EndIsFinal]_vars
  BY FinalStep DEF UploadInv
<1> QED
  BY <1>1, UploadSafe, PTL DEF Spec, FinalStays
=============================================================================

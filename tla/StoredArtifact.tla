---------------------------- MODULE StoredArtifact ----------------------------
(***************************************************************************)
(* The artifact ledger of LectureLive, for one column of one session that   *)
(* names a stored file (its recording): the requests that stage a new file  *)
(* and publish it in the place of the old one (src/lib/sessionPersistence.ts,*)
(* src/app/api/sessions/[id]/audio/route.ts), the rows of StoredArtifact that *)
(* account for every file (src/lib/storage/storedArtifactLedger.ts), the      *)
(* cleanup of expired rows (src/lib/storage/storedArtifactCleanup.ts) and the *)
(* deletion of the session.                                                 *)
(*                                                                         *)
(* The database and the two stores, the local disk and Cloudreve, are       *)
(* changed in steps of their own: a row is reserved before its file is      *)
(* written and released after it was removed, and requests die, deletions   *)
(* fail and commits are not acknowledged in between.  Every publication     *)
(* writes a file of a name of its own, so that a publisher stands for its   *)
(* row and its files.                                                       *)
(***************************************************************************)
EXTENDS Naturals, FiniteSets

CONSTANTS
    Pubs,       \* the requests that publish a file, and their StoredArtifact rows
    First,      \* the one among them whose file is the recording at the start
    Uploads,    \* those that find Cloudreve configured
    Cleaners,   \* runs of the maintenance job
    Nobody,
    MaxFaults   \* bound: crashes, failed statements, failed deletions

ASSUME ArtifactAssumption ==
    First \in Pubs /\ Uploads \subseteq Pubs /\ Nobody \notin Pubs /\ MaxFaults \in Nat

VARIABLES
    row,        \* StoredArtifact: state, reference, chargedBytes > 0
    owner,      \* Session: the publisher whose file its path names, Nobody once deleted
    objects,    \* files that exist, as <<publisher, store>>
    pub,        \* what each publishing request is at
    clean,      \* what each cleanup is at: the row as the scan returned it
    del,        \* what the deletion of the session is at
    raced,      \* ghost: rows taken from a publisher at work, or on a reference it
                \* has changed since
    stray,      \* ghost: files a fault left that no row names
    faults

requests == <<pub, clean, del>>
ghosts == <<raced, stray>>
vars == <<row, owner, objects, requests, ghosts, faults>>

Stores == {"local", "remote"}
Places == Stores \cup {"none"}
Expirable == {"RESERVED", "ORPHANED", "CLEANING", "DELETE_PENDING"}
Charged(p) == row[p].charged
\* The row with the identityKey of the column.
Published == {p \in Pubs : row[p].state = "ACTIVE"}
AtWork(p) == pub[p].pc \notin {"idle", "over"}
Files(p) == {p} \X Stores

Resting == [pc |-> "idle", at |-> "none", expected |-> {}, previous |-> {}, seen |-> Nobody]
Go(p, pc) == pub' = [pub EXCEPT ![p].pc = pc]
Returns(p) == pub' = [pub EXCEPT ![p] = [Resting EXCEPT !.pc = "over"]]
Unscanned == [pc |-> "idle", p |-> Nobody, ref |-> "none", state |-> "none"]

----------------------------------------------------------------------------
Init ==
    /\ row = [p \in Pubs |-> IF p = First 
                                THEN [state |-> "ACTIVE", ref |-> "remote", charged |-> TRUE]
                                ELSE [state |-> "none", ref |-> "none", charged |-> FALSE]]
    /\ owner = First
    /\ objects = {<<First, "remote">>}
    /\ pub = [p \in Pubs |-> IF p = First THEN [Resting EXCEPT !.pc = "over"] ELSE Resting]
    /\ clean = [c \in Cleaners |-> Unscanned]
    /\ del = [pc |-> "idle", refs |-> [p \in Pubs |-> "none"]]
    /\ raced = {} /\ stray = {} /\ faults = 0

\* A row is put into another state, with an expiry ahead of it or with none.
Put(p, state) == row' = [row EXCEPT ![p].state = state]

\* releaseStoredArtifact: once.
Release(p, end) ==
    IF Charged(p) THEN row' = [row EXCEPT ![p].state = end, ![p].charged = FALSE]
    ELSE UNCHANGED row

\* markStoredArtifactOrphan.
MarkOrphan(p) ==
    IF Charged(p) /\ row[p].state \in {"RESERVED", "ACTIVE", "CLEANING"}
    THEN Put(p, "ORPHANED") ELSE UNCHANGED row

----------------------------------------------------------------------------
\* reserveStoredArtifact, for a request that has found the session.
Reserve(p) ==
    /\ pub[p].pc = "idle"
    /\ row' = [row EXCEPT ![p].state = "RESERVED", ![p].charged = TRUE]
    /\ pub' = [pub EXCEPT ![p] = [@ EXCEPT !.pc = "record", !.expected = Published,
                                          !.seen = owner]]
    /\ UNCHANGED <<owner, objects, clean, del, ghosts, faults>>

\* recordReservedStoredArtifactLocation, before the local file is written and after the
\* remote one: only of a row that is still reserved.
Record(p, place, pc) ==
    /\ IF row[p].state = "RESERVED"
       THEN /\ row' = [row EXCEPT ![p].ref = place]
            /\ pub' = [pub EXCEPT ![p].pc = pc, ![p].at = place]
       ELSE /\ pub' = [pub EXCEPT ![p].pc = "undo", ![p].at = place]
            /\ UNCHANGED row
    /\ UNCHANGED <<owner, objects, clean, del, ghosts, faults>>
RecordLocal(p) == pub[p].pc = "record" /\ Record(p, "local", "write")
RecordRemote(p) == pub[p].pc = "recordRemote" /\ Record(p, "remote", "removeLocal")

\* The file is written; it is uploaded where Cloudreve is configured.
WriteLocal(p) ==
    /\ pub[p].pc = "write"
    /\ objects' = objects \cup {<<p, "local">>}
    /\ Go(p, IF p \in Uploads THEN "upload" ELSE "publish")
    /\ UNCHANGED <<row, owner, clean, del, ghosts, faults>>
UploadRemote(p) ==
    /\ pub[p].pc = "upload"
    /\ objects' = objects \cup {<<p, "remote">>}
    /\ Go(p, "recordRemote")
    /\ UNCHANGED <<row, owner, clean, del, ghosts, faults>>
RemoveLocal(p) ==
    /\ pub[p].pc = "removeLocal"
    /\ objects' = objects \ {<<p, "local">>}
    /\ Go(p, "publish")
    /\ UNCHANGED <<row, owner, clean, del, ghosts, faults>>

\* Slip: the row it replaces keeps its identity.
SettleBeside(p) == Put(p, "ACTIVE")

\* settleStoredArtifactWithTx: the row it replaces becomes an orphan.
Settled(p) ==
    row' = [q \in Pubs |->
              IF q = p THEN [row[q] EXCEPT !.state = "ACTIVE"]
              ELSE IF q \in Published THEN [row[q] EXCEPT !.state = "ORPHANED"]
              ELSE row[q]]

\* Slip: a row the cleanup has claimed can be settled.
SettleableStill(p) == row[p].state \in {"RESERVED", "CLEANING"}
\* The row is the publisher's still, and the artifact it meant to replace is current.
Settleable(p) == row[p].state = "RESERVED" /\ Published = pub[p].expected

\* The publishing transaction: the session's path and the ledger together.  It is
\* acknowledged, or the acknowledgement is lost.
Commit(p) ==
    /\ pub[p].pc = "publish" /\ owner # Nobody /\ Settleable(p)
    /\ owner' = p
    /\ Settled(p)
    /\ \/ /\ pub' = [pub EXCEPT ![p].pc = "retire", ![p].previous = Published]
          /\ UNCHANGED faults
       \/ faults < MaxFaults /\ faults' = faults + 1 /\ Go(p, "readback")
    /\ UNCHANGED <<objects, clean, del, ghosts>>

\* The session is final, as it may be by now, or gone; or the settlement throws, and
\* nothing is committed.
Refused(p) ==
    /\ pub[p].pc = "publish"
    /\ \/ Go(p, "undo")
       \/ owner # Nobody /\ ~Settleable(p) /\ Go(p, "readback")
    /\ UNCHANGED <<row, owner, objects, clean, del, ghosts, faults>>

\* readbackStagedArtifactPublication: committed, not committed, or unknown, and then
\* the staged file is left to the expiry of its row.
Readback(p) ==
    /\ pub[p].pc = "readback"
    /\ CASE owner = p /\ row[p].state = "ACTIVE" -> Go(p, "retire")
         [] owner # p /\ row[p].state = "RESERVED" -> Go(p, "undo")
         [] OTHER -> Returns(p)
    /\ UNCHANGED <<row, owner, objects, clean, del, ghosts, faults>>

\* completeStagedArtifactPublishes: the file of the row it replaced is removed, or of the
\* path it read at first when it does not know the row, and the row is released.
Replaced(p) == IF pub[p].previous # {} THEN pub[p].previous ELSE {pub[p].seen} \ {Nobody}
Retire(p) ==
    /\ pub[p].pc = "retire"
    /\ \/ /\ objects' = objects \ {<<q, row[q].ref>> : q \in Replaced(p)}
          /\ IF pub[p].previous = {} THEN Returns(p) ELSE Go(p, "retired")
          /\ UNCHANGED faults
       \/ /\ faults < MaxFaults /\ faults' = faults + 1
          /\ Returns(p) /\ UNCHANGED objects
    /\ UNCHANGED <<row, owner, clean, del, ghosts>>
ReleasePrevious(p) ==
    /\ pub[p].pc = "retired"
    /\ \E q \in pub[p].previous : Release(q, "REPLACED")
    /\ Returns(p)
    /\ UNCHANGED <<owner, objects, clean, del, ghosts, faults>>

\* Files of p that its row does not name.
Unnamed(p, files) == {o \in files : o[1] = p /\ o[2] # row[p].ref}

\* Slip: the row is released whether the file could be removed or not.
UndoAnyhow(p) ==
    /\ pub[p].pc = "undo"
    /\ \E kept \in SUBSET (objects \cap Files(p)) :
         /\ kept # {} => faults < MaxFaults
         /\ faults' = IF kept = {} THEN faults ELSE faults + 1
         /\ objects' = (objects \ Files(p)) \cup kept
         /\ Go(p, "release")
         /\ stray' = stray \cup Unnamed(p, kept)
    /\ UNCHANGED <<row, owner, clean, del, raced>>

\* rollbackStagedArtifact, and the catch of stageArtifact: the staged files are removed.
\* Where one cannot be, the row stays charged for the cleanup; of the local copy of an
\* uploaded file the catch does not ask.
Undo(p) ==
    /\ pub[p].pc = "undo"
    /\ \E kept \in SUBSET (objects \cap Files(p)) :
         /\ kept # {} => faults < MaxFaults
         /\ faults' = IF kept = {} THEN faults ELSE faults + 1
         /\ objects' = (objects \ Files(p)) \cup kept
         /\ \/ kept # {} /\ Go(p, "orphan") /\ stray' = stray \cup Unnamed(p, kept)
            \/ /\ kept = {} \/ (pub[p].at = "remote" /\ kept = {<<p, "local">>})
               /\ Go(p, "release") /\ stray' = stray \cup kept
    /\ UNCHANGED <<row, owner, clean, del, raced>>
EndUndo(p) ==
    /\ \/ pub[p].pc = "release" /\ Release(p, "DELETED")
       \/ pub[p].pc = "orphan" /\ MarkOrphan(p)
    /\ Returns(p)
    /\ UNCHANGED <<owner, objects, clean, del, ghosts, faults>>

\* A statement, the disk or the upload fails while the file is staged; or the request dies.
Stumble(p) ==
    /\ pub[p].pc \in {"record", "write", "upload", "recordRemote", "removeLocal"}
    /\ faults < MaxFaults /\ faults' = faults + 1
    /\ pub' = [pub EXCEPT ![p].pc = "undo",
                          ![p].at = IF pub[p].pc = "recordRemote" THEN "remote" ELSE @]
    /\ UNCHANGED <<row, owner, objects, clean, del, ghosts>>
Die(p) ==
    /\ AtWork(p)
    /\ faults < MaxFaults /\ faults' = faults + 1
    /\ Returns(p)
    /\ stray' = stray \cup Unnamed(p, objects)
    /\ UNCHANGED <<row, owner, objects, clean, del, raced>>

----------------------------------------------------------------------------
\* cleanupExpiredStoredArtifacts: a row that has expired, as the scan returns it.  Any
\* amount of time may have passed: a publisher or a claim may be slow.
Scan(c, p) ==
    /\ clean[c].pc = "idle" /\ row[p].state \in Expirable /\ Charged(p)
    /\ clean' = [clean EXCEPT ![c] = [pc |-> "claim", p |-> p, ref |-> row[p].ref,
                                      state |-> row[p].state]]
    /\ UNCHANGED <<row, owner, objects, pub, del, ghosts, faults>>

\* The claim: the expiry must be the one the scan found passed, and every change of the
\* state has set another.
Claim(c) ==
    LET p == clean[c].p IN
    /\ clean[c].pc = "claim"
    /\ IF row[p].state = clean[c].state /\ Charged(p)
       THEN /\ Put(p, "CLEANING")
            /\ clean' = [clean EXCEPT ![c].pc = "remove"]
            /\ raced' = IF AtWork(p) \/ clean[c].ref # row[p].ref
                        THEN raced \cup {p} ELSE raced
       ELSE /\ clean' = [clean EXCEPT ![c] = Unscanned]
            /\ UNCHANGED <<row, raced>>
    /\ UNCHANGED <<owner, objects, pub, del, stray, faults>>

\* deletePhysicalArtifact, of the reference the scan read.
Remove(c) ==
    /\ clean[c].pc = "remove"
    /\ \/ /\ objects' = objects \ {<<clean[c].p, clean[c].ref>>}
          /\ clean' = [clean EXCEPT ![c].pc = "release"]
          /\ UNCHANGED faults
       \/ /\ faults < MaxFaults /\ faults' = faults + 1
          /\ clean' = [clean EXCEPT ![c].pc = "orphan"]
          /\ UNCHANGED objects
    /\ UNCHANGED <<row, owner, pub, del, ghosts>>
EndClean(c) ==
    LET p == clean[c].p IN
    /\ \/ clean[c].pc = "release" /\ Release(p, "DELETED")
       \/ clean[c].pc = "orphan" /\ MarkOrphan(p)
    /\ clean' = [clean EXCEPT ![c] = Unscanned]
    /\ UNCHANGED <<owner, objects, pub, del, ghosts, faults>>
CleanerDies(c) ==
    /\ clean[c].pc # "idle"
    /\ faults < MaxFaults /\ faults' = faults + 1
    /\ clean' = [clean EXCEPT ![c] = Unscanned]
    /\ UNCHANGED <<row, owner, objects, pub, del, ghosts>>

----------------------------------------------------------------------------
\* DELETE of the session: its charged rows are read, marked in the transaction that
\* deletes the session, and their files removed.
DeleteRead ==
    /\ del.pc = "idle"
    /\ del' = [pc |-> "commit",
               refs |-> [p \in Pubs |-> IF Charged(p) THEN row[p].ref ELSE "uncharged"]]
    /\ UNCHANGED <<row, owner, objects, pub, clean, ghosts, faults>>
DeleteCommit ==
    LET marked == {p \in Pubs : del.refs[p] # "uncharged" /\ Charged(p)} IN
    /\ del.pc = "commit"
    /\ row' = [p \in Pubs |-> IF p \in marked
                 THEN [row[p] EXCEPT !.state = "DELETE_PENDING"] ELSE row[p]]
    /\ owner' = Nobody
    /\ raced' = raced \cup {p \in marked : AtWork(p) \/ del.refs[p] # row[p].ref}
    /\ del' = [pc |-> "files", refs |-> [p \in Pubs |-> IF del.refs[p] \in Stores
                                           THEN del.refs[p] ELSE "none"]]
    /\ UNCHANGED <<objects, pub, clean, stray, faults>>

\* deleteSessionArtifacts, one row at a time: the file of the reference it has read is
\* removed and the row released, or the removal fails.  (What a crash between the two
\* leaves, a charged row without its file, a cleanup that dies leaves too.)
DeleteFile(p) ==
    /\ del.pc = "files" /\ del.refs[p] \in Stores
    /\ \/ /\ objects' = objects \ {<<p, del.refs[p]>>}
          /\ Release(p, "DELETED") /\ UNCHANGED faults
       \/ /\ faults < MaxFaults /\ faults' = faults + 1
          /\ UNCHANGED <<objects, row>>
    /\ del' = [del EXCEPT !.refs[p] = "none"]
    /\ UNCHANGED <<owner, pub, clean, ghosts>>

----------------------------------------------------------------------------
Publish(p) ==
    \/ Reserve(p) \/ RecordLocal(p) \/ WriteLocal(p) \/ UploadRemote(p)
    \/ RecordRemote(p) \/ RemoveLocal(p) \/ Commit(p) \/ Refused(p) \/ Readback(p)
    \/ Retire(p) \/ ReleasePrevious(p) \/ Undo(p) \/ EndUndo(p) \/ Stumble(p) \/ Die(p)
Cleanup(c) == Claim(c) \/ Remove(c) \/ EndClean(c)
Delete == DeleteRead \/ DeleteCommit \/ \E p \in Pubs : DeleteFile(p)
Next ==
    \/ Delete \/ \E p \in Pubs : Publish(p)
    \/ \E c \in Cleaners : Cleanup(c) \/ CleanerDies(c) \/ \E p \in Pubs : Scan(c, p)
Spec == Init /\ [][Next]_vars

----------------------------------------------------------------------------
\* Every variable has its type, and the rows that have not ended are those charged.
TypeOK ==
    /\ row \in [Pubs -> [state : Expirable \cup {"none", "ACTIVE", "DELETED", "REPLACED"},
                         ref : Places, charged : BOOLEAN]]
    /\ \A p \in Pubs : Charged(p) <=> row[p].state \in Expirable \cup {"ACTIVE"}
    /\ owner \in Pubs \cup {Nobody}
    /\ objects \subseteq Pubs \X Stores
    /\ pub \in [Pubs -> [pc : {"idle", "record", "write", "upload",
                               "recordRemote", "removeLocal", "publish", "readback",
                               "retire", "retired", "undo", "release", "orphan", "over"},
                         at : Places, expected : SUBSET Pubs, previous : SUBSET Pubs,
                         seen : Pubs \cup {Nobody}]]
    /\ clean \in [Cleaners -> [pc : {"idle", "claim", "remove", "release", "orphan"},
                               p : Pubs \cup {Nobody}, ref : Places,
                               state : Expirable \cup {"none"}]]
    /\ del \in [pc : {"idle", "commit", "files"},
                refs : [Pubs -> Places \cup {"uncharged"}]]
    /\ raced \subseteq Pubs /\ stray \subseteq Pubs \X Stores
    /\ faults \in 0 .. MaxFaults

\* The file the session's path names exists, whoever staged, replaced, cleaned up or
\* rolled back beside it.
PublishedExists ==
    owner # Nobody => <<owner, row[owner].ref>> \in objects

\* The rows charged are those that have not ended, and the active one is the row the
\* session's path names.
OwnerMatchesLedger == TypeOK /\ (owner # Nobody => Published = {owner})

\* A file that exists is accounted for by a charged row, that somebody will remove it
\* by, unless a fault left it beside its row or the row was taken from a publisher that
\* had outlived its reservation or its session.
NothingLost == \A o \in objects : Charged(o[1]) \/ o \in stray \/ o[1] \in raced
=============================================================================

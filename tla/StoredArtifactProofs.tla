------------------------- MODULE StoredArtifactProofs -------------------------
(***************************************************************************)
(* Proofs about StoredArtifact for every set of publishing requests, every   *)
(* number of runs of the maintenance job, and of crashes and failures: the   *)
(* file the session names exists, the ledger's active row is the session's,  *)
(* and no file is left that nobody accounts for.                            *)
(***************************************************************************)
EXTENDS StoredArtifact, TLAPS

\* A request that has reserved its row and has not asked for the publication, or takes
\* its files back.
Staging == {"record", "write", "upload", "recordRemote", "removeLocal", "publish",
            "undo", "release", "orphan"}
\* A request that may have published, or has ended.
Late == {"readback", "retire", "retired", "over"}

\* A row that has left its publisher or was replaced: never again reserved or active.
Gone(p) == row[p].state \in {"ORPHANED", "CLEANING", "DELETE_PENDING", "DELETED", "REPLACED"}

\* The active row is the session's.
OwnerInv ==
    /\ owner # Nobody => row[owner].state = "ACTIVE"
    /\ owner # Nobody => \A p \in Pubs : row[p].state = "ACTIVE" => p = owner

\* A row stands where its publisher is: reserved with its first step, active no earlier
\* than the publication; and whatever a publication has replaced is gone.
Publishing(p) ==
    /\ pub[p].pc = "idle" <=> row[p].state = "none"
    /\ pub[p].pc \in Staging => row[p].state # "ACTIVE"
    /\ pub[p].pc \in Staging \cup {"idle", "readback"} =>
           /\ pub[p].previous = {}
           /\ pub[p].seen # Nobody => pub[p].expected = {pub[p].seen}
    /\ pub[p].pc = "readback" /\ row[p].state = "ACTIVE" /\ pub[p].seen # Nobody =>
           Gone(pub[p].seen)
    /\ pub[p].pc \in {"retire", "retired"} => \A q \in Replaced(p) : Gone(q)
    /\ \A q \in pub[p].previous : Gone(q) /\ pub[q].pc \in Late
PublishInv == \A p \in Pubs : Publishing(p)

\* A cleanup has claimed a row that is gone, and the deletion removes files of such rows.
TakenInv ==
    /\ \A c \in Cleaners :
         /\ clean[c].pc # "idle" => clean[c].p \in Pubs
         /\ clean[c].pc = "claim" =>
                clean[c].state \in Expirable /\ row[clean[c].p].state # "none"
         /\ clean[c].pc \in {"remove", "release", "orphan"} => Gone(clean[c].p)
    /\ \A p \in Pubs :
         /\ del.pc = "commit" /\ del.refs[p] # "uncharged" => row[p].state # "none"
         /\ del.pc = "files" /\ del.refs[p] \in Stores => Gone(p)

\* What a publisher whose row is still reserved has stored so far.
Staged(p) ==
    row[p].state = "RESERVED" =>
        /\ pub[p].pc = "write" => row[p].ref = "local"
        /\ pub[p].pc = "recordRemote" => <<p, "remote">> \in objects
        /\ pub[p].pc = "removeLocal" => row[p].ref = "remote" /\ <<p, "remote">> \in objects
        /\ pub[p].pc = "publish" => <<p, row[p].ref>> \in objects
StagedInv == \A p \in Pubs : Staged(p)

RowInv == TypeOK /\ OwnerInv /\ PublishInv /\ TakenInv
FileInv == RowInv /\ StagedInv /\ PublishedExists

\* A file of p that no row names is one that a fault left or that was taken from its
\* publisher; and so is every file of p.
Excused(p, s) == <<p, s>> \in stray \/ p \in raced
Tidy(p) == \A s \in Stores : <<p, s>> \in objects => s = row[p].ref \/ Excused(p, s)
Bare(p) == \A s \in Stores : <<p, s>> \in objects => Excused(p, s)

\* What a publisher has stored, and what it has left.
Storing(p) ==
    /\ pub[p].pc \in Staging /\ p \notin raced => row[p].state = "RESERVED"
    /\ pub[p].pc \in {"idle", "record", "write"} => \A s \in Stores : <<p, s>> \notin objects
    /\ pub[p].pc \in {"publish", "orphan"} \cup Late => Tidy(p)
    /\ pub[p].pc = "release" => Bare(p)
    /\ pub[p].pc = "retired" => \A q \in pub[p].previous : Bare(q)
    /\ ~Charged(p) => Bare(p)
StoringInv == \A p \in Pubs : Storing(p)

\* A row that was not taken from its publisher names the file that its cleanup, or the
\* deletion, removes.
SweepInv ==
    /\ \A c \in Cleaners :
         /\ clean[c].pc \in {"remove", "release", "orphan"} /\ clean[c].p \notin raced =>
                pub[clean[c].p].pc = "over" /\ clean[c].ref = row[clean[c].p].ref
         /\ clean[c].pc = "release" => Bare(clean[c].p)
    /\ \A p \in Pubs :
         del.pc = "files" /\ del.refs[p] \in Stores /\ Charged(p) /\ p \notin raced =>
             pub[p].pc = "over" /\ del.refs[p] = row[p].ref

\* The inductive invariant.
ArtifactInv == FileInv /\ StoringInv /\ SweepInv

\* The values of the records' fields.
States == Expirable \cup {"none", "ACTIVE", "DELETED", "REPLACED"}
RowType == [state : States, ref : Places, charged : BOOLEAN]
PubPlaces == {"idle"} \cup Staging \cup Late
PubType == [pc : PubPlaces, at : Places, expected : SUBSET Pubs, previous : SUBSET Pubs,
            seen : Pubs \cup {Nobody}]
CleanType == [pc : {"idle", "claim", "remove", "release", "orphan"}, p : Pubs \cup {Nobody},
              ref : Places, state : Expirable \cup {"none"}]
DelType == [pc : {"idle", "commit", "files"}, refs : [Pubs -> Places \cup {"uncharged"}]]
ChargedRows == \A p \in Pubs : Charged(p) <=> row[p].state \in Expirable \cup {"ACTIVE"}

\* The type invariant with these names.
LEMMA Types ==
    TypeOK <=>
        /\ row \in [Pubs -> RowType] /\ ChargedRows
        /\ owner \in Pubs \cup {Nobody} /\ objects \subseteq Pubs \X Stores
        /\ pub \in [Pubs -> PubType] /\ clean \in [Cleaners -> CleanType] /\ del \in DelType
        /\ raced \subseteq Pubs /\ stray \subseteq Pubs \X Stores /\ faults \in 0 .. MaxFaults
<1>1. PubPlaces = {"idle", "record", "write", "upload", "recordRemote", "removeLocal", "publish",
                   "readback", "retire", "retired", "undo", "release", "orphan", "over"}
  BY DEF PubPlaces, Staging, Late
<1> QED
  BY <1>1 DEF TypeOK, RowType, States, PubType, CleanType, DelType, ChargedRows

\* So with the next state.
LEMMA TypesNext ==
    ASSUME row' \in [Pubs -> RowType], ChargedRows',
           owner' \in Pubs \cup {Nobody}, objects' \subseteq Pubs \X Stores,
           pub' \in [Pubs -> PubType], clean' \in [Cleaners -> CleanType], del' \in DelType,
           raced' \subseteq Pubs, stray' \subseteq Pubs \X Stores, faults' \in 0 .. MaxFaults
    PROVE  TypeOK'
<1>1. PubPlaces = {"idle", "record", "write", "upload", "recordRemote", "removeLocal", "publish",
                   "readback", "retire", "retired", "undo", "release", "orphan", "over"}
  BY DEF PubPlaces, Staging, Late
<1> QED
  BY <1>1 DEF TypeOK, RowType, States, PubType, CleanType, DelType, ChargedRows

\* A publisher moves alone.
LEMMA GoFacts ==
    ASSUME TypeOK, NEW p \in Pubs, NEW pc \in PubPlaces, Go(p, pc)
    PROVE  /\ pub' \in [Pubs -> PubType]
           /\ pub'[p].pc = pc /\ pub'[p].at = pub[p].at /\ pub'[p].expected = pub[p].expected
           /\ pub'[p].previous = pub[p].previous /\ pub'[p].seen = pub[p].seen
           /\ \A q \in Pubs \ {p} : pub'[q] = pub[q]
  BY Types DEF PubType, Go

\* So it does when it ends.
LEMMA ReturnsFacts ==
    ASSUME TypeOK, NEW p \in Pubs, Returns(p)
    PROVE  /\ pub' \in [Pubs -> PubType]
           /\ pub'[p].pc = "over" /\ pub'[p].previous = {} /\ pub'[p].seen = Nobody
           /\ \A q \in Pubs \ {p} : pub'[q] = pub[q]
<1>1. [Resting EXCEPT !.pc = "over"] \in PubType
  BY DEF Resting, PubType, PubPlaces, Late, Places
<1> QED
  BY <1>1, Types DEF Returns, Resting

\* The state of one row is written, and nothing else.
LEMMA PutFacts ==
    ASSUME TypeOK, NEW p \in Pubs, NEW s \in States, Put(p, s)
    PROVE  /\ row' \in [Pubs -> RowType]
           /\ row'[p].state = s /\ row'[p].ref = row[p].ref /\ row'[p].charged = row[p].charged
           /\ \A q \in Pubs \ {p} : row'[q] = row[q]
  BY Types DEF RowType, Put

\* A release ends a charged row and leaves any other as it is.
LEMMA ReleaseFacts ==
    ASSUME TypeOK, NEW p \in Pubs, NEW end \in {"DELETED", "REPLACED"}, Release(p, end)
    PROVE  /\ row' \in [Pubs -> RowType] /\ ChargedRows'
           /\ row'[p].ref = row[p].ref /\ ~Charged(p)'
           /\ row'[p].state = IF Charged(p) THEN end ELSE row[p].state
           /\ \A q \in Pubs \ {p} : row'[q] = row[q]
<1>1. CASE Charged(p)
  <2>1. row' = [row EXCEPT ![p].state = end, ![p].charged = FALSE]
    BY <1>1 DEF Release
  <2>2. /\ row' \in [Pubs -> RowType]
        /\ row'[p].ref = row[p].ref /\ row'[p].charged = FALSE /\ row'[p].state = end
        /\ \A q \in Pubs \ {p} : row'[q] = row[q]
    BY <2>1, Types DEF RowType, States
  <2> QED
    BY <1>1, <2>2, Types DEF ChargedRows, Charged, Expirable
<1>2. CASE ~Charged(p)
  BY <1>2, Types DEF Release, ChargedRows, Charged
<1> QED
  BY <1>1, <1>2

\* A row marked an orphan stays charged.
LEMMA MarkOrphanFacts ==
    ASSUME TypeOK, NEW p \in Pubs, MarkOrphan(p)
    PROVE  /\ row' \in [Pubs -> RowType] /\ ChargedRows'
           /\ row'[p].ref = row[p].ref /\ Charged(p)' = Charged(p)
           /\ row'[p].state \in {row[p].state, "ORPHANED"}
           /\ row[p].state = "none" => row'[p].state = "none"
           /\ \A q \in Pubs \ {p} : row'[q] = row[q]
<1>1. CASE Put(p, "ORPHANED") /\ Charged(p) /\ row[p].state \in {"RESERVED", "ACTIVE", "CLEANING"}
  <2>1. "ORPHANED" \in States
    BY DEF States, Expirable
  <2>2. /\ row' \in [Pubs -> RowType]
        /\ row'[p].state = "ORPHANED" /\ row'[p].ref = row[p].ref
        /\ row'[p].charged = row[p].charged
        /\ \A q \in Pubs \ {p} : row'[q] = row[q]
    BY <1>1, <2>1, PutFacts
  <2>3. ChargedRows'
    BY <1>1, <2>2, Types DEF ChargedRows, Charged, Expirable
  <2> QED
    BY <1>1, <2>2, <2>3 DEF Charged
<1>2. CASE UNCHANGED row
  BY <1>2, Types DEF ChargedRows, Charged
<1> QED
  BY <1>1, <1>2 DEF MarkOrphan

\* A publication makes one row active, and an orphan of the one that was.
LEMMA SettledFacts ==
    ASSUME TypeOK, NEW p \in Pubs, Settled(p), row[p].state = "RESERVED"
    PROVE  /\ row' \in [Pubs -> RowType] /\ ChargedRows'
           /\ row'[p].state = "ACTIVE"
           /\ \A q \in Published : row'[q].state = "ORPHANED"
           /\ \A q \in Pubs : row'[q].ref = row[q].ref /\ Charged(q)' = Charged(q)
           /\ \A q \in Pubs \ (Published \cup {p}) : row'[q] = row[q]
<1>1. row' = [q \in Pubs |->
              IF q = p THEN [row[q] EXCEPT !.state = "ACTIVE"]
              ELSE IF q \in Published THEN [row[q] EXCEPT !.state = "ORPHANED"]
              ELSE row[q]]
  BY DEF Settled
<1>2. \A q \in Published : q \in Pubs /\ q # p /\ row[q].state = "ACTIVE"
  BY DEF Published
<1>3. ASSUME NEW q \in Pubs
      PROVE  /\ row'[q] \in RowType /\ row'[q].ref = row[q].ref /\ Charged(q)' = Charged(q)
             /\ q = p => row'[q].state = "ACTIVE"
             /\ q \in Published => row'[q].state = "ORPHANED"
             /\ q \notin Published \cup {p} => row'[q] = row[q]
  <2>1. row[q] \in RowType
    BY Types
  <2>2. CASE q = p
    BY <1>1, <1>2, <2>1, <2>2 DEF RowType, States, Charged
  <2>3. CASE q \in Published
    BY <1>1, <1>2, <2>1, <2>3 DEF RowType, States, Charged, Expirable
  <2>4. CASE q \notin Published \cup {p}
    BY <1>1, <2>1, <2>4 DEF Charged
  <2> QED
    BY <2>2, <2>3, <2>4
<1>4. ChargedRows'
  BY <1>2, <1>3, Types DEF ChargedRows, Charged, Expirable
<1>5. row' \in [Pubs -> RowType]
  BY <1>1, <1>3
<1> QED
  BY <1>2, <1>3, <1>4, <1>5

\* A step of a publishing request keeps the types.
LEMMA PublishTypes ==
    ASSUME TypeOK, NEW p \in Pubs, Publish(p)
    PROVE  TypeOK'
<1> USE DEF requests, ghosts
<1>1. CASE Reserve(p)
  <2>1. row' = [row EXCEPT ![p].state = "RESERVED", ![p].charged = TRUE]
    BY <1>1 DEF Reserve
  <2>2. /\ row' \in [Pubs -> RowType]
        /\ row'[p].state = "RESERVED" /\ row'[p].charged
        /\ \A q \in Pubs \ {p} : row'[q] = row[q]
    BY <2>1, Types, TypesNext DEF RowType, States, Expirable
  <2>3. ChargedRows'
    BY <2>2, Types, TypesNext DEF ChargedRows, Charged, Expirable
  <2>4. pub' \in [Pubs -> PubType]
    <3>1. PICK v \in PubType : v = pub[p]
      BY Types
    <3>2. [v EXCEPT !.pc = "record", !.expected = Published, !.seen = owner] \in PubType
      BY Types DEF PubType, PubPlaces, Staging, Published
    <3>3. pub' = [pub EXCEPT ![p] = [v EXCEPT !.pc = "record", !.expected = Published,
                                               !.seen = owner]]
      BY <1>1, <3>1 DEF Reserve
    <3> QED
      BY <3>2, <3>3, Types
  <2> QED
    BY <1>1, <2>2, <2>3, <2>4, Types, TypesNext DEF Reserve
<1>2. ASSUME NEW place \in Stores, NEW pc \in Staging, Record(p, place, pc) PROVE TypeOK'
  <2>1. row' \in [Pubs -> RowType] /\ ChargedRows'
    <3>1. CASE row' = [row EXCEPT ![p].ref = place]
      <4>1. /\ row' \in [Pubs -> RowType]
            /\ row'[p].state = row[p].state /\ row'[p].charged = row[p].charged
            /\ \A q \in Pubs \ {p} : row'[q] = row[q]
        BY <3>1, Types, TypesNext DEF RowType, Places
      <4> QED
        BY <4>1, Types, TypesNext DEF ChargedRows, Charged
    <3>2. CASE UNCHANGED row
      BY <3>2, Types, TypesNext DEF ChargedRows, Charged
    <3> QED
      BY <1>2, <3>1, <3>2 DEF Record
  <2>2. pub' \in [Pubs -> PubType]
    <3>1. \E go \in Staging : pub' = [pub EXCEPT ![p].pc = go, ![p].at = place]
      BY <1>2 DEF Record, Staging
    <3> QED
      <4>1. PICK go \in Staging : pub' = [pub EXCEPT ![p].pc = go, ![p].at = place]
        BY <3>1
      <4>2. PICK v \in PubType : v = pub[p]
        BY Types
      <4>3. [v EXCEPT !.pc = go, !.at = place] \in PubType
        BY DEF PubType, PubPlaces, Places
      <4>4. pub' = [pub EXCEPT ![p] = [v EXCEPT !.pc = go, !.at = place]]
        BY <4>1, <4>2
      <4> QED
        BY <4>3, <4>4, Types
  <2> QED
    BY <1>2, <2>1, <2>2, Types, TypesNext DEF Record
<1>3. CASE WriteLocal(p) \/ UploadRemote(p) \/ RemoveLocal(p)
  <2>1. pub' \in [Pubs -> PubType]
    BY <1>3, GoFacts DEF WriteLocal, UploadRemote, RemoveLocal, PubPlaces, Staging
  <2>2. objects' \subseteq Pubs \X Stores
    BY <1>3, Types, TypesNext DEF WriteLocal, UploadRemote, RemoveLocal, Stores
  <2>3. ChargedRows'
    BY <1>3, Types, TypesNext DEF WriteLocal, UploadRemote, RemoveLocal, ChargedRows, Charged
  <2> QED
    BY <1>3, <2>1, <2>2, <2>3, Types, TypesNext DEF WriteLocal, UploadRemote, RemoveLocal
<1>4. CASE Commit(p)
  <2>1. row' \in [Pubs -> RowType] /\ ChargedRows'
    BY <1>4, SettledFacts DEF Commit, Settleable
  <2>2. pub' \in [Pubs -> PubType] /\ faults' \in 0 .. MaxFaults
    <3>1. CASE pub' = [pub EXCEPT ![p].pc = "retire", ![p].previous = Published]
               /\ UNCHANGED faults
      <4>1. PICK v \in PubType : v = pub[p]
        BY Types
      <4>2. [v EXCEPT !.pc = "retire", !.previous = Published] \in PubType
        BY DEF PubType, PubPlaces, Late, Published
      <4>3. pub' = [pub EXCEPT ![p] = [v EXCEPT !.pc = "retire", !.previous = Published]]
        BY <3>1, <4>1
      <4> QED
        BY <3>1, <4>2, <4>3, Types
    <3>2. CASE faults < MaxFaults /\ faults' = faults + 1 /\ Go(p, "readback")
      BY <3>2, GoFacts, Types, ArtifactAssumption DEF PubPlaces, Late
    <3> QED
      BY <1>4, <3>1, <3>2 DEF Commit
  <2> QED
    BY <1>4, <2>1, <2>2, Types, TypesNext DEF Commit
<1>5. CASE Refused(p) \/ Readback(p)
  <2>1. Go(p, "undo") \/ Go(p, "readback") \/ Go(p, "retire") \/ Returns(p)
    BY <1>5 DEF Refused, Readback
  <2>2. pub' \in [Pubs -> PubType]
    BY <2>1, GoFacts, ReturnsFacts DEF PubPlaces, Staging, Late
  <2>3. ChargedRows'
    BY <1>5, Types, TypesNext DEF Refused, Readback, ChargedRows, Charged
  <2> QED
    BY <1>5, <2>2, <2>3, Types, TypesNext DEF Refused, Readback
<1>6. CASE Retire(p)
  <2>1. Go(p, "retired") \/ Returns(p)
    BY <1>6 DEF Retire
  <2>2. pub' \in [Pubs -> PubType]
    BY <2>1, GoFacts, ReturnsFacts DEF PubPlaces, Late
  <2>3. objects' \subseteq Pubs \X Stores /\ faults' \in 0 .. MaxFaults
    BY <1>6, Types, ArtifactAssumption DEF Retire
  <2>4. ChargedRows'
    BY <1>6, Types, TypesNext DEF Retire, ChargedRows, Charged
  <2> QED
    BY <1>6, <2>2, <2>3, <2>4, Types, TypesNext DEF Retire
<1>7. CASE ReleasePrevious(p)
  <2>1. pub[p].previous \subseteq Pubs
    BY Types, TypesNext DEF PubType
  <2>2. row' \in [Pubs -> RowType] /\ ChargedRows'
    BY <1>7, <2>1, ReleaseFacts DEF ReleasePrevious
  <2>3. pub' \in [Pubs -> PubType]
    BY <1>7, ReturnsFacts DEF ReleasePrevious
  <2> QED
    BY <1>7, <2>2, <2>3, Types, TypesNext DEF ReleasePrevious
<1>8. CASE Undo(p)
  <2>1. PICK kept \in SUBSET (objects \cap Files(p)) :
          /\ kept # {} => faults < MaxFaults
          /\ faults' = IF kept = {} THEN faults ELSE faults + 1
          /\ objects' = (objects \ Files(p)) \cup kept
          /\ \/ kept # {} /\ Go(p, "orphan") /\ stray' = stray \cup Unnamed(p, kept)
             \/ /\ kept = {} \/ (pub[p].at = "remote" /\ kept = {<<p, "local">>})
                /\ Go(p, "release") /\ stray' = stray \cup kept
    BY <1>8 DEF Undo
  <2>2. pub' \in [Pubs -> PubType]
    BY <2>1, GoFacts DEF PubPlaces, Staging
  <2>3. objects' \subseteq Pubs \X Stores /\ stray' \subseteq Pubs \X Stores
    BY <2>1, Types, TypesNext DEF Unnamed
  <2>4. faults' \in 0 .. MaxFaults
    BY <2>1, Types, ArtifactAssumption
  <2>5. ChargedRows'
    BY <1>8, Types, TypesNext DEF Undo, ChargedRows, Charged
  <2> QED
    BY <1>8, <2>2, <2>3, <2>4, <2>5, Types, TypesNext DEF Undo
<1>9. CASE EndUndo(p)
  <2>1. row' \in [Pubs -> RowType] /\ ChargedRows'
    BY <1>9, ReleaseFacts, MarkOrphanFacts DEF EndUndo
  <2>2. pub' \in [Pubs -> PubType]
    BY <1>9, ReturnsFacts DEF EndUndo
  <2> QED
    BY <1>9, <2>1, <2>2, Types, TypesNext DEF EndUndo
<1>10. CASE Stumble(p)
  <2>1. pub' \in [Pubs -> PubType]
    <3>1. PICK at \in Places : pub' = [pub EXCEPT ![p].pc = "undo", ![p].at = at]
      BY <1>10, Types DEF Stumble, PubType, Places, Stores
    <3>2. PICK v \in PubType : v = pub[p]
      BY Types
    <3>3. [v EXCEPT !.pc = "undo", !.at = at] \in PubType
      BY DEF PubType, PubPlaces, Staging
    <3>4. pub' = [pub EXCEPT ![p] = [v EXCEPT !.pc = "undo", !.at = at]]
      BY <3>1, <3>2
    <3> QED
      BY <3>3, <3>4, Types
  <2>2. ChargedRows' /\ faults' \in 0 .. MaxFaults
    BY <1>10, Types, ArtifactAssumption DEF Stumble, ChargedRows, Charged
  <2> QED
    BY <1>10, <2>1, <2>2, Types, TypesNext DEF Stumble
<1>11. CASE Die(p)
  <2>1. pub' \in [Pubs -> PubType]
    BY <1>11, ReturnsFacts DEF Die
  <2>2. ChargedRows' /\ faults' \in 0 .. MaxFaults /\ stray' \subseteq Pubs \X Stores
    BY <1>11, Types, ArtifactAssumption DEF Die, ChargedRows, Charged, Unnamed
  <2> QED
    BY <1>11, <2>1, <2>2, Types, TypesNext DEF Die
<1> QED
  BY <1>1, <1>2, <1>3, <1>4, <1>5, <1>6, <1>7, <1>8, <1>9, <1>10, <1>11
  DEF Publish, RecordLocal, RecordRemote, Stores, Staging

\* So does a step of the maintenance job or of the deletion, and no step.
LEMMA SweepTypes ==
    ASSUME TypeOK, TakenInv,
           \/ \E c \in Cleaners : Cleanup(c) \/ CleanerDies(c) \/ \E p \in Pubs : Scan(c, p)
           \/ Delete
           \/ UNCHANGED vars
    PROVE  TypeOK'
<1> USE DEF requests, ghosts
<1>1. ASSUME NEW c \in Cleaners, NEW p \in Pubs, Scan(c, p) PROVE TypeOK'
  <2>1. [pc |-> "claim", p |-> p, ref |-> row[p].ref, state |-> row[p].state] \in CleanType
    BY <1>1, Types, TypesNext DEF Scan, CleanType, RowType
  <2>2. ChargedRows'
    BY <1>1, Types, TypesNext DEF Scan, ChargedRows, Charged
  <2> QED
    BY <1>1, <2>1, <2>2, Types, TypesNext DEF Scan
<1>2. ASSUME NEW c \in Cleaners, Claim(c) PROVE TypeOK'
  <2>1. Unscanned \in CleanType
    BY DEF Unscanned, CleanType, Places
  <2>2. clean' \in [Cleaners -> CleanType]
    BY <1>2, <2>1, Types, TypesNext DEF Claim, CleanType
  <2>3. row' \in [Pubs -> RowType] /\ ChargedRows' /\ raced' \subseteq Pubs
    <3>1. CASE UNCHANGED <<row, raced>>
      BY <3>1, Types, TypesNext DEF ChargedRows, Charged
    <3>2. CASE ~UNCHANGED <<row, raced>>
      <4>1. /\ row[clean[c].p].state = clean[c].state /\ Charged(clean[c].p)
            /\ Put(clean[c].p, "CLEANING")
            /\ raced' \in {raced, raced \cup {clean[c].p}}
        BY <1>2, <3>2 DEF Claim
      <4>2. clean[c].p \in Pubs
        BY <1>2 DEF Claim, TakenInv
      <4>3. "CLEANING" \in States
        BY DEF States, Expirable
      <4>4. /\ row' \in [Pubs -> RowType]
            /\ row'[clean[c].p].state = "CLEANING"
            /\ row'[clean[c].p].charged = row[clean[c].p].charged
            /\ \A q \in Pubs \ {clean[c].p} : row'[q] = row[q]
        BY <4>1, <4>2, <4>3, PutFacts
      <4>5. ChargedRows'
        BY <4>1, <4>2, <4>4, Types DEF ChargedRows, Charged, Expirable
      <4> QED
        BY <4>1, <4>2, <4>4, <4>5, Types
    <3> QED
      BY <3>1, <3>2
  <2> QED
    BY <1>2, <2>2, <2>3, Types, TypesNext DEF Claim
<1>3. ASSUME NEW c \in Cleaners, Remove(c) PROVE TypeOK'
  <2>1. clean' \in [Cleaners -> CleanType]
    BY <1>3, Types DEF Remove, CleanType
  <2>2. objects' \subseteq Pubs \X Stores /\ faults' \in 0 .. MaxFaults /\ ChargedRows'
    BY <1>3, Types, ArtifactAssumption DEF Remove, ChargedRows, Charged
  <2> QED
    BY <1>3, <2>1, <2>2, Types, TypesNext DEF Remove
<1>4. ASSUME NEW c \in Cleaners, EndClean(c) \/ CleanerDies(c) PROVE TypeOK'
  <2>1. Unscanned \in CleanType
    BY DEF Unscanned, CleanType, Places
  <2>2. clean' \in [Cleaners -> CleanType]
    BY <1>4, <2>1, Types DEF EndClean, CleanerDies
  <2>3. row' \in [Pubs -> RowType] /\ ChargedRows'
    <3>1. CASE EndClean(c)
      <4>1. clean[c].p \in Pubs
        BY <3>1 DEF EndClean, TakenInv
      <4> QED
        BY <3>1, <4>1, ReleaseFacts, MarkOrphanFacts DEF EndClean
    <3>2. CASE CleanerDies(c)
      BY <3>2, Types DEF CleanerDies, ChargedRows, Charged
    <3> QED
      BY <1>4, <3>1, <3>2
  <2> QED
    BY <1>4, <2>2, <2>3, Types, TypesNext, ArtifactAssumption DEF EndClean, CleanerDies
<1>5. CASE DeleteRead
  <2>1. del' \in DelType
    BY <1>5, Types DEF DeleteRead, DelType, RowType
  <2>2. ChargedRows'
    BY <1>5, Types DEF DeleteRead, ChargedRows, Charged
  <2> QED
    BY <1>5, <2>1, <2>2, Types, TypesNext DEF DeleteRead
<1>6. CASE DeleteCommit
  <2> DEFINE marked == {p \in Pubs : del.refs[p] # "uncharged" /\ Charged(p)}
  <2>1. row' = [p \in Pubs |-> IF p \in marked
                 THEN [row[p] EXCEPT !.state = "DELETE_PENDING"] ELSE row[p]]
    BY <1>6 DEF DeleteCommit
  <2>2. ASSUME NEW p \in Pubs
        PROVE  /\ row'[p] \in RowType /\ Charged(p)' = Charged(p)
               /\ p \in marked => row'[p].state = "DELETE_PENDING"
               /\ p \notin marked => row'[p] = row[p]
    BY <2>1, Types DEF RowType, States, Expirable, Charged
  <2>3. row' \in [Pubs -> RowType]
    BY <2>1, <2>2
  <2>4. ChargedRows'
    BY <2>2, Types DEF ChargedRows, Charged, Expirable
  <2>5. del' \in DelType
    BY <1>6 DEF DeleteCommit, DelType, Places
  <2>6. raced' \subseteq Pubs /\ owner' = Nobody
    BY <1>6, Types DEF DeleteCommit
  <2> QED
    BY <1>6, <2>3, <2>4, <2>5, <2>6, Types, TypesNext DEF DeleteCommit
<1>7. ASSUME NEW p \in Pubs, DeleteFile(p) PROVE TypeOK'
  <2>1. row' \in [Pubs -> RowType] /\ ChargedRows'
    <3>1. CASE Release(p, "DELETED")
      BY <3>1, ReleaseFacts
    <3>2. CASE UNCHANGED row
      BY <3>2, Types DEF ChargedRows, Charged
    <3> QED
      BY <1>7, <3>1, <3>2 DEF DeleteFile
  <2>2. del' \in DelType
    BY <1>7, Types DEF DeleteFile, DelType, Places
  <2>3. objects' \subseteq Pubs \X Stores /\ faults' \in 0 .. MaxFaults
    BY <1>7, Types, ArtifactAssumption DEF DeleteFile
  <2> QED
    BY <1>7, <2>1, <2>2, <2>3, Types, TypesNext DEF DeleteFile
<1>8. CASE UNCHANGED vars
  <2>1. ChargedRows'
    BY <1>8, Types DEF vars, ChargedRows, Charged
  <2> QED
    BY <1>8, <2>1, Types, TypesNext DEF vars
<1> QED
  BY <1>1, <1>2, <1>3, <1>4, <1>5, <1>6, <1>7, <1>8 DEF Cleanup, Delete

----------------------------------------------------------------------------
\* Rows only fade: none becomes active, and none that is under way vanishes.
Fading ==
    /\ \A q \in Pubs :
         \/ row'[q].state = row[q].state
         \/ row[q].state \notin {"none", "ACTIVE"} /\ Gone(q)'
    /\ owner' = owner
\* What has been replaced does not go back to its publisher's hands.
LateStays == \A q \in Pubs : Gone(q) /\ pub[q].pc \in Late => pub'[q].pc \in Late

\* Of all steps only a reservation, a publication and the deletion do more than that.
LEMMA PublishFades ==
    ASSUME RowInv, NEW p \in Pubs, Publish(p), ~Reserve(p), ~Commit(p)
    PROVE  Fading
<1>1. CASE RecordLocal(p) \/ RecordRemote(p)
  <2>1. row' = row \/ \E place \in Stores : row' = [row EXCEPT ![p].ref = place]
    BY <1>1 DEF RecordLocal, RecordRemote, Record, Stores
  <2>2. \A q \in Pubs : row'[q].state = row[q].state
    BY <2>1, Types DEF RowInv, RowType
  <2> QED
    BY <1>1, <2>2 DEF Fading, RecordLocal, RecordRemote, Record
<1>2. CASE ReleasePrevious(p)
  <2>1. PICK r \in pub[p].previous : Release(r, "REPLACED")
    BY <1>2 DEF ReleasePrevious
  <2>2. r \in Pubs /\ Gone(r)
    BY <2>1, Types DEF PubType, RowInv, PublishInv, Publishing
  <2>3. /\ row'[r].state \in {"REPLACED", row[r].state}
        /\ \A q \in Pubs \ {r} : row'[q] = row[q]
    BY <2>1, <2>2, ReleaseFacts DEF RowInv
  <2> QED
    BY <1>2, <2>2, <2>3 DEF Fading, Gone, ReleasePrevious
<1>3. CASE EndUndo(p)
  <2>1. pub[p].pc \in Staging
    BY <1>3 DEF EndUndo, Staging
  <2>2. row[p].state \notin {"none", "ACTIVE"}
    BY <2>1 DEF RowInv, PublishInv, Publishing, Staging
  <2>3. /\ row'[p].state \in {"DELETED", "ORPHANED", row[p].state}
        /\ \A q \in Pubs \ {p} : row'[q] = row[q]
    BY <1>3, ReleaseFacts, MarkOrphanFacts DEF RowInv, EndUndo
  <2> QED
    BY <1>3, <2>2, <2>3 DEF Fading, Gone, EndUndo
<1>4. CASE WriteLocal(p) \/ UploadRemote(p) \/ RemoveLocal(p) \/ Refused(p) \/ Readback(p)
           \/ Retire(p) \/ Undo(p) \/ Stumble(p) \/ Die(p)
  BY <1>4 DEF Fading, WriteLocal, UploadRemote, RemoveLocal, Refused, Readback, Retire, Undo,
      Stumble, Die
<1> QED
  BY <1>1, <1>2, <1>3, <1>4 DEF Publish

\* So do the steps of the maintenance job and of the deletion's clean-up.
LEMMA SweepFades ==
    ASSUME RowInv,
           \/ \E c \in Cleaners : Cleanup(c) \/ CleanerDies(c) \/ \E p \in Pubs : Scan(c, p)
           \/ DeleteRead \/ \E p \in Pubs : DeleteFile(p)
           \/ UNCHANGED vars
    PROVE  Fading
<1>1. ASSUME NEW c \in Cleaners, Claim(c) PROVE Fading
  <2>1. /\ clean[c].p \in Pubs /\ clean[c].state \in Expirable
        /\ row[clean[c].p].state # "none"
    BY <1>1 DEF Claim, RowInv, TakenInv
  <2>2. CASE UNCHANGED row
    BY <1>1, <2>2 DEF Claim, Fading
  <2>3. CASE row[clean[c].p].state = clean[c].state /\ Put(clean[c].p, "CLEANING")
    <3>1. /\ row'[clean[c].p].state = "CLEANING"
          /\ \A q \in Pubs \ {clean[c].p} : row'[q] = row[q]
      BY <2>1, <2>3, PutFacts DEF RowInv, States, Expirable
    <3>2. row[clean[c].p].state # "ACTIVE"
      BY <2>1, <2>3 DEF Expirable
    <3> QED
      BY <1>1, <2>1, <3>1, <3>2 DEF Claim, Fading, Gone
  <2> QED
    BY <1>1, <2>2, <2>3 DEF Claim
<1>2. ASSUME NEW c \in Cleaners, EndClean(c) PROVE Fading
  <2>1. clean[c].p \in Pubs /\ Gone(clean[c].p)
    BY <1>2 DEF EndClean, RowInv, TakenInv
  <2>2. /\ row'[clean[c].p].state \in {"DELETED", "ORPHANED", row[clean[c].p].state}
        /\ \A q \in Pubs \ {clean[c].p} : row'[q] = row[q]
    BY <1>2, <2>1, ReleaseFacts, MarkOrphanFacts DEF EndClean, RowInv
  <2> QED
    BY <1>2, <2>1, <2>2 DEF EndClean, Fading, Gone
<1>3. ASSUME NEW p \in Pubs, DeleteFile(p) PROVE Fading
  <2>1. Gone(p)
    BY <1>3 DEF DeleteFile, RowInv, TakenInv
  <2>2. /\ row'[p].state \in {"DELETED", row[p].state}
        /\ \A q \in Pubs \ {p} : row'[q] = row[q]
    BY <1>3, ReleaseFacts DEF DeleteFile, RowInv
  <2> QED
    BY <1>3, <2>1, <2>2 DEF DeleteFile, Fading, Gone
<1>4. ASSUME NEW c \in Cleaners,
             Remove(c) \/ CleanerDies(c) \/ \E p \in Pubs : Scan(c, p)
      PROVE  Fading
  BY <1>4 DEF Remove, CleanerDies, Scan, Fading
<1>5. CASE DeleteRead \/ UNCHANGED vars
  BY <1>5 DEF DeleteRead, vars, Fading
<1> QED
  BY <1>1, <1>2, <1>3, <1>4, <1>5 DEF Cleanup

\* Fading rows leave the session its active one.
LEMMA OwnerStays == ASSUME OwnerInv, TypeOK, Fading PROVE OwnerInv'
  BY Types DEF OwnerInv, Fading, Gone

\* A publisher that does not move stands where its row is.
LEMMA PublishingStays ==
    ASSUME RowInv, Fading, LateStays, NEW q \in Pubs, pub'[q] = pub[q]
    PROVE  Publishing(q)'
<1>1. \A r \in Pubs : Gone(r) => Gone(r)'
  BY DEF Fading, Gone
<1>2. Publishing(q) /\ pub[q].previous \subseteq Pubs /\ pub[q].seen \in Pubs \cup {Nobody}
  BY Types DEF RowInv, PublishInv, PubType
<1>3. \A r \in Replaced(q) : r \in Pubs
  BY <1>2 DEF Replaced
<1>4. Replaced(q)' = Replaced(q)
  BY DEF Replaced
<1>5. /\ pub'[q].pc = "idle" <=> row'[q].state = "none"
      /\ pub'[q].pc \in Staging => row'[q].state # "ACTIVE"
      /\ row'[q].state = "ACTIVE" => row[q].state = "ACTIVE"
  BY <1>2 DEF Fading, Gone, Publishing
<1>6. \A r \in pub[q].previous : Gone(r)' /\ pub'[r].pc \in Late
  BY <1>1, <1>2 DEF LateStays, Publishing
<1> QED
  BY <1>1, <1>2, <1>3, <1>4, <1>5, <1>6 DEF Publishing

\* A step of a publisher is its own.
LEMMA Alone ==
    ASSUME TypeOK, NEW p \in Pubs, Publish(p)
    PROVE  \A q \in Pubs \ {p} : pub'[q] = pub[q]
<1>1. CASE RecordLocal(p) \/ RecordRemote(p)
  BY <1>1, Types DEF RecordLocal, RecordRemote, Record
<1>2. CASE Stumble(p)
  BY <1>2, Types DEF Stumble
<1>3. CASE Reserve(p) \/ Commit(p)
  <2>1. Go(p, "readback") \/ \E u : pub' = [pub EXCEPT ![p] = u]
           \/ pub' = [pub EXCEPT ![p].pc = "retire", ![p].previous = Published]
    BY <1>3 DEF Reserve, Commit
  <2>2. "readback" \in PubPlaces
    BY DEF PubPlaces, Late
  <2> QED
    BY <2>1, <2>2, GoFacts, Types
<1>4. Returns(p) => \A q \in Pubs \ {p} : pub'[q] = pub[q]
  BY ReturnsFacts
<1>5. \A pc \in PubPlaces : Go(p, pc) => \A q \in Pubs \ {p} : pub'[q] = pub[q]
  BY GoFacts
<1> QED
  BY <1>1, <1>2, <1>3, <1>4, <1>5 DEF PubPlaces, Staging, Late, Publish, WriteLocal, UploadRemote,
      RemoveLocal, Refused, Readback, Retire, ReleasePrevious, Undo, EndUndo, Die

\* A step of a publisher that neither reserves nor publishes.
LEMMA PublishKeeps ==
    ASSUME RowInv, NEW p \in Pubs, Publish(p), ~Reserve(p), ~Commit(p), Fading
    PROVE  PublishInv' /\ UNCHANGED <<clean, del>>
<1>1. \A r \in Pubs : Gone(r) => Gone(r)'
  BY DEF Fading, Gone
<1>2. Publishing(p) /\ TypeOK /\ pub[p].pc \in PubPlaces
  BY Types DEF RowInv, PublishInv, PubType
<1>3. \A q \in Pubs \ {p} : pub'[q] = pub[q]
  BY Alone DEF RowInv
<1>4. ASSUME pub'[p].pc \in Staging, pub[p].pc \in Staging,
             pub'[p].previous = pub[p].previous, pub'[p].seen = pub[p].seen,
             pub'[p].expected = pub[p].expected
      PROVE  PublishInv'
  <2>1. LateStays
    BY <1>3, <1>4 DEF LateStays, Staging, Late
  <2>2. Publishing(p)'
    BY <1>1, <1>2, <1>4 DEF Publishing, Fading, Gone, Staging
  <2> QED
    BY <1>3, <2>1, <2>2, PublishingStays DEF PublishInv
<1>5. ASSUME Returns(p), pub[p].pc # "idle" PROVE PublishInv'
  <2>1. /\ pub'[p].pc = "over" /\ pub'[p].previous = {}
        /\ \A q \in Pubs \ {p} : pub'[q] = pub[q]
    BY <1>2, <1>5, ReturnsFacts
  <2>2. LateStays
    BY <2>1 DEF LateStays, Late
  <2>3. Publishing(p)'
    BY <1>2, <1>5, <2>1 DEF Publishing, Fading, Gone, Staging
  <2> QED
    BY <2>1, <2>2, <2>3, PublishingStays DEF PublishInv
<1>6. CASE RecordLocal(p) \/ RecordRemote(p) \/ Stumble(p)
  <2>1. pub[p].pc \in Staging
    BY <1>6 DEF RecordLocal, RecordRemote, Stumble, Staging
  <2>2. \E pc \in Staging, at \in Places : pub' = [pub EXCEPT ![p].pc = pc, ![p].at = at]
    <3>1. CASE RecordLocal(p) \/ RecordRemote(p)
      BY <3>1 DEF RecordLocal, RecordRemote, Record, Staging, Places, Stores
    <3>2. CASE Stumble(p)
      BY <3>2, Types DEF RowInv, Stumble, Staging, Places, Stores, PubType
    <3> QED
      BY <1>6, <3>1, <3>2
  <2>3. /\ pub'[p].pc \in Staging
        /\ pub'[p].previous = pub[p].previous /\ pub'[p].seen = pub[p].seen
        /\ pub'[p].expected = pub[p].expected
    BY <2>2, Types DEF RowInv, PubType
  <2>4. UNCHANGED <<clean, del>>
    BY <1>6 DEF RecordLocal, RecordRemote, Stumble, Record
  <2> QED
    BY <1>4, <2>1, <2>3, <2>4
<1>7. CASE WriteLocal(p) \/ UploadRemote(p) \/ RemoveLocal(p) \/ Undo(p)
  <2>1. pub[p].pc \in Staging /\ \E pc \in Staging : Go(p, pc)
    BY <1>7 DEF WriteLocal, UploadRemote, RemoveLocal, Undo, Staging
  <2>2. Staging \subseteq PubPlaces
    BY DEF PubPlaces
  <2>3. UNCHANGED <<clean, del>>
    BY <1>7 DEF WriteLocal, UploadRemote, RemoveLocal, Undo
  <2> QED
    BY <1>2, <1>4, <2>1, <2>2, <2>3, GoFacts
<1>8. CASE Refused(p)
  <2>1. CASE Go(p, "undo")
    BY <1>2, <1>4, <1>8, <2>1, GoFacts DEF Refused, Staging, PubPlaces
  <2>2. CASE Go(p, "readback")
    <3>1. /\ pub'[p].pc = "readback" /\ pub'[p].previous = {}
          /\ pub'[p].seen = pub[p].seen /\ pub'[p].expected = pub[p].expected
          /\ pub[p].pc \in Staging /\ row' = row
      BY <1>2, <1>8, <2>2, GoFacts DEF Refused, Staging, PubPlaces, Late, Publishing
    <3>2. LateStays
      BY <1>3, <3>1 DEF LateStays, Staging, Late
    <3>3. Publishing(p)'
      BY <1>2, <3>1 DEF Publishing, Staging
    <3> QED
      BY <1>3, <1>8, <3>2, <3>3, PublishingStays DEF PublishInv, Refused
  <2> QED
    BY <1>8, <2>1, <2>2 DEF Refused
<1>9. CASE Readback(p)
  <2>1. CASE Returns(p)
    BY <1>5, <1>9, <2>1 DEF Readback
  <2>2. CASE owner = p /\ row[p].state = "ACTIVE" /\ Go(p, "retire")
    <3>1. /\ pub'[p].pc = "retire" /\ pub'[p].previous = {} /\ pub'[p].seen = pub[p].seen
          /\ row' = row /\ pub[p].pc = "readback"
      BY <1>2, <1>9, <2>2, GoFacts DEF Readback, PubPlaces, Late, Publishing
    <3>2. LateStays
      BY <1>3, <3>1 DEF LateStays, Late
    <3>3. \A q \in Replaced(p)' : Gone(q)'
      BY <1>2, <2>2, <3>1 DEF Replaced, Publishing, Gone
    <3>4. Publishing(p)'
      BY <1>2, <3>1, <3>3 DEF Publishing, Staging
    <3> QED
      BY <1>3, <1>9, <3>2, <3>4, PublishingStays DEF PublishInv, Readback
  <2>3. CASE owner # p /\ row[p].state = "RESERVED" /\ Go(p, "undo")
    <3>1. /\ pub'[p].pc = "undo" /\ pub'[p].previous = {} /\ pub'[p].seen = pub[p].seen
          /\ row' = row /\ pub[p].pc = "readback" /\ pub'[p].expected = pub[p].expected
      BY <1>2, <1>9, <2>3, GoFacts DEF Readback, PubPlaces, Staging, Publishing
    <3>2. LateStays
      BY <1>3, <2>3, <3>1 DEF LateStays, Late, Gone
    <3>4. Publishing(p)'
      BY <1>2, <2>3, <3>1 DEF Publishing, Staging
    <3> QED
      BY <1>3, <1>9, <3>2, <3>4, PublishingStays DEF PublishInv, Readback
  <2>4. Returns(p) \/ (owner = p /\ row[p].state = "ACTIVE" /\ Go(p, "retire"))
        \/ (owner # p /\ row[p].state = "RESERVED" /\ Go(p, "undo"))
    BY <1>9 DEF Readback
  <2>5. UNCHANGED <<clean, del>>
    BY <1>9 DEF Readback
  <2> QED
    BY <2>1, <2>2, <2>3, <2>4, <2>5
<1>10. CASE Retire(p)
  <2>1. CASE Returns(p)
    BY <1>5, <1>10, <2>1 DEF Retire
  <2>2. CASE Go(p, "retired")
    <3>1. /\ pub'[p].pc = "retired" /\ pub'[p].previous = pub[p].previous
          /\ pub'[p].seen = pub[p].seen /\ row' = row /\ pub[p].pc = "retire"
      BY <1>2, <1>10, <2>2, GoFacts DEF Retire, PubPlaces, Late
    <3>2. LateStays
      BY <1>3, <3>1 DEF LateStays, Late
    <3>3. Replaced(p)' = Replaced(p)
      BY <3>1 DEF Replaced
    <3>4. \A q \in pub[p].previous : pub'[q].pc \in Late
      BY <1>2, <3>2, Types DEF LateStays, Publishing, RowInv, PubType
    <3>5. Publishing(p)'
      BY <1>2, <3>1, <3>3, <3>4 DEF Publishing, Staging, Gone
    <3> QED
      BY <1>3, <1>10, <3>2, <3>5, PublishingStays DEF PublishInv, Retire
  <2> QED
    BY <1>10, <2>1, <2>2 DEF Retire
<1>11. CASE ReleasePrevious(p) \/ EndUndo(p) \/ Die(p)
  BY <1>5, <1>11 DEF ReleasePrevious, EndUndo, Die, AtWork
<1> QED
  BY <1>6, <1>7, <1>8, <1>9, <1>10, <1>11 DEF Publish, Refused, Retire, ReleasePrevious, EndUndo, Die

\* Fading rows stay with the cleanup and the deletion that have them.
LEMMA TakenStays ==
    ASSUME TakenInv, TypeOK, Fading, UNCHANGED <<clean, del>>
    PROVE  TakenInv'
<1>1. \A r \in Pubs : (Gone(r) => Gone(r)') /\ (row[r].state # "none" => row'[r].state # "none")
  BY DEF Fading, Gone
<1> QED
  BY <1>1 DEF TakenInv

\* A request reserves the row that is its own.
LEMMA ReserveRows ==
    ASSUME RowInv, NEW p \in Pubs, Reserve(p)
    PROVE  OwnerInv' /\ PublishInv' /\ TakenInv'
<1>1. /\ pub[p].pc = "idle" /\ row[p].state = "none" /\ UNCHANGED <<owner, clean, del>>
      /\ row' = [row EXCEPT ![p].state = "RESERVED", ![p].charged = TRUE]
      /\ pub' = [pub EXCEPT ![p] = [pub[p] EXCEPT !.pc = "record", !.expected = Published,
                                                  !.seen = owner]]
  BY DEF Reserve, RowInv, PublishInv, Publishing
<1>2. /\ row'[p].state = "RESERVED"
      /\ \A q \in Pubs \ {p} : row'[q] = row[q]
  BY <1>1, Types DEF RowInv, RowType
<1>3. /\ pub'[p].pc = "record" /\ pub'[p].expected = Published /\ pub'[p].seen = owner
      /\ pub'[p].previous = pub[p].previous
      /\ \A q \in Pubs \ {p} : pub'[q] = pub[q]
  <2>1. PICK v \in PubType : v = pub[p]
    BY Types DEF RowInv
  <2>2. LET u == [v EXCEPT !.pc = "record", !.expected = Published, !.seen = owner]
        IN  /\ pub' = [pub EXCEPT ![p] = u]
            /\ u.pc = "record" /\ u.expected = Published /\ u.seen = owner
            /\ u.previous = v.previous
    BY <1>1, <2>1 DEF PubType
  <2> QED
    BY <2>1, <2>2, Types DEF RowInv
<1>4. \A q \in Pubs : Gone(q) => Gone(q)' /\ q # p /\ pub'[q] = pub[q]
  BY <1>1, <1>2, <1>3 DEF Gone
<1>5. OwnerInv'
  BY <1>1, <1>2, Types DEF RowInv, OwnerInv
<1>6. TakenInv'
  <2>1. \A q \in Pubs : row[q].state # "none" => row'[q].state # "none"
    BY <1>2
  <2> QED
    BY <1>1, <1>4, <2>1 DEF RowInv, TakenInv
<1>7. Publishing(p)'
  <2>1. owner # Nobody => Published = {owner}
    BY Types DEF RowInv, OwnerInv, Published
  <2>2. pub[p].previous = {}
    BY <1>1 DEF RowInv, PublishInv, Publishing
  <2> QED
    BY <1>2, <1>3, <2>1, <2>2 DEF Publishing, Staging
<1>8. ASSUME NEW q \in Pubs \ {p} PROVE Publishing(q)'
  <2>1. Publishing(q) /\ pub[q].previous \subseteq Pubs /\ pub[q].seen \in Pubs \cup {Nobody}
    BY Types DEF RowInv, PublishInv, PubType
  <2>2. Replaced(q)' = Replaced(q) /\ Replaced(q) \subseteq Pubs
    BY <1>3, <2>1 DEF Replaced
  <2>3. row'[q] = row[q] /\ pub'[q] = pub[q]
    BY <1>2, <1>3
  <2> QED
    BY <1>4, <2>1, <2>2, <2>3 DEF Publishing
<1> QED
  BY <1>5, <1>6, <1>7, <1>8 DEF PublishInv

\* A publication makes its row the session's active one, and the row it replaces is gone.
LEMMA CommitRows ==
    ASSUME RowInv, NEW p \in Pubs, Commit(p)
    PROVE  OwnerInv' /\ PublishInv' /\ TakenInv'
<1>1. /\ pub[p].pc = "publish" /\ row[p].state = "RESERVED" /\ Published = pub[p].expected
      /\ owner # Nobody /\ owner' = p /\ Settled(p) /\ UNCHANGED <<clean, del>>
  BY DEF Commit, Settleable
<1>2. PICK old \in Pubs :
        owner = old /\ TypeOK /\ Publishing(p) /\ Published = {old} /\ p # old
  BY <1>1, Types DEF RowInv, OwnerInv, PublishInv, Published
<1>3. /\ row'[p].state = "ACTIVE"
      /\ row'[old].state = "ORPHANED"
      /\ \A q \in Pubs \ {old, p} : row'[q] = row[q]
  BY <1>1, <1>2, SettledFacts DEF Published
<1>4. \A q \in Pubs : Gone(q) => Gone(q)' /\ q # p
  BY <1>1, <1>3 DEF Gone
<1>5. /\ pub'[p].pc \in {"retire", "readback"} /\ pub'[p].seen = pub[p].seen
      /\ pub'[p].expected = pub[p].expected
      /\ pub'[p].previous = IF pub'[p].pc = "retire" THEN {old} ELSE {}
      /\ \A q \in Pubs \ {p} : pub'[q] = pub[q]
  <2>1. CASE pub' = [pub EXCEPT ![p].pc = "retire", ![p].previous = Published]
    BY <1>2, <2>1, Types DEF PubType
  <2>2. CASE Go(p, "readback")
    <3>1. pub[p].previous = {}
      BY <1>1, <1>2 DEF Publishing, Staging
    <3>2. "readback" \in PubPlaces
      BY DEF PubPlaces, Late
    <3> QED
      BY <1>2, <2>2, <3>1, <3>2, GoFacts
  <2> QED
    BY <2>1, <2>2 DEF Commit
<1>6. pub[old].pc \in Late
  <2>1. Publishing(old) /\ row[old].state = "ACTIVE" /\ pub[old].pc \in PubPlaces
    BY <1>1, <1>2, Types DEF RowInv, OwnerInv, PublishInv, PubType
  <2> QED
    BY <2>1 DEF Publishing, PubPlaces
<1>7. Gone(old)'
  BY <1>3 DEF Gone
<1>8. OwnerInv'
  <2>1. \A q \in Pubs : row'[q].state = "ACTIVE" => q = p
    BY <1>1, <1>2, <1>3 DEF RowInv, OwnerInv
  <2> QED
    BY <1>1, <1>3, <2>1 DEF OwnerInv
<1>9. TakenInv'
  <2>1. \A q \in Pubs : row[q].state # "none" => row'[q].state # "none"
    BY <1>3
  <2> QED
    BY <1>1, <1>4, <2>1 DEF RowInv, TakenInv
<1>10. Publishing(p)'
  <2>1. pub[p].seen # Nobody => pub[p].seen = old
    BY <1>1, <1>2 DEF Publishing, Staging
  <2>2. \A q \in pub'[p].previous : Gone(q)' /\ pub'[q].pc \in Late
    BY <1>2, <1>3, <1>5, <1>6, <1>7
  <2>3. pub'[p].pc = "retire" => \A q \in Replaced(p)' : Gone(q)'
    BY <1>5, <1>7 DEF Replaced
  <2> QED
    BY <1>1, <1>2, <1>3, <1>5, <1>7, <2>1, <2>2, <2>3 DEF Publishing, Staging
<1>11. ASSUME NEW q \in Pubs \ {p} PROVE Publishing(q)'
  <2>1. Publishing(q) /\ pub[q].previous \subseteq Pubs /\ pub[q].seen \in Pubs \cup {Nobody}
    BY Types DEF RowInv, PublishInv, PubType
  <2>2. Replaced(q)' = Replaced(q) /\ Replaced(q) \subseteq Pubs /\ pub'[q] = pub[q]
    BY <1>5, <2>1 DEF Replaced
  <2>3. \A r \in pub[q].previous : Gone(r)' /\ pub'[r].pc \in Late
    BY <1>4, <1>5, <2>1 DEF Publishing
  <2>4. /\ row'[q].state = "none" <=> row[q].state = "none"
        /\ row'[q].state = "ACTIVE" => row[q].state = "ACTIVE"
    BY <1>2, <1>3 DEF Published
  <2> QED
    BY <1>4, <2>1, <2>2, <2>3, <2>4 DEF Publishing
<1> QED
  BY <1>8, <1>9, <1>10, <1>11 DEF PublishInv

\* The deletion leaves no active row that it knew, and the session no file.
LEMMA DeleteRows ==
    ASSUME RowInv, DeleteCommit
    PROVE  OwnerInv' /\ PublishInv' /\ TakenInv'
<1> DEFINE marked == {p \in Pubs : del.refs[p] # "uncharged" /\ Charged(p)}
<1>1. /\ del.pc = "commit" /\ owner' = Nobody /\ UNCHANGED <<pub, clean>>
      /\ row' = [p \in Pubs |-> IF p \in marked
                   THEN [row[p] EXCEPT !.state = "DELETE_PENDING"] ELSE row[p]]
      /\ del'.pc = "files"
      /\ \A p \in Pubs : del'.refs[p] = IF del.refs[p] \in Stores THEN del.refs[p] ELSE "none"
  BY DEF DeleteCommit
<1>2. \A p \in Pubs :
        /\ p \in marked => row'[p].state = "DELETE_PENDING"
        /\ p \notin marked => row'[p] = row[p]
  BY <1>1, Types DEF RowInv, RowType
<1>3. \A p \in Pubs : Gone(p) => Gone(p)'
  BY <1>2 DEF Gone
<1>4. \A p \in marked : row[p].state # "none"
  BY Types DEF RowInv, ChargedRows, Expirable
<1>5. ASSUME NEW p \in Pubs, del.refs[p] \in Stores PROVE Gone(p)'
  <2>1. row[p].state # "none" /\ row[p].state \in States
    BY <1>1, <1>5, Types DEF RowInv, TakenInv, Stores, RowType
  <2>2. Charged(p) => p \in marked
    BY <1>5 DEF Stores
  <2>3. ~Charged(p) => row[p].state \notin Expirable \cup {"ACTIVE"}
    BY Types DEF RowInv, ChargedRows
  <2> QED
    BY <1>2, <2>1, <2>2, <2>3 DEF Gone, States, Expirable
<1>6. TakenInv'
  <2>1. \A c \in Cleaners : clean[c].pc # "idle" => clean[c].p \in Pubs
    BY DEF RowInv, TakenInv
  <2>2. \A p \in Pubs : row[p].state # "none" => row'[p].state # "none"
    BY <1>2
  <2>3. \A p \in Pubs : del'.refs[p] \in Stores => Gone(p)'
    BY <1>1, <1>5 DEF Stores
  <2>4. \A c \in Cleaners :
          /\ clean[c].pc # "idle" => clean[c].p \in Pubs
          /\ clean[c].pc = "claim" =>
                 clean[c].state \in Expirable /\ row'[clean[c].p].state # "none"
          /\ clean[c].pc \in {"remove", "release", "orphan"} => Gone(clean[c].p)'
    BY <1>1, <1>3, <2>1, <2>2 DEF RowInv, TakenInv
  <2> QED
    BY <1>1, <2>3, <2>4 DEF TakenInv
<1>7. ASSUME NEW q \in Pubs PROVE Publishing(q)'
  <2>1. Publishing(q) /\ pub[q].previous \subseteq Pubs /\ pub[q].seen \in Pubs \cup {Nobody}
    BY Types DEF RowInv, PublishInv, PubType
  <2>2. Replaced(q)' = Replaced(q) /\ Replaced(q) \subseteq Pubs /\ pub' = pub
    BY <1>1, <2>1 DEF Replaced
  <2>3. /\ row'[q].state = "none" <=> row[q].state = "none"
        /\ row'[q].state = "ACTIVE" => row[q].state = "ACTIVE"
    BY <1>2, <1>4
  <2> QED
    BY <1>3, <2>1, <2>2, <2>3 DEF Publishing
<1>8. OwnerInv'
  BY <1>1 DEF OwnerInv
<1> QED
  BY <1>6, <1>7, <1>8 DEF PublishInv

\* The other steps of the maintenance job and of the deletion.
LEMMA SweepRows ==
    ASSUME RowInv,
           \/ \E c \in Cleaners : Cleanup(c) \/ CleanerDies(c) \/ \E p \in Pubs : Scan(c, p)
           \/ DeleteRead \/ \E p \in Pubs : DeleteFile(p)
           \/ UNCHANGED vars
    PROVE  OwnerInv' /\ PublishInv' /\ TakenInv'
<1>1. Fading /\ OwnerInv'
  BY SweepFades, OwnerStays DEF RowInv
<1>2. \A r \in Pubs : (Gone(r) => Gone(r)') /\ (row[r].state # "none" => row'[r].state # "none")
  BY <1>1 DEF Fading, Gone
<1>3. pub' = pub
  BY DEF Cleanup, Claim, Remove, EndClean, CleanerDies, Scan, DeleteRead, DeleteFile, vars, requests
<1>4. PublishInv'
  BY <1>1, <1>3, PublishingStays DEF LateStays, PublishInv
<1>5. ASSUME NEW c \in Cleaners, NEW p \in Pubs, Scan(c, p) PROVE TakenInv'
  <2>1. clean' = [clean EXCEPT ![c] = [pc |-> "claim", p |-> p, ref |-> row[p].ref,
                                      state |-> row[p].state]]
        /\ row[p].state \in Expirable /\ UNCHANGED <<row, del>>
    BY <1>5 DEF Scan
  <2>2. /\ clean'[c].pc = "claim" /\ clean'[c].p = p /\ clean'[c].state = row[p].state
        /\ \A d \in Cleaners \ {c} : clean'[d] = clean[d]
    BY <2>1, Types DEF RowInv
  <2> QED
    BY <2>1, <2>2 DEF RowInv, TakenInv, Gone, Expirable
<1>6. ASSUME NEW c \in Cleaners, Cleanup(c) \/ CleanerDies(c) PROVE TakenInv'
  <2>1. \A d \in Cleaners \ {c} : clean'[d] = clean[d]
    BY <1>6, Types DEF RowInv, Cleanup, Claim, Remove, EndClean, CleanerDies
  <2> PICK p \in Pubs : p = clean[c].p
    BY <1>6 DEF RowInv, TakenInv, Cleanup, Claim, Remove, EndClean, CleanerDies
  <2>2. \/ clean'[c].pc = "idle"
        \/ /\ clean'[c].pc \in {"remove", "release", "orphan"}
           /\ clean'[c].p = p /\ Gone(p)'
    <3>1. clean'[c] = Unscanned => clean'[c].pc = "idle"
      BY DEF Unscanned
    <3>2. CASE Claim(c)
      <4>1. CASE Put(p, "CLEANING") /\ clean' = [clean EXCEPT ![c].pc = "remove"]
        <5>1. row'[p].state = "CLEANING"
          BY <4>1, PutFacts DEF RowInv, States, Expirable
        <5>2. clean'[c].pc = "remove" /\ clean'[c].p = p
          BY <4>1, Types DEF RowInv, CleanType
        <5> QED
          BY <5>1, <5>2 DEF Gone
      <4>2. CASE clean' = [clean EXCEPT ![c] = Unscanned]
        BY <3>1, <4>2, Types DEF RowInv
      <4> QED
        BY <3>2, <4>1, <4>2 DEF Claim
    <3>3. CASE Remove(c)
      BY <1>2, <3>3, Types DEF RowInv, TakenInv, Remove, CleanType
    <3>4. CASE EndClean(c) \/ CleanerDies(c)
      BY <3>1, <3>4, Types DEF RowInv, EndClean, CleanerDies
    <3> QED
      BY <1>6, <3>2, <3>3, <3>4 DEF Cleanup
  <2>3. del' = del
    BY <1>6 DEF Cleanup, Claim, Remove, EndClean, CleanerDies
  <2> QED
    BY <1>2, <2>1, <2>2, <2>3 DEF RowInv, TakenInv
<1>7. ASSUME DeleteRead PROVE TakenInv'
  <2>1. del'.pc = "commit" /\ \A p \in Pubs : del'.refs[p] = IF Charged(p) THEN row[p].ref ELSE "uncharged"
    BY <1>7 DEF DeleteRead
  <2>2. \A p \in Pubs : Charged(p) => row[p].state # "none"
    BY Types DEF RowInv, ChargedRows, Expirable
  <2>3. row' = row /\ clean' = clean
    BY <1>7 DEF DeleteRead
  <2>4. \A c \in Cleaners :
          /\ clean'[c].pc # "idle" => clean'[c].p \in Pubs
          /\ clean'[c].pc = "claim" =>
                 clean'[c].state \in Expirable /\ row'[clean'[c].p].state # "none"
          /\ clean'[c].pc \in {"remove", "release", "orphan"} => Gone(clean[c].p)'
    BY <2>3 DEF RowInv, TakenInv, Gone
  <2> QED
    BY <2>1, <2>2, <2>3, <2>4 DEF TakenInv
<1>8. ASSUME NEW p \in Pubs, DeleteFile(p) PROVE TakenInv'
  <2>1. /\ del'.pc = "files" /\ clean' = clean
        /\ \A q \in Pubs : del'.refs[q] \in {"none", del.refs[q]}
    BY <1>8, Types DEF DeleteFile, RowInv, DelType
  <2>2. \A q \in Pubs : del'.refs[q] \in Stores => del.refs[q] \in Stores
    BY <2>1 DEF Stores
  <2>3. del.pc = "files"
    BY <1>8 DEF DeleteFile
  <2> QED
    BY <1>2, <2>1, <2>2, <2>3 DEF RowInv, TakenInv
<1>9. ASSUME UNCHANGED vars PROVE TakenInv'
  <2>1. UNCHANGED <<clean, del>>
    BY <1>9 DEF vars, requests
  <2> QED
    BY <1>1, <2>1, TakenStays DEF RowInv
<1> QED
  BY <1>1, <1>4, <1>5, <1>6, <1>7, <1>8, <1>9

\* A step keeps the ledger's story.
LEMMA RowStep == RowInv /\ [Next]_vars => RowInv'
<1> SUFFICES ASSUME RowInv, [Next]_vars PROVE RowInv'
  OBVIOUS
<1>1. ASSUME NEW p \in Pubs, Publish(p) PROVE RowInv'
  <2>1. TypeOK'
    BY <1>1, PublishTypes DEF RowInv
  <2>2. CASE Reserve(p)
    BY <2>1, <2>2, ReserveRows DEF RowInv
  <2>3. CASE Commit(p)
    BY <2>1, <2>3, CommitRows DEF RowInv
  <2>4. CASE ~Reserve(p) /\ ~Commit(p)
    <3>1. Fading
      BY <1>1, <2>4, PublishFades
    <3>2. PublishInv' /\ UNCHANGED <<clean, del>>
      BY <1>1, <2>4, <3>1, PublishKeeps
    <3> QED
      BY <2>1, <3>1, <3>2, OwnerStays, TakenStays DEF RowInv
  <2> QED
    BY <2>2, <2>3, <2>4
<1>2. CASE ~\E p \in Pubs : Publish(p)
  <2>1. TypeOK'
    BY <1>2, SweepTypes DEF RowInv, Next
  <2> QED
    BY <1>2, <2>1, DeleteRows, SweepRows DEF RowInv, Next, Delete
<1> QED
  BY <1>1, <1>2


----------------------------------------------------------------------------
\* The row of q names the file that it named, q has no file that it had not, and none
\* that is not gone has lost one.
Kept(q) ==
    /\ row'[q].ref = row[q].ref
    /\ \A s \in Stores : <<q, s>> \in objects' => <<q, s>> \in objects
    /\ ~Gone(q) => \A s \in Stores : <<q, s>> \in objects => <<q, s>> \in objects'

\* A publisher leaves the others' files alone, but for those that are gone, and writes
\* none itself once it may have published.
LEMMA Beside ==
    ASSUME RowInv, NEW p \in Pubs, Publish(p), NEW q \in Pubs,
           q # p \/ pub[p].pc \in Late
    PROVE  Kept(q)
<1>1. CASE Reserve(p)
  <2>1. row' = [row EXCEPT ![p].state = "RESERVED", ![p].charged = TRUE] /\ objects' = objects
    BY <1>1 DEF Reserve
  <2> QED
    BY <2>1, Types DEF RowInv, RowType, Kept
<1>2. CASE RecordLocal(p) \/ RecordRemote(p)
  <2>1. pub[p].pc \notin Late /\ objects' = objects
    BY <1>2 DEF RecordLocal, RecordRemote, Record, Late
  <2>2. row' = row \/ \E place \in Stores : row' = [row EXCEPT ![p].ref = place]
    BY <1>2 DEF RecordLocal, RecordRemote, Record, Stores
  <2>3. row'[q] = row[q]
    BY <2>1, <2>2, Types DEF RowInv
  <2> QED
    BY <2>1, <2>3 DEF Kept
<1>3. CASE WriteLocal(p) \/ UploadRemote(p) \/ RemoveLocal(p) \/ Undo(p)
  <2>1. pub[p].pc \notin Late /\ row' = row
    BY <1>3 DEF WriteLocal, UploadRemote, RemoveLocal, Undo, Late
  <2>2. \A s \in Stores : <<q, s>> \in objects' <=> <<q, s>> \in objects
    BY <1>3, <2>1 DEF WriteLocal, UploadRemote, RemoveLocal, Undo, Files
  <2> QED
    BY <2>1, <2>2 DEF Kept
<1>4. CASE Commit(p)
  <2>1. objects' = objects /\ row'[q].ref = row[q].ref
    BY <1>4, SettledFacts DEF RowInv, Commit, Settleable
  <2> QED
    BY <2>1 DEF Kept
<1>5. CASE Refused(p) \/ Readback(p) \/ Stumble(p) \/ Die(p)
  BY <1>5 DEF Refused, Readback, Stumble, Die, Kept
<1>6. CASE Retire(p)
  <2>1. \A r \in Replaced(p) : Gone(r)
    BY <1>6 DEF Retire, RowInv, PublishInv, Publishing
  <2>2. row' = row
    BY <1>6 DEF Retire
  <2>3. objects' = objects \/ objects' = objects \ {<<r, row[r].ref>> : r \in Replaced(p)}
    BY <1>6 DEF Retire
  <2>4. \A s \in Stores : <<q, s>> \in {<<r, row[r].ref>> : r \in Replaced(p)} => q \in Replaced(p)
    OBVIOUS
  <2> QED
    BY <2>1, <2>2, <2>3, <2>4 DEF Kept
<1>7. CASE ReleasePrevious(p) \/ EndUndo(p)
  <2>1. pub[p].previous \subseteq Pubs
    BY Types DEF RowInv, PubType
  <2>2. objects' = objects /\ row'[q].ref = row[q].ref
    BY <1>7, <2>1, ReleaseFacts, MarkOrphanFacts DEF RowInv, ReleasePrevious, EndUndo
  <2> QED
    BY <2>2 DEF Kept
<1> QED
  BY <1>1, <1>2, <1>3, <1>4, <1>5, <1>6, <1>7 DEF Publish

\* The maintenance job and the deletion remove files of rows that are gone.
LEMMA Swept ==
    ASSUME RowInv,
           \/ \E c \in Cleaners : Cleanup(c) \/ CleanerDies(c) \/ \E p \in Pubs : Scan(c, p)
           \/ Delete
           \/ UNCHANGED vars,
           NEW q \in Pubs
    PROVE  Kept(q)
<1>1. ASSUME NEW c \in Cleaners, Claim(c) PROVE Kept(q)
  <2>1. clean[c].p \in Pubs /\ objects' = objects
    BY <1>1 DEF Claim, RowInv, TakenInv
  <2>2. row'[q].ref = row[q].ref
    BY <1>1, <2>1, PutFacts DEF Claim, RowInv, States, Expirable
  <2> QED
    BY <2>1, <2>2 DEF Kept
<1>2. ASSUME NEW c \in Cleaners, Remove(c) PROVE Kept(q)
  <2>1. Gone(clean[c].p) /\ row' = row
    BY <1>2 DEF Remove, RowInv, TakenInv
  <2>2. objects' = objects \/ objects' = objects \ {<<clean[c].p, clean[c].ref>>}
    BY <1>2 DEF Remove
  <2> QED
    BY <2>1, <2>2 DEF Kept
<1>3. ASSUME NEW c \in Cleaners, EndClean(c) PROVE Kept(q)
  <2>1. clean[c].p \in Pubs /\ objects' = objects
    BY <1>3 DEF EndClean, RowInv, TakenInv
  <2>2. row'[q].ref = row[q].ref
    BY <1>3, <2>1, ReleaseFacts, MarkOrphanFacts DEF EndClean, RowInv
  <2> QED
    BY <2>1, <2>2 DEF Kept
<1>4. ASSUME NEW c \in Cleaners, CleanerDies(c) \/ \E p \in Pubs : Scan(c, p) PROVE Kept(q)
  BY <1>4 DEF CleanerDies, Scan, Kept
<1>5. CASE DeleteRead \/ UNCHANGED vars
  BY <1>5 DEF DeleteRead, vars, Kept
<1>6. CASE DeleteCommit
  <2>1. row'[q].ref = row[q].ref /\ objects' = objects
    BY <1>6, Types DEF DeleteCommit, RowInv, RowType
  <2> QED
    BY <2>1 DEF Kept
<1>7. ASSUME NEW p \in Pubs, DeleteFile(p) PROVE Kept(q)
  <2>1. Gone(p)
    BY <1>7 DEF DeleteFile, RowInv, TakenInv
  <2>2. row'[q].ref = row[q].ref
    BY <1>7, ReleaseFacts DEF DeleteFile, RowInv
  <2>3. objects' = objects \/ objects' = objects \ {<<p, del.refs[p]>>}
    BY <1>7 DEF DeleteFile
  <2> QED
    BY <2>1, <2>2, <2>3 DEF Kept
<1> QED
  BY <1>1, <1>2, <1>3, <1>4, <1>5, <1>6, <1>7 DEF Cleanup, Delete

\* A publisher leaves the other reserved rows reserved; of the others it releases the one
\* whose file it has removed.
LEMMA RowsBeside ==
    ASSUME RowInv, NEW p \in Pubs, Publish(p), NEW q \in Pubs, q # p
    PROVE  /\ row'[q].state = "RESERVED" <=> row[q].state = "RESERVED"
           /\ Charged(q)' => Charged(q)
           /\ Charged(q) /\ ~Charged(q)' => pub[p].pc = "retired" /\ q \in pub[p].previous
<1>1. CASE Reserve(p) \/ RecordLocal(p) \/ RecordRemote(p)
  <2>1. row' = row \/ (\E place \in Stores : row' = [row EXCEPT ![p].ref = place])
        \/ row' = [row EXCEPT ![p].state = "RESERVED", ![p].charged = TRUE]
    BY <1>1 DEF Reserve, RecordLocal, RecordRemote, Record, Stores
  <2>2. row'[q] = row[q]
    BY <2>1, Types DEF RowInv
  <2> QED
    BY <2>2 DEF Charged
<1>2. CASE Commit(p)
  <2>1. Settled(p) /\ row[p].state = "RESERVED"
    BY <1>2 DEF Commit, Settleable
  <2>2. /\ Charged(q)' = Charged(q)
        /\ q \in Published => row'[q].state = "ORPHANED"
        /\ q \notin Published => row'[q] = row[q]
    BY <2>1, SettledFacts DEF RowInv
  <2> QED
    BY <2>2 DEF Published
<1>3. CASE ReleasePrevious(p)
  <2>1. PICK r \in pub[p].previous : Release(r, "REPLACED")
    BY <1>3 DEF ReleasePrevious
  <2>2. r \in Pubs /\ Gone(r)
    BY <2>1, Types DEF PubType, RowInv, PublishInv, Publishing
  <2>3. /\ row'[r].state \in {"REPLACED", row[r].state} /\ ~Charged(r)'
        /\ \A o \in Pubs \ {r} : row'[o] = row[o]
    BY <2>1, <2>2, ReleaseFacts DEF RowInv
  <2> QED
    BY <1>3, <2>1, <2>2, <2>3 DEF Gone, Charged, ReleasePrevious
<1>4. CASE EndUndo(p)
  <2>1. row'[q] = row[q]
    BY <1>4, ReleaseFacts, MarkOrphanFacts DEF RowInv, EndUndo
  <2> QED
    BY <2>1 DEF Charged
<1>5. CASE WriteLocal(p) \/ UploadRemote(p) \/ RemoveLocal(p) \/ Refused(p) \/ Readback(p)
           \/ Retire(p) \/ Undo(p) \/ Stumble(p) \/ Die(p)
  <2>1. row' = row
    BY <1>5 DEF WriteLocal, UploadRemote, RemoveLocal, Refused, Readback, Retire, Undo, Stumble, Die
  <2> QED
    BY <2>1 DEF Charged
<1> QED
  BY <1>1, <1>2, <1>3, <1>4, <1>5 DEF Publish

\* What a publisher does with its own row and files while it stages them.
LEMMA StagedStep ==
    ASSUME RowInv, StagedInv, NEW p \in Pubs, Publish(p)
    PROVE  Staged(p)'
<1> USE DEF Staged, StagedInv, RowInv
<1>1. CASE Reserve(p)
  <2>1. PICK v \in PubType : v = pub[p]
    BY Types
  <2>2. pub' = [pub EXCEPT ![p] = [v EXCEPT !.pc = "record", !.expected = Published,
                                            !.seen = owner]]
    BY <1>1, <2>1 DEF Reserve
  <2>3. pub'[p].pc = "record"
    BY <2>2, Types DEF PubType
  <2> QED
    BY <2>3
<1>2. ASSUME NEW place \in Stores, NEW pc \in {"write", "removeLocal"}, Record(p, place, pc),
             pc = "write" => place = "local",
             pc = "removeLocal" => place = "remote" /\ pub[p].pc = "recordRemote"
      PROVE  Staged(p)'
  <2>1. CASE row[p].state = "RESERVED"
    <3>1. /\ row' = [row EXCEPT ![p].ref = place] /\ objects' = objects
          /\ pub' = [pub EXCEPT ![p].pc = pc, ![p].at = place]
      BY <1>2, <2>1 DEF Record
    <3>2. row'[p].ref = place /\ pub'[p].pc = pc
      BY <3>1, Types DEF RowType, PubType
    <3> QED
      BY <1>2, <2>1, <3>1, <3>2
  <2>2. CASE row[p].state # "RESERVED"
    <3>1. row' = row
      BY <1>2, <2>2 DEF Record
    <3> QED
      BY <2>2, <3>1
  <2> QED
    BY <2>1, <2>2
<1>3. CASE WriteLocal(p)
  <2>1. /\ pub[p].pc = "write" /\ row' = row /\ objects' = objects \cup {<<p, "local">>}
        /\ pub'[p].pc \in {"upload", "publish"}
    BY <1>3, GoFacts DEF WriteLocal, PubPlaces, Staging
  <2> QED
    BY <2>1
<1>4. CASE UploadRemote(p)
  <2>1. objects' = objects \cup {<<p, "remote">>} /\ pub'[p].pc = "recordRemote"
    BY <1>4, GoFacts DEF UploadRemote, PubPlaces, Staging
  <2> QED
    BY <2>1
<1>5. CASE RemoveLocal(p)
  <2>1. /\ pub[p].pc = "removeLocal" /\ row' = row /\ objects' = objects \ {<<p, "local">>}
        /\ pub'[p].pc = "publish"
    BY <1>5, GoFacts DEF RemoveLocal, PubPlaces, Staging
  <2> QED
    BY <2>1
<1>6. CASE Commit(p)
  <2>1. row'[p].state = "ACTIVE"
    BY <1>6, SettledFacts DEF Commit, Settleable
  <2> QED
    BY <2>1
<1>7. CASE Refused(p) \/ Readback(p) \/ Retire(p) \/ Undo(p) \/ ReleasePrevious(p) \/ EndUndo(p)
           \/ Die(p)
  <2>1. Returns(p) \/ \E pc \in {"undo", "readback", "retire", "retired", "orphan", "release"} :
                          Go(p, pc)
    BY <1>7 DEF Refused, Readback, Retire, Undo, ReleasePrevious, EndUndo, Die
  <2>2. pub'[p].pc \in {"undo", "readback", "retire", "retired", "orphan", "release", "over"}
    BY <2>1, GoFacts, ReturnsFacts DEF PubPlaces, Staging, Late
  <2> QED
    BY <2>2
<1>8. CASE Stumble(p)
  <2>1. pub'[p].pc = "undo"
    BY <1>8, Types DEF Stumble, PubType
  <2> QED
    BY <2>1
<1>9. Stores = {"local", "remote"}
  BY DEF Stores
<1> QED
  BY <1>1, <1>2, <1>3, <1>4, <1>5, <1>6, <1>7, <1>8, <1>9 DEF Publish, RecordLocal, RecordRemote


\* A publisher that does not move has staged what it had staged, if its row is reserved.
LEMMA StagedKept ==
    ASSUME TypeOK, NEW q \in Pubs, Staged(q), Kept(q), pub'[q] = pub[q],
           row'[q].state = "RESERVED" => row[q].state = "RESERVED"
    PROVE  Staged(q)'
<1> SUFFICES ASSUME row'[q].state = "RESERVED" PROVE Staged(q)'
  BY DEF Staged
<1>1. row[q].state = "RESERVED" /\ ~Gone(q) /\ row'[q].ref = row[q].ref
  BY DEF Gone, Kept
<1>2. \A s \in Stores : <<q, s>> \in objects => <<q, s>> \in objects'
  BY <1>1 DEF Kept
<1>3. <<q, row[q].ref>> \in objects => <<q, row[q].ref>> \in objects'
  BY <1>2, Types
<1>4. <<q, "remote">> \in objects => <<q, "remote">> \in objects'
  BY <1>2 DEF Stores
<1> QED
  BY <1>1, <1>3, <1>4 DEF Staged

\* The step keeps the session's file and what is staged.
LEMMA FileStep == FileInv /\ [Next]_vars => FileInv'
<1> SUFFICES ASSUME FileInv, [Next]_vars PROVE FileInv'
  OBVIOUS
<1>1. RowInv /\ RowInv'
  BY RowStep DEF FileInv
<1>3. owner # Nobody => /\ owner \in Pubs /\ ~Gone(owner) /\ row[owner].ref \in Stores
                        /\ pub[owner].pc \in Late
  <2>1. SUFFICES ASSUME owner # Nobody
                 PROVE  /\ owner \in Pubs /\ ~Gone(owner) /\ row[owner].ref \in Stores
                        /\ pub[owner].pc \in Late
    OBVIOUS
  <2>2. owner \in Pubs /\ row[owner].state = "ACTIVE"
    BY <1>1, <2>1, Types DEF RowInv, OwnerInv
  <2>3. <<owner, row[owner].ref>> \in Pubs \X Stores
    BY <1>1, <2>1, Types DEF RowInv, FileInv, PublishedExists
  <2>4. pub[owner].pc \in PubPlaces /\ Publishing(owner)
    BY <1>1, <2>2, Types DEF RowInv, PublishInv, PubType
  <2> QED
    BY <2>2, <2>3, <2>4 DEF Gone, Publishing, PubPlaces
<1>4. ASSUME NEW p \in Pubs, Publish(p) PROVE StagedInv' /\ PublishedExists'
  <2>1. ASSUME NEW q \in Pubs \ {p} PROVE Staged(q)'
    <3>1. /\ Kept(q) /\ pub'[q] = pub[q]
          /\ row'[q].state = "RESERVED" => row[q].state = "RESERVED"
      BY <1>1, <1>4, Beside, Alone, RowsBeside DEF RowInv
    <3> QED
      BY <1>1, <3>1, StagedKept DEF FileInv, StagedInv, RowInv
  <2>2. Staged(p)'
    BY <1>1, <1>4, StagedStep DEF FileInv
  <2>3. PublishedExists'
    <3>1. CASE Commit(p)
      <4>1. /\ owner' = p /\ objects' = objects /\ row'[p].ref = row[p].ref
            /\ pub[p].pc = "publish" /\ row[p].state = "RESERVED"
        BY <1>1, <3>1, SettledFacts DEF RowInv, Commit, Settleable
      <4> QED
        BY <4>1 DEF FileInv, StagedInv, Staged, PublishedExists
    <3>2. CASE ~Commit(p)
      <4>1. owner' = owner
        BY <1>4, <3>2 DEF Publish, Reserve, RecordLocal, RecordRemote, Record, WriteLocal,
           UploadRemote, RemoveLocal, Refused, Readback, Retire, ReleasePrevious, Undo, EndUndo,
           Stumble, Die
      <4>2. owner # Nobody => Kept(owner)
        BY <1>1, <1>3, <1>4, Beside
      <4> QED
        BY <1>3, <4>1, <4>2 DEF FileInv, PublishedExists, Kept
    <3> QED
      BY <3>1, <3>2
  <2> QED
    BY <2>1, <2>2, <2>3 DEF StagedInv
<1>5. ASSUME ~\E p \in Pubs : Publish(p) PROVE StagedInv' /\ PublishedExists'
  <2>1. /\ \/ \E c \in Cleaners : Cleanup(c) \/ CleanerDies(c) \/ \E p \in Pubs : Scan(c, p)
           \/ Delete
           \/ UNCHANGED vars
        /\ RowInv
    BY <1>1, <1>5 DEF Next
  <2>2. \A q \in Pubs : Kept(q)
    BY <2>1, Swept
  <2>3. pub' = pub /\ owner' \in {owner, Nobody}
    BY <2>1 DEF Cleanup, Claim, Remove, EndClean, CleanerDies, Scan, Delete, DeleteRead,
       DeleteCommit, DeleteFile, vars, requests
  <2>4. \A q \in Pubs : row'[q].state = "RESERVED" => row[q].state = "RESERVED"
    <3>1. CASE DeleteCommit
      BY <1>1, <3>1, Types DEF RowInv, RowType, DeleteCommit
    <3>2. CASE ~DeleteCommit
      <4>1. Fading
        BY <2>1, <3>2, SweepFades DEF Delete
      <4> QED
        BY <4>1 DEF Fading, Gone
    <3> QED
      BY <3>1, <3>2
  <2>5. StagedInv'
    BY <1>1, <2>2, <2>3, <2>4, StagedKept DEF FileInv, StagedInv, RowInv
  <2>6. PublishedExists'
    BY <1>3, <2>2, <2>3 DEF FileInv, PublishedExists, Kept
  <2> QED
    BY <2>5, <2>6
<1> QED
  BY <1>1, <1>4, <1>5 DEF FileInv

----------------------------------------------------------------------------
\* A file is excused for good.
LEMMA TidyStays ==
    ASSUME NEW q \in Pubs, Kept(q), stray \subseteq stray', raced \subseteq raced'
    PROVE  (Tidy(q) => Tidy(q)') /\ (Bare(q) => Bare(q)') /\ (q \in raced => Bare(q)')
  BY DEF Kept, Tidy, Bare, Excused

\* A publisher takes no row, and leaves the maintenance job and the deletion alone.
LEMMA PublishGhosts ==
    ASSUME NEW p \in Pubs, Publish(p)
    PROVE  stray \subseteq stray' /\ raced' = raced /\ clean' = clean /\ del' = del
<1>1. CASE Reserve(p) \/ RecordLocal(p) \/ RecordRemote(p) \/ WriteLocal(p) \/ UploadRemote(p)
           \/ RemoveLocal(p) \/ Commit(p) \/ Refused(p)
  BY <1>1 DEF Reserve, RecordLocal, RecordRemote, Record, WriteLocal, UploadRemote, RemoveLocal,
     Commit, Refused, ghosts
<1>2. CASE Readback(p) \/ Retire(p) \/ ReleasePrevious(p) \/ Undo(p) \/ EndUndo(p)
           \/ Stumble(p) \/ Die(p)
  BY <1>2 DEF Readback, Retire, ReleasePrevious, Undo, EndUndo, Stumble, Die, ghosts
<1> QED
  BY <1>1, <1>2 DEF Publish

\* The step of another publisher.
LEMMA StoringBeside ==
    ASSUME FileInv, StoringInv, NEW p \in Pubs, Publish(p), NEW q \in Pubs, q # p
    PROVE  Storing(q)'
<1>1. RowInv /\ Storing(q) /\ Storing(p) /\ TypeOK /\ Publishing(q)
  BY DEF FileInv, StoringInv, RowInv, PublishInv
<1>2. stray \subseteq stray' /\ raced' = raced
  BY PublishGhosts
<1>3. Kept(q) /\ pub'[q] = pub[q]
  BY <1>1, Beside, Alone
<1>4. (Tidy(q) => Tidy(q)') /\ (Bare(q) => Bare(q)')
  BY <1>2, <1>3, TidyStays
<1>5. pub[q].pc \in Staging /\ q \notin raced' => row'[q].state = "RESERVED"
  BY <1>1, <1>2, RowsBeside DEF Storing
<1>6. pub[q].pc \in {"idle", "record", "write"} => \A s \in Stores : <<q, s>> \notin objects'
  BY <1>1, <1>3 DEF Storing, Kept
<1>7. \A r \in pub[q].previous : Bare(r) => Bare(r)'
  <2>1. SUFFICES ASSUME NEW r \in pub[q].previous PROVE Bare(r) => Bare(r)'
    OBVIOUS
  <2>2. r \in Pubs /\ pub[r].pc \in Late
    BY <1>1, Types DEF PubType, Publishing
  <2>3. Kept(r)
    BY <1>1, <2>2, Beside
  <2> QED
    BY <1>2, <2>2, <2>3, TidyStays
<1>8. ~Charged(q)' => Bare(q)'
  <2>1. ~Charged(q)' => ~Charged(q) \/ (pub[p].pc = "retired" /\ q \in pub[p].previous)
    BY <1>1, RowsBeside
  <2> QED
    BY <1>1, <1>4, <2>1 DEF Storing
<1> QED
  BY <1>1, <1>3, <1>4, <1>5, <1>6, <1>7, <1>8 DEF Storing

\* The publisher's own step, where it leaves its files and its row's reference.
LEMMA StoringRests ==
    ASSUME FileInv, StoringInv, NEW p \in Pubs, Publish(p), Kept(p), Charged(p)' = Charged(p),
           row'[p].state = row[p].state, pub'[p].pc \in PubPlaces,
           pub'[p].pc \in Staging /\ pub[p].pc \notin Staging => row[p].state = "RESERVED",
           pub'[p].pc \notin {"idle", "record", "write", "release", "retired"},
           pub'[p].pc \in {"publish", "orphan"} \cup Late =>
               pub[p].pc \in {"publish", "orphan"} \cup Late
    PROVE  Storing(p)'
<1>1. Storing(p) /\ stray \subseteq stray' /\ raced' = raced
  BY PublishGhosts DEF StoringInv
<1>2. (Tidy(p) => Tidy(p)') /\ (Bare(p) => Bare(p)')
  BY <1>1, TidyStays
<1> QED
  BY <1>1, <1>2 DEF Storing

\* The publisher's own steps while it stages its files.
LEMMA StoringStages ==
    ASSUME FileInv, StoringInv, NEW p \in Pubs, Publish(p),
           \/ Reserve(p) \/ RecordLocal(p) \/ RecordRemote(p) \/ WriteLocal(p)
           \/ UploadRemote(p) \/ RemoveLocal(p) \/ Stumble(p)
    PROVE  Storing(p)'
<1>1. /\ RowInv /\ Storing(p) /\ TypeOK /\ Publishing(p) /\ Staged(p)
      /\ stray \subseteq stray' /\ raced' = raced
  BY PublishGhosts DEF FileInv, StoringInv, RowInv, PublishInv, StagedInv
<1>2. CASE Reserve(p)
  <2>1. PICK v \in PubType : v = pub[p]
    BY <1>1, Types
  <2>2. pub' = [pub EXCEPT ![p] = [v EXCEPT !.pc = "record", !.expected = Published,
                                            !.seen = owner]]
    BY <1>2, <2>1 DEF Reserve
  <2>3. pub'[p].pc = "record" /\ pub[p].pc = "idle" /\ objects' = objects
    BY <1>1, <1>2, <2>2, Types DEF PubType, Reserve
  <2>4. row'[p].state = "RESERVED" /\ Charged(p)'
    BY <1>1, <1>2, Types DEF Reserve, RowType, Charged
  <2> QED
    BY <1>1, <2>3, <2>4 DEF Storing, Late
<1>3. ASSUME NEW place \in Stores, NEW pc \in {"write", "removeLocal"}, Record(p, place, pc),
             pc = "write" => pub[p].pc = "record", pub[p].pc \in Staging
      PROVE  Storing(p)'
  <2>1. objects' = objects
    BY <1>3 DEF Record
  <2>2. CASE row[p].state = "RESERVED"
    <3>1. row' = [row EXCEPT ![p].ref = place] /\ pub' = [pub EXCEPT ![p].pc = pc, ![p].at = place]
      BY <1>3, <2>2 DEF Record
    <3>2. /\ row'[p].state = "RESERVED" /\ row'[p].charged = row[p].charged
          /\ pub'[p].pc = pc
      BY <1>1, <2>2, <3>1, Types DEF RowType, PubType
    <3>3. Charged(p)'
      BY <1>1, <2>2, <3>2, Types DEF ChargedRows, Charged, Expirable
    <3> QED
      BY <1>1, <1>3, <2>1, <3>2, <3>3 DEF Storing, Late
  <2>3. CASE row[p].state # "RESERVED"
    <3>1. pub' = [pub EXCEPT ![p].pc = "undo", ![p].at = place] /\ row' = row
      BY <1>3, <2>3 DEF Record
    <3>2. pub'[p].pc = "undo"
      BY <1>1, <3>1, Types DEF PubType
    <3>3. p \in raced
      BY <1>1, <1>3, <2>3 DEF Storing
    <3> QED
      BY <1>1, <2>1, <3>1, <3>2, <3>3 DEF Storing, Late, Bare, Excused
  <2> QED
    BY <2>2, <2>3
<1>4. p \notin raced /\ pub[p].pc \in Staging => row[p].state = "RESERVED" /\ Charged(p)
  BY <1>1, Types DEF Storing, ChargedRows, Expirable
<1>5. CASE WriteLocal(p)
  <2>1. /\ pub[p].pc = "write" /\ row' = row /\ objects' = objects \cup {<<p, "local">>}
        /\ pub'[p].pc \in {"upload", "publish"}
    BY <1>1, <1>5, GoFacts DEF WriteLocal, PubPlaces, Staging
  <2>2. p \notin raced => row[p].state = "RESERVED" /\ Charged(p) /\ row[p].ref = "local"
    BY <1>1, <1>4, <2>1 DEF Staged, Staging
  <2>3. \A s \in Stores : <<p, s>> \in objects' => s = "local"
    BY <1>1, <2>1 DEF Storing
  <2>4. Tidy(p)' /\ (~Charged(p)' => Bare(p)')
    BY <1>1, <2>1, <2>2, <2>3 DEF Tidy, Bare, Excused, Charged
  <2> QED
    BY <1>1, <2>1, <2>2, <2>4 DEF Storing, Late
<1>6. CASE UploadRemote(p)
  <2>1. /\ pub[p].pc = "upload" /\ row' = row /\ pub'[p].pc = "recordRemote"
    BY <1>1, <1>6, GoFacts DEF UploadRemote, PubPlaces, Staging
  <2>2. p \notin raced => row[p].state = "RESERVED" /\ Charged(p)
    BY <1>4, <2>1 DEF Staging
  <2> QED
    BY <1>1, <2>1, <2>2 DEF Storing, Late, Bare, Excused, Charged
<1>7. CASE RemoveLocal(p)
  <2>1. /\ pub[p].pc = "removeLocal" /\ row' = row /\ objects' = objects \ {<<p, "local">>}
        /\ pub'[p].pc = "publish"
    BY <1>1, <1>7, GoFacts DEF RemoveLocal, PubPlaces, Staging
  <2>2. p \notin raced => row[p].state = "RESERVED" /\ Charged(p) /\ row[p].ref = "remote"
    BY <1>1, <1>4, <2>1 DEF Staged, Staging
  <2>3. \A s \in Stores : <<p, s>> \in objects' => s = "remote"
    BY <1>1, <2>1 DEF Stores
  <2>4. Tidy(p)' /\ (~Charged(p)' => Bare(p)')
    BY <1>1, <2>1, <2>2, <2>3 DEF Tidy, Bare, Excused, Charged
  <2> QED
    BY <1>1, <2>1, <2>2, <2>4 DEF Storing, Late
<1>8. CASE Stumble(p)
  <2>1. pub'[p].pc = "undo" /\ pub[p].pc \in Staging /\ row' = row /\ objects' = objects
    BY <1>1, <1>8, Types DEF Stumble, PubType, Staging
  <2>2. Kept(p) /\ Charged(p)' = Charged(p)
    BY <2>1 DEF Kept, Charged
  <2> QED
    BY <2>1, <2>2, StoringRests DEF Late, PubPlaces, Staging
<1>9. CASE RecordLocal(p) \/ RecordRemote(p)
  BY <1>3, <1>9 DEF RecordLocal, RecordRemote, Stores, Staging
<1> QED
  BY <1>2, <1>5, <1>6, <1>7, <1>8, <1>9

\* Those by which it publishes them, or takes them back.
LEMMA StoringEnds ==
    ASSUME FileInv, StoringInv, NEW p \in Pubs, Publish(p),
           \/ Commit(p) \/ Refused(p) \/ Readback(p) \/ Retire(p) \/ ReleasePrevious(p)
           \/ Undo(p) \/ EndUndo(p) \/ Die(p)
    PROVE  Storing(p)'
<1>1. /\ RowInv /\ Storing(p) /\ TypeOK /\ Publishing(p) /\ PublishInv
      /\ stray \subseteq stray' /\ raced' = raced /\ pub[p].previous \subseteq Pubs
  BY PublishGhosts, Types DEF FileInv, StoringInv, RowInv, PublishInv, StagedInv, PubType
<1>2. Tidy(p)' /\ pub'[p].pc \in {"readback", "retire", "over"} /\ (~Charged(p)' => Bare(p)')
          => Storing(p)'
  BY DEF Storing, Staging
<1>3. CASE Commit(p)
  <2>1. /\ pub[p].pc = "publish" /\ objects' = objects /\ row'[p].ref = row[p].ref
        /\ Charged(p)' = Charged(p)
    BY <1>1, <1>3, SettledFacts DEF Commit, Settleable
  <2>2. pub'[p].pc \in {"retire", "readback"}
    <3>1. CASE pub' = [pub EXCEPT ![p].pc = "retire", ![p].previous = Published]
      BY <1>1, <3>1, Types DEF PubType
    <3>2. CASE Go(p, "readback")
      BY <1>1, <3>2, GoFacts DEF PubPlaces, Late
    <3> QED
      BY <1>3, <3>1, <3>2 DEF Commit
  <2>3. Tidy(p)' /\ (~Charged(p)' => Bare(p)')
    BY <1>1, <2>1 DEF Storing, Tidy, Bare, Excused
  <2> QED
    BY <1>2, <2>2, <2>3
<1>4. CASE Refused(p) \/ Readback(p)
  <2>1. row' = row /\ objects' = objects /\ pub[p].pc \in {"publish", "readback"}
    BY <1>4 DEF Refused, Readback
  <2>2. \/ pub'[p].pc \in {"readback", "retire", "over"}
        \/ pub'[p].pc = "undo" /\ (pub[p].pc = "publish" \/ row[p].state = "RESERVED")
    BY <1>1, <1>4, GoFacts, ReturnsFacts DEF Refused, Readback, PubPlaces, Staging, Late
  <2>3. Kept(p) /\ Charged(p)' = Charged(p)
    BY <2>1 DEF Kept, Charged
  <2> QED
    BY <2>1, <2>2, <2>3, StoringRests DEF PubPlaces, Staging, Late
<1>5. CASE Retire(p)
  <2>1. Kept(p) /\ pub[p].pc = "retire" /\ row' = row
    BY <1>1, <1>5, Beside DEF Retire, Late
  <2>2. Tidy(p)' /\ (Bare(p) => Bare(p)') /\ Charged(p)' = Charged(p)
    BY <1>1, <2>1, TidyStays DEF Storing, Late, Charged
  <2>3. CASE Returns(p)
    BY <1>1, <1>2, <2>2, <2>3, ReturnsFacts DEF Storing
  <2>4. CASE Go(p, "retired") /\ pub[p].previous # {}
             /\ objects' = objects \ {<<q, row[q].ref>> : q \in Replaced(p)}
    <3>1. pub'[p].pc = "retired" /\ pub'[p].previous = pub[p].previous
      BY <1>1, <2>4, GoFacts DEF PubPlaces, Late
    <3>2. ASSUME NEW q \in pub[p].previous PROVE Bare(q)'
      <4>1. q \in Pubs /\ pub[q].pc \in Late /\ Tidy(q) /\ q \in Replaced(p)
        BY <1>1, <2>4, <3>2 DEF Publishing, StoringInv, Storing, Replaced
      <4>2. <<q, row[q].ref>> \notin objects'
        BY <2>4, <4>1
      <4> QED
        BY <1>1, <2>4, <4>1, <4>2 DEF Tidy, Bare, Excused
    <3> QED
      BY <1>1, <2>2, <3>1, <3>2 DEF Storing, Staging
  <2> QED
    BY <1>5, <2>3, <2>4 DEF Retire
<1>6. CASE ReleasePrevious(p)
  <2>1. PICK r \in pub[p].previous : Release(r, "REPLACED")
    BY <1>6 DEF ReleasePrevious
  <2>2. /\ pub[p].pc = "retired" /\ pub'[p].pc = "over" /\ Kept(p)
    BY <1>1, <1>6, ReturnsFacts, Beside DEF ReleasePrevious, Late
  <2>3. ~Charged(p)' => ~Charged(p) \/ p = r
    <3>1. \A q \in Pubs \ {r} : row'[q] = row[q]
      BY <1>1, <2>1, ReleaseFacts
    <3> QED
      BY <3>1 DEF Charged
  <2>4. ~Charged(p)' => Bare(p)
    BY <1>1, <2>1, <2>2, <2>3 DEF Storing
  <2>5. Tidy(p)' /\ (~Charged(p)' => Bare(p)')
    BY <1>1, <2>2, <2>4, TidyStays DEF Storing, Late
  <2> QED
    BY <1>2, <2>2, <2>5
<1>7. CASE Undo(p)
  <2>1. PICK kept \in SUBSET (objects \cap Files(p)) :
          /\ objects' = (objects \ Files(p)) \cup kept
          /\ \/ Go(p, "orphan") /\ stray' = stray \cup Unnamed(p, kept)
             \/ /\ kept = {} \/ (pub[p].at = "remote" /\ kept = {<<p, "local">>})
                /\ Go(p, "release") /\ stray' = stray \cup kept
    BY <1>7 DEF Undo
  <2>2. \A s \in Stores : <<p, s>> \in objects' => <<p, s>> \in kept /\ <<p, s>> \in objects
    BY <2>1 DEF Files
  <2>3. row' = row /\ pub[p].pc = "undo"
    BY <1>7 DEF Undo
  <2>4. ~Charged(p)' => Bare(p)'
    BY <1>1, <2>2, <2>3 DEF Storing, Bare, Excused, Charged
  <2>5. p \notin raced => row[p].state = "RESERVED"
    BY <1>1, <2>3 DEF Storing, Staging
  <2>6. CASE Go(p, "orphan") /\ stray' = stray \cup Unnamed(p, kept)
    <3>1. pub'[p].pc = "orphan"
      BY <1>1, <2>6, GoFacts DEF PubPlaces, Staging
    <3>2. Tidy(p)'
      BY <2>2, <2>3, <2>6 DEF Tidy, Excused, Unnamed
    <3> QED
      BY <1>1, <2>3, <2>4, <2>5, <3>1, <3>2 DEF Storing
  <2>7. CASE Go(p, "release") /\ stray' = stray \cup kept
    <3>1. pub'[p].pc = "release"
      BY <1>1, <2>7, GoFacts DEF PubPlaces, Staging
    <3>2. Bare(p)'
      BY <2>2, <2>7 DEF Bare, Excused
    <3> QED
      BY <1>1, <2>3, <2>5, <3>1, <3>2 DEF Storing, Late
  <2> QED
    BY <2>1, <2>6, <2>7
<1>8. CASE EndUndo(p)
  <2>1. objects' = objects /\ row'[p].ref = row[p].ref /\ pub'[p].pc = "over"
    BY <1>1, <1>8, ReturnsFacts, ReleaseFacts, MarkOrphanFacts DEF EndUndo
  <2>2. pub[p].pc = "release" \/ (pub[p].pc = "orphan" /\ Charged(p)' = Charged(p))
    BY <1>1, <1>8, MarkOrphanFacts DEF EndUndo
  <2>3. Bare(p) => Tidy(p)
    BY DEF Bare, Tidy
  <2>4. Kept(p)
    BY <2>1 DEF Kept
  <2>5. Tidy(p)' /\ (~Charged(p)' => Bare(p)')
    BY <1>1, <2>2, <2>3, <2>4, TidyStays DEF Storing
  <2> QED
    BY <1>2, <2>1, <2>5
<1>9. CASE Die(p)
  <2>1. /\ row' = row /\ objects' = objects /\ pub'[p].pc = "over"
        /\ stray' = stray \cup Unnamed(p, objects)
    BY <1>1, <1>9, ReturnsFacts DEF Die
  <2>2. Tidy(p)'
    BY <2>1 DEF Tidy, Excused, Unnamed
  <2>3. ~Charged(p)' => Bare(p)'
    BY <1>1, <2>1 DEF Storing, Bare, Excused, Charged
  <2> QED
    BY <1>2, <2>1, <2>2, <2>3
<1> QED
  BY <1>3, <1>4, <1>5, <1>6, <1>7, <1>8, <1>9

\* The maintenance job and the deletion leave a publisher's story as it was.
LEMMA StoringSwept ==
    ASSUME FileInv, StoringInv, SweepInv,
           \/ \E c \in Cleaners : Cleanup(c) \/ CleanerDies(c) \/ \E p \in Pubs : Scan(c, p)
           \/ Delete
           \/ UNCHANGED vars
    PROVE  StoringInv' /\ pub' = pub /\ stray' = stray /\ raced \subseteq raced'
<1>1. RowInv /\ TypeOK
  BY DEF FileInv, RowInv
<1>2. pub' = pub /\ stray' = stray /\ raced \subseteq raced'
  BY DEF Cleanup, Claim, Remove, EndClean, CleanerDies, Scan, Delete, DeleteRead, DeleteCommit,
     DeleteFile, vars, requests, ghosts
<1>3. \A q \in Pubs : Kept(q) /\ (Tidy(q) => Tidy(q)') /\ (Bare(q) => Bare(q)')
  BY <1>1, <1>2, Swept, TidyStays
<1>4. ASSUME NEW q \in Pubs, pub[q].pc \in Staging, q \notin raced'
      PROVE  row'[q].state = "RESERVED"
  <2>1. row[q].state = "RESERVED" /\ AtWork(q)
    BY <1>2, <1>4 DEF StoringInv, Storing, AtWork, Staging
  <2>2. ASSUME NEW c \in Cleaners, Claim(c) PROVE row'[q].state = "RESERVED"
    <3>1. row' = row \/ (Put(clean[c].p, "CLEANING") /\ q # clean[c].p)
      BY <1>4, <2>1, <2>2 DEF Claim
    <3>2. clean[c].p \in Pubs
      BY <1>1, <2>2 DEF RowInv, TakenInv, Claim
    <3>3. "CLEANING" \in States
      BY DEF States, Expirable
    <3> QED
      BY <1>1, <2>1, <3>1, <3>2, <3>3, PutFacts
  <2>3. ASSUME NEW c \in Cleaners, EndClean(c) PROVE row'[q].state = "RESERVED"
    <3>1. clean[c].p \in Pubs /\ clean[c].p # q
      BY <1>1, <2>1, <2>3 DEF RowInv, TakenInv, EndClean, Gone
    <3> QED
      BY <1>1, <2>1, <2>3, <3>1, ReleaseFacts, MarkOrphanFacts DEF EndClean
  <2>4. ASSUME NEW p \in Pubs, DeleteFile(p) PROVE row'[q].state = "RESERVED"
    <3>1. p # q
      BY <1>1, <2>1, <2>4 DEF RowInv, TakenInv, DeleteFile, Gone
    <3> QED
      BY <1>1, <2>1, <2>4, <3>1, ReleaseFacts DEF DeleteFile
  <2>5. CASE DeleteCommit
    <3>1. ~(del.refs[q] # "uncharged" /\ Charged(q))
      BY <1>4, <2>1, <2>5 DEF DeleteCommit
    <3>2. row'[q] = row[q]
      BY <2>5, <3>1 DEF DeleteCommit
    <3> QED
      BY <2>1, <3>2
  <2>6. ASSUME NEW c \in Cleaners,
               Remove(c) \/ CleanerDies(c) \/ \E p \in Pubs : Scan(c, p)
        PROVE  row'[q].state = "RESERVED"
    BY <2>1, <2>6 DEF Remove, CleanerDies, Scan
  <2>7. CASE DeleteRead \/ UNCHANGED vars
    BY <2>1, <2>7 DEF DeleteRead, vars
  <2> QED
    BY <2>2, <2>3, <2>4, <2>5, <2>6, <2>7 DEF Cleanup, Delete
<1>5. ASSUME NEW q \in Pubs, ~Charged(q)', Charged(q) PROVE Bare(q)'
  <2>1. ASSUME NEW c \in Cleaners, EndClean(c) PROVE Bare(q)'
    <3>1. clean[c].p \in Pubs
      BY <1>1, <2>1 DEF RowInv, TakenInv, EndClean
    <3>2. clean[c].pc = "release" /\ q = clean[c].p
      BY <1>1, <1>5, <2>1, <3>1, ReleaseFacts, MarkOrphanFacts DEF EndClean, Charged
    <3> QED
      BY <1>3, <3>2 DEF SweepInv
  <2>2. ASSUME NEW p \in Pubs, DeleteFile(p) PROVE Bare(q)'
    <3>1. q = p /\ row' # row
      BY <1>1, <1>5, <2>2, ReleaseFacts DEF DeleteFile, Charged
    <3>2. /\ objects' = objects \ {<<q, del.refs[q]>>} /\ del.pc = "files" /\ del.refs[q] \in Stores
          /\ raced' = raced
      BY <2>2, <3>1 DEF DeleteFile, ghosts
    <3>3. CASE q \in raced
      BY <3>2, <3>3 DEF Bare, Excused
    <3>4. CASE q \notin raced
      <4>1. pub[q].pc = "over" /\ del.refs[q] = row[q].ref
        BY <1>5, <3>2, <3>4 DEF SweepInv
      <4>2. Tidy(q)
        BY <4>1 DEF StoringInv, Storing, Late
      <4> QED
        BY <1>2, <3>2, <4>1, <4>2 DEF Tidy, Bare, Excused
    <3> QED
      BY <3>3, <3>4
  <2>3. ASSUME NEW c \in Cleaners, Claim(c) PROVE FALSE
    <3>1. row' = row \/ Put(clean[c].p, "CLEANING")
      BY <2>3 DEF Claim
    <3>2. clean[c].p \in Pubs
      BY <1>1, <2>3 DEF RowInv, TakenInv, Claim
    <3>3. "CLEANING" \in States
      BY DEF States, Expirable
    <3>4. row'[q].charged = row[q].charged
      BY <1>1, <3>1, <3>2, <3>3, PutFacts
    <3> QED
      BY <1>5, <3>4 DEF Charged
  <2>4. CASE DeleteCommit
    BY <1>1, <1>5, <2>4, Types DEF DeleteCommit, Charged, RowType
  <2>5. ASSUME NEW c \in Cleaners,
               Remove(c) \/ CleanerDies(c) \/ \E p \in Pubs : Scan(c, p)
        PROVE  FALSE
    BY <1>5, <2>5 DEF Remove, CleanerDies, Scan, Charged
  <2>6. CASE DeleteRead \/ UNCHANGED vars
    BY <1>5, <2>6 DEF DeleteRead, vars, Charged
  <2> QED
    BY <2>1, <2>2, <2>3, <2>4, <2>5, <2>6 DEF Cleanup, Delete
<1>6. ASSUME NEW q \in Pubs PROVE Storing(q)'
  <2>1. Storing(q) /\ pub[q].previous \subseteq Pubs
    BY <1>1, Types DEF StoringInv, PubType
  <2>2. pub[q].pc = "retired" => \A r \in pub[q].previous : Bare(r)'
    BY <1>3, <2>1 DEF Storing
  <2>3. pub[q].pc \in {"idle", "record", "write"} => \A s \in Stores : <<q, s>> \notin objects'
    BY <1>3, <2>1 DEF Storing, Kept
  <2>4. ~Charged(q)' => Bare(q)'
    BY <1>3, <1>5, <2>1 DEF Storing
  <2> QED
    BY <1>2, <1>3, <1>4, <2>1, <2>2, <2>3, <2>4 DEF Storing
<1> QED
  BY <1>2, <1>6 DEF StoringInv

\* A publisher's step leaves the cleanups and the deletion at files nobody else names.
LEMMA SweepBeside ==
    ASSUME FileInv, StoringInv, SweepInv, NEW p \in Pubs, Publish(p)
    PROVE  SweepInv'
<1>1. RowInv /\ TypeOK
  BY DEF FileInv, RowInv
<1>2. stray \subseteq stray' /\ raced' = raced /\ clean' = clean /\ del' = del
  BY PublishGhosts
<1>3. pub[p].pc # "over"
  BY DEF Publish, Reserve, RecordLocal, RecordRemote, WriteLocal, UploadRemote, RemoveLocal, Commit,
     Refused, Readback, Retire, ReleasePrevious, Undo, EndUndo, Stumble, Die, AtWork
<1>4. ASSUME NEW q \in Pubs, pub[q].pc = "over" \/ q \in raced
      PROVE  /\ q \notin raced => pub'[q].pc = "over" /\ row'[q].ref = row[q].ref
             /\ Bare(q) => Bare(q)'
  <2>1. CASE q \in raced
    BY <1>2, <2>1 DEF Bare, Excused
  <2>2. CASE pub[q].pc = "over" /\ q \notin raced
    <3>1. Kept(q) /\ pub'[q] = pub[q]
      BY <1>1, <1>3, <2>2, Beside, Alone
    <3> QED
      BY <1>2, <2>2, <3>1, TidyStays DEF Kept
  <2> QED
    BY <1>4, <2>1, <2>2
<1>5. ASSUME NEW c \in Cleaners
      PROVE  /\ clean[c].pc \in {"remove", "release", "orphan"} /\ clean[c].p \notin raced =>
                    pub'[clean[c].p].pc = "over" /\ clean[c].ref = row'[clean[c].p].ref
             /\ clean[c].pc = "release" => Bare(clean[c].p)'
  <2>1. SUFFICES ASSUME clean[c].pc \in {"remove", "release", "orphan"}
                 PROVE  /\ clean[c].p \notin raced =>
                               pub'[clean[c].p].pc = "over" /\ clean[c].ref = row'[clean[c].p].ref
                        /\ clean[c].pc = "release" => Bare(clean[c].p)'
    OBVIOUS
  <2>2. clean[c].p \in Pubs
    BY <1>1, <2>1 DEF RowInv, TakenInv
  <2>3. PICK q \in Pubs : q = clean[c].p
    BY <2>2
  <2>4. /\ q \notin raced => pub[q].pc = "over" /\ clean[c].ref = row[q].ref
        /\ clean[c].pc = "release" => Bare(q)
    BY <2>1, <2>3 DEF SweepInv
  <2>5. /\ q \notin raced => pub'[q].pc = "over" /\ clean[c].ref = row'[q].ref
        /\ clean[c].pc = "release" => Bare(q)'
    BY <1>4, <2>4
  <2>6. q = clean'[c].p
    BY <1>2, <2>3
  <2> QED
    BY <2>3, <2>5, <2>6, <1>2
<1>6. ASSUME NEW q \in Pubs, del.pc = "files", del.refs[q] \in Stores, Charged(q)', q \notin raced
      PROVE  pub'[q].pc = "over" /\ del.refs[q] = row'[q].ref
  <2>1. pub[q].pc # "idle"
    BY <1>1, <1>6 DEF RowInv, TakenInv, PublishInv, Publishing, Gone
  <2>2. Charged(q)
    <3>1. CASE q # p
      BY <1>1, <1>6, <3>1, RowsBeside
    <3>2. CASE q = p
      <4>1. ~Reserve(q)
        BY <2>1 DEF Reserve
      <4>2. CASE Commit(q)
        BY <1>1, <1>6, <4>2, SettledFacts DEF Commit, Settleable
      <4>3. CASE ~Commit(q)
        <5>1. CASE ReleasePrevious(q) \/ EndUndo(q)
          <6>1. pub[q].previous \subseteq Pubs
            BY <1>1, Types DEF PubType
          <6>2. ASSUME NEW r \in Pubs, Release(r, "REPLACED") PROVE Charged(q)
            <7>1. CASE r = q
              BY <1>1, <1>6, <6>2, <7>1, ReleaseFacts
            <7>2. CASE r # q
              <8>1. row'[q] = row[q]
                BY <1>1, <6>2, <7>2, ReleaseFacts
              <8> QED
                BY <1>6, <8>1 DEF Charged
            <7> QED
              BY <7>1, <7>2
          <6>3. CASE EndUndo(q)
            BY <1>1, <1>6, <6>3, ReleaseFacts, MarkOrphanFacts DEF EndUndo
          <6> QED
            BY <5>1, <6>1, <6>2, <6>3 DEF ReleasePrevious
        <5>2. CASE RecordLocal(q) \/ RecordRemote(q)
          <6>1. row' = row \/ \E place \in Stores : row' = [row EXCEPT ![q].ref = place]
            BY <5>2 DEF RecordLocal, RecordRemote, Record, Stores
          <6>2. row'[q].charged = row[q].charged
            BY <1>1, <6>1, Types DEF RowType
          <6> QED
            BY <1>6, <6>2 DEF Charged
        <5>3. CASE WriteLocal(q) \/ UploadRemote(q) \/ RemoveLocal(q) \/ Refused(q) \/ Readback(q)
                   \/ Retire(q) \/ Undo(q) \/ Stumble(q) \/ Die(q)
          <6>1. row' = row
            BY <5>3 DEF WriteLocal, UploadRemote, RemoveLocal, Refused, Readback, Retire, Undo,
               Stumble, Die
          <6> QED
            BY <1>6, <6>1 DEF Charged
        <5> QED
          BY <3>2, <4>1, <4>3, <5>1, <5>2, <5>3 DEF Publish
      <4> QED
        BY <4>2, <4>3
    <3> QED
      BY <3>1, <3>2
  <2>3. pub[q].pc = "over" /\ del.refs[q] = row[q].ref
    BY <1>6, <2>2 DEF SweepInv
  <2> QED
    BY <1>4, <1>6, <2>3
<1> QED
  BY <1>2, <1>5, <1>6 DEF SweepInv

\* Nor does a step of the maintenance job or of the deletion: a claim of a row whose
\* publisher has ended removes the file that the row names.
LEMMA SweepSwept ==
    ASSUME FileInv, StoringInv, SweepInv,
           \/ \E c \in Cleaners : Cleanup(c) \/ CleanerDies(c) \/ \E p \in Pubs : Scan(c, p)
           \/ Delete
           \/ UNCHANGED vars
    PROVE  SweepInv'
<1> DEFINE Sweeping(c) ==
             /\ clean[c].pc \in {"remove", "release", "orphan"} /\ clean[c].p \notin raced =>
                    pub[clean[c].p].pc = "over" /\ clean[c].ref = row[clean[c].p].ref
             /\ clean[c].pc = "release" => Bare(clean[c].p)
           Deleting(p) ==
             del.pc = "files" /\ del.refs[p] \in Stores /\ Charged(p) /\ p \notin raced =>
                 pub[p].pc = "over" /\ del.refs[p] = row[p].ref
<1>1. RowInv /\ TypeOK /\ (\A c \in Cleaners : Sweeping(c)) /\ \A p \in Pubs : Deleting(p)
  BY DEF FileInv, RowInv, SweepInv
<1>2. StoringInv' /\ pub' = pub /\ stray' = stray /\ raced \subseteq raced'
  BY StoringSwept
<1>3. \A q \in Pubs : row'[q].ref = row[q].ref /\ (Bare(q) => Bare(q)')
  BY <1>1, <1>2, Swept, TidyStays DEF Kept
<1>4. ASSUME NEW c \in Cleaners, clean'[c] = clean[c] PROVE Sweeping(c)'
  <2>1. clean[c].pc # "idle" => clean[c].p \in Pubs
    BY <1>1 DEF RowInv, TakenInv
  <2>2. CASE clean[c].pc \in {"remove", "release", "orphan"}
    <3>1. PICK q \in Pubs : q = clean[c].p
      BY <2>1, <2>2
    <3>2. clean'[c].p = q /\ clean'[c].pc = clean[c].pc /\ clean'[c].ref = clean[c].ref
      BY <1>4, <3>1
    <3>3. q \notin raced' => pub'[q].pc = "over" /\ clean[c].ref = row'[q].ref
      BY <1>1, <1>2, <1>3, <2>2, <3>1
    <3>4. clean[c].pc = "release" => Bare(q)'
      BY <1>1, <1>3, <3>1
    <3> QED
      BY <3>2, <3>3, <3>4
  <2>3. CASE clean[c].pc \notin {"remove", "release", "orphan"}
    BY <1>4, <2>3
  <2> QED
    BY <2>2, <2>3
<1>5. ASSUME NEW q \in Pubs, del'.pc = "files" => del.pc = "files" /\ del'.refs[q] \in {"none", del.refs[q]},
             Charged(q)' => Charged(q)
      PROVE  Deleting(q)'
  <2>1. "none" \notin Stores
    BY DEF Stores
  <2> QED
    BY <1>1, <1>2, <1>3, <1>5, <2>1
<1>6. ASSUME NEW c \in Cleaners, NEW p \in Pubs, Scan(c, p) PROVE SweepInv'
  <2>1. row' = row /\ del' = del /\ clean'[c].pc = "claim"
        /\ \A d \in Cleaners \ {c} : clean'[d] = clean[d]
    BY <1>1, <1>6, Types DEF Scan
  <2>2. \A q \in Pubs : Deleting(q)'
    BY <1>5, <2>1 DEF Charged
  <2>3. \A d \in Cleaners : Sweeping(d)'
    BY <1>4, <2>1
  <2> QED
    BY <2>2, <2>3 DEF SweepInv
<1>7. ASSUME NEW c \in Cleaners, Cleanup(c) \/ CleanerDies(c) PROVE SweepInv'
  <2>1. PICK q \in Pubs : q = clean[c].p
    BY <1>1, <1>7 DEF RowInv, TakenInv, Cleanup, Claim, Remove, EndClean, CleanerDies
  <2>2. del' = del /\ \A d \in Cleaners \ {c} : clean'[d] = clean[d]
    BY <1>1, <1>7, Types DEF Cleanup, Claim, Remove, EndClean, CleanerDies
  <2>3. clean'[c] = Unscanned => clean'[c].pc = "idle"
    BY DEF Unscanned
  <2>4. \A r \in Pubs : Charged(r)' => Charged(r)
    <3>1. CASE Claim(c)
      <4>1. row' = row \/ Put(q, "CLEANING")
        BY <2>1, <3>1 DEF Claim
      <4>2. "CLEANING" \in States
        BY DEF States, Expirable
      <4>3. \A r \in Pubs : row'[r].charged = row[r].charged
        BY <1>1, <4>1, <4>2, PutFacts
      <4> QED
        BY <4>3 DEF Charged
    <3>2. CASE EndClean(c)
      <4>1. \A r \in Pubs \ {q} : row'[r] = row[r]
        BY <1>1, <2>1, <3>2, ReleaseFacts, MarkOrphanFacts DEF EndClean
      <4>2. Charged(q)' => Charged(q)
        BY <1>1, <2>1, <3>2, ReleaseFacts, MarkOrphanFacts DEF EndClean
      <4> QED
        BY <4>1, <4>2 DEF Charged
    <3>3. CASE Remove(c) \/ CleanerDies(c)
      BY <3>3 DEF Remove, CleanerDies, Charged
    <3> QED
      BY <1>7, <3>1, <3>2, <3>3 DEF Cleanup
  <2>5. Sweeping(c)'
    <3>1. CASE clean'[c].pc = "idle"
      BY <3>1
    <3>2. CASE Claim(c) /\ clean'[c].pc # "idle"
      <4>1. /\ row[q].state = clean[c].state /\ clean[c].state \in Expirable
            /\ clean' = [clean EXCEPT ![c].pc = "remove"]
            /\ raced' = IF AtWork(q) \/ clean[c].ref # row[q].ref THEN raced \cup {q} ELSE raced
        <5>1. clean' # [clean EXCEPT ![c] = Unscanned]
          BY <1>1, <2>3, <3>2, Types
        <5> QED
          BY <1>1, <2>1, <3>2, <5>1 DEF Claim, RowInv, TakenInv
      <4>2. clean'[c].pc = "remove" /\ clean'[c].p = q /\ clean'[c].ref = clean[c].ref
        BY <1>1, <2>1, <4>1, Types DEF CleanType
      <4>3. pub[q].pc # "idle"
        BY <1>1, <4>1 DEF RowInv, PublishInv, Publishing, Expirable
      <4>4. q \notin raced' => pub'[q].pc = "over" /\ clean[c].ref = row'[q].ref
        BY <1>2, <1>3, <4>1, <4>3 DEF AtWork
      <4> QED
        BY <4>2, <4>4
    <3>3. CASE Remove(c)
      <4>1. /\ clean[c].pc = "remove" /\ raced' = raced
            /\ \/ /\ objects' = objects \ {<<q, clean[c].ref>>}
                  /\ clean' = [clean EXCEPT ![c].pc = "release"]
               \/ clean' = [clean EXCEPT ![c].pc = "orphan"]
        BY <2>1, <3>3 DEF Remove, ghosts
      <4>2. /\ clean'[c].p = q /\ clean'[c].ref = clean[c].ref /\ clean'[c].pc \in {"release", "orphan"}
            /\ clean'[c].pc = "release" => objects' = objects \ {<<q, clean[c].ref>>}
        BY <1>1, <2>1, <4>1, Types DEF CleanType
      <4>3. q \notin raced => pub[q].pc = "over" /\ clean[c].ref = row[q].ref
        BY <1>1, <2>1, <4>1
      <4>4. q \notin raced' => pub'[q].pc = "over" /\ clean[c].ref = row'[q].ref
        BY <1>2, <1>3, <4>1, <4>3
      <4>5. ASSUME objects' = objects \ {<<q, clean[c].ref>>} PROVE Bare(q)'
        <5>1. CASE q \in raced
          BY <4>1, <5>1 DEF Bare, Excused
        <5>2. CASE q \notin raced
          <6>1. Tidy(q) /\ clean[c].ref = row[q].ref
            BY <4>3, <5>2 DEF StoringInv, Storing, Late
          <6> QED
            BY <1>2, <4>5, <6>1 DEF Tidy, Bare, Excused
        <5> QED
          BY <5>1, <5>2
      <4> QED
        BY <4>2, <4>4, <4>5
    <3>4. CASE EndClean(c) \/ CleanerDies(c)
      BY <1>1, <2>3, <3>1, <3>4, Types DEF EndClean, CleanerDies
    <3> QED
      BY <1>7, <3>1, <3>2, <3>3, <3>4 DEF Cleanup
  <2>6. \A r \in Pubs : Deleting(r)'
    BY <1>5, <2>2, <2>4
  <2>7. \A d \in Cleaners : Sweeping(d)'
    BY <1>4, <2>2, <2>5
  <2> QED
    BY <2>6, <2>7 DEF SweepInv
<1>8. ASSUME DeleteRead \/ UNCHANGED vars PROVE SweepInv'
  <2>1. row' = row /\ clean' = clean /\ (del' = del \/ del'.pc = "commit")
    BY <1>8 DEF DeleteRead, vars, requests
  <2>2. \A q \in Pubs : Deleting(q)'
    BY <1>5, <2>1 DEF Charged
  <2>3. \A d \in Cleaners : Sweeping(d)'
    BY <1>4, <2>1
  <2> QED
    BY <2>2, <2>3 DEF SweepInv
<1>9. ASSUME DeleteCommit PROVE SweepInv'
  <2> DEFINE marked == {p \in Pubs : del.refs[p] # "uncharged" /\ Charged(p)}
  <2>1. /\ clean' = clean
        /\ raced' = raced \cup {p \in marked : AtWork(p) \/ del.refs[p] # row[p].ref}
        /\ \A q \in Pubs : del'.refs[q] = IF del.refs[q] \in Stores THEN del.refs[q] ELSE "none"
    BY <1>9 DEF DeleteCommit
  <2>2. \A q \in Pubs : Charged(q)' = Charged(q)
    BY <1>1, <1>9, Types DEF DeleteCommit, RowType, Charged
  <2>3. ASSUME NEW q \in Pubs, del'.refs[q] \in Stores, Charged(q), q \notin raced'
        PROVE  pub'[q].pc = "over" /\ del'.refs[q] = row'[q].ref
    <3>1. del.refs[q] \in Stores /\ del'.refs[q] = del.refs[q]
      BY <2>1, <2>3 DEF Stores
    <3>2. q \in marked
      BY <2>3, <3>1 DEF Stores
    <3>3. ~AtWork(q) /\ del.refs[q] = row[q].ref
      BY <2>1, <2>3, <3>2
    <3>4. pub[q].pc # "idle"
      BY <1>1, <2>3, Types DEF RowInv, PublishInv, Publishing, ChargedRows, Expirable
    <3> QED
      BY <1>2, <1>3, <3>1, <3>3, <3>4 DEF AtWork
  <2>4. \A q \in Pubs : Deleting(q)'
    BY <2>2, <2>3
  <2>5. \A d \in Cleaners : Sweeping(d)'
    BY <1>4, <2>1
  <2> QED
    BY <2>4, <2>5 DEF SweepInv
<1>10. ASSUME NEW p \in Pubs, DeleteFile(p) PROVE SweepInv'
  <2>1. /\ clean' = clean /\ del.pc = "files"
        /\ \A q \in Pubs : del'.refs[q] \in {"none", del.refs[q]}
    BY <1>1, <1>10, Types DEF DeleteFile, DelType
  <2>2. \A q \in Pubs : Charged(q)' => Charged(q)
    <3>1. row' = row \/ Release(p, "DELETED")
      BY <1>10 DEF DeleteFile
    <3> QED
      BY <1>1, <3>1, ReleaseFacts DEF Charged
  <2>3. \A q \in Pubs : Deleting(q)'
    BY <1>5, <2>1, <2>2
  <2>4. \A d \in Cleaners : Sweeping(d)'
    BY <1>4, <2>1
  <2> QED
    BY <2>3, <2>4 DEF SweepInv
<1> QED
  BY <1>6, <1>7, <1>8, <1>9, <1>10 DEF Delete

----------------------------------------------------------------------------
\* The initial state, of one published recording.
LEMMA ArtifactInit == Init => ArtifactInv
<1> SUFFICES ASSUME Init PROVE ArtifactInv
  OBVIOUS
<1>1. /\ First \in Pubs /\ Nobody \notin Pubs /\ owner = First
      /\ objects = {<<First, "remote">>} /\ raced = {} /\ stray = {} /\ faults = 0
      /\ del = [pc |-> "idle", refs |-> [p \in Pubs |-> "none"]]
      /\ clean = [c \in Cleaners |-> Unscanned]
  BY ArtifactAssumption DEF Init
<1>2. /\ row[First] = [state |-> "ACTIVE", ref |-> "remote", charged |-> TRUE]
      /\ \A p \in Pubs \ {First} :
            row[p] = [state |-> "none", ref |-> "none", charged |-> FALSE]
  BY <1>1 DEF Init
<1>3. /\ pub[First].pc = "over" /\ pub[First].previous = {} /\ pub[First].seen = Nobody
      /\ \A p \in Pubs \ {First} :
            pub[p].pc = "idle" /\ pub[p].previous = {} /\ pub[p].seen = Nobody
  BY <1>1 DEF Init, Resting
<1>4. TypeOK
  <2>1. row \in [Pubs -> RowType]
    BY <1>1 DEF Init, RowType, States, Places, Stores
  <2>2. pub \in [Pubs -> PubType]
    <3>1. Resting \in PubType /\ [Resting EXCEPT !.pc = "over"] \in PubType
      BY DEF Resting, PubType, PubPlaces, Late, Places
    <3> QED
      BY <3>1 DEF Init
  <2>3. Unscanned \in CleanType
    BY DEF Unscanned, CleanType, Places
  <2>4. del \in DelType
    BY <1>1 DEF DelType, Places
  <2>5. ChargedRows
    BY <1>1, <1>2 DEF ChargedRows, Charged, Expirable
  <2>6. objects \subseteq Pubs \X Stores
    BY <1>1 DEF Stores
  <2> QED
    BY <1>1, <2>1, <2>2, <2>3, <2>4, <2>5, <2>6, Types, ArtifactAssumption
<1>5. OwnerInv
  BY <1>1, <1>2 DEF OwnerInv
<1>6. PublishInv
  BY <1>1, <1>2, <1>3 DEF PublishInv, Publishing, Staging, Late
<1>7. TakenInv
  BY <1>1 DEF TakenInv, Unscanned
<1>8. StagedInv /\ PublishedExists
  BY <1>1, <1>2 DEF StagedInv, Staged, PublishedExists
<1>9. StoringInv
  <2>1. ASSUME NEW p \in Pubs PROVE Storing(p)
    <3>1. CASE p = First
      <4>1. Tidy(p) /\ Charged(p)
        BY <1>1, <1>2, <3>1 DEF Tidy, Charged
      <4> QED
        BY <1>3, <3>1, <4>1 DEF Storing, Staging
    <3>2. CASE p # First
      <4>1. \A s \in Stores : <<p, s>> \notin objects
        BY <1>1, <3>2
      <4> QED
        BY <1>3, <3>2, <4>1 DEF Storing, Staging, Late, Bare
    <3> QED
      BY <3>1, <3>2
  <2> QED
    BY <2>1 DEF StoringInv
<1>10. SweepInv
  BY <1>1 DEF SweepInv, Unscanned
<1> QED
  BY <1>4, <1>5, <1>6, <1>7, <1>8, <1>9, <1>10 DEF ArtifactInv, FileInv, RowInv

\* Every step keeps the invariant.
LEMMA ArtifactStep == ArtifactInv /\ [Next]_vars => ArtifactInv'
<1> SUFFICES ASSUME ArtifactInv, [Next]_vars PROVE ArtifactInv'
  OBVIOUS
<1>1. FileInv /\ StoringInv /\ SweepInv /\ FileInv'
  BY FileStep DEF ArtifactInv
<1>2. ASSUME NEW p \in Pubs, Publish(p) PROVE StoringInv' /\ SweepInv'
  <2>1. Storing(p)'
    BY <1>1, <1>2, StoringStages, StoringEnds DEF Publish
  <2>2. \A q \in Pubs \ {p} : Storing(q)'
    BY <1>1, <1>2, StoringBeside
  <2> QED
    BY <1>1, <1>2, <2>1, <2>2, SweepBeside DEF StoringInv
<1>3. ASSUME ~\E p \in Pubs : Publish(p) PROVE StoringInv' /\ SweepInv'
  BY <1>1, <1>3, StoringSwept, SweepSwept DEF Next
<1> QED
  BY <1>1, <1>2, <1>3 DEF ArtifactInv

\* The invariant, for every set of publishers, uploads and cleanups and every number of
\* faults.
THEOREM ArtifactHolds == Spec => []ArtifactInv
<1> QED
  BY ArtifactInit, ArtifactStep, PTL DEF Spec

\* What the session's path names exists: a replaced recording is removed when its row has
\* been replaced, an expired row is never the active one, and a publication is refused
\* once its row was taken (completeStagedArtifactPublishes, cleanupExpiredStoredArtifacts).
THEOREM PublishedFileExists == Spec => []PublishedExists
<1>1. ArtifactInv => PublishedExists
  BY DEF ArtifactInv, FileInv
<1> QED
  BY <1>1, ArtifactHolds, PTL

\* The active row is the one the session's path names, and every variable has its type
\* (settleStoredArtifactWithTx beside the write of the path).
THEOREM LedgerMatchesOwner == Spec => []OwnerMatchesLedger
<1>1. ArtifactInv => OwnerMatchesLedger
  BY Types DEF ArtifactInv, FileInv, RowInv, OwnerInv, OwnerMatchesLedger, Published
<1> QED
  BY <1>1, ArtifactHolds, PTL

\* A file stays accounted for by a charged row until it is removed, whatever dies on the
\* way; what is not, a fault left beside its row, or its row was taken from a publisher
\* at work (rollbackStagedArtifact, releaseStoredArtifact).
THEOREM FilesAccounted == Spec => []NothingLost
<1>1. ArtifactInv => NothingLost
  <2>1. SUFFICES ASSUME ArtifactInv, NEW o \in objects, ~Charged(o[1])
                 PROVE  o \in stray \/ o[1] \in raced
    BY DEF NothingLost
  <2>2. o[1] \in Pubs /\ o[2] \in Stores /\ o = <<o[1], o[2]>>
    BY <2>1, Types DEF ArtifactInv, FileInv, RowInv
  <2>3. Bare(o[1])
    BY <2>1, <2>2 DEF ArtifactInv, StoringInv, Storing
  <2> QED
    BY <2>1, <2>2, <2>3 DEF Bare, Excused
<1> QED
  BY <1>1, ArtifactHolds, PTL

=============================================================================

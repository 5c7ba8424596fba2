---------------------------- MODULE AofTheorems ----------------------------
(* Rewrites, crashes, power losses and restarts keep the invariant of the  *)
(* append-only file; what follows from it.                                 *)
EXTENDS AofProofs

----------------------------------------------------------------------------
(* The rewrite.                                                            *)

(* What the file being written goes on from stays so in a step that leaves *)
(* the dataset, the buffer and the records of that file.                   *)
LEMMA SourcesStay ==
    ASSUME SourcesOK, UNCHANGED <<mode, db, aofBuf>>,
           incrs'[Current'].log = incrs[Current].log,
           \A e \in Datasets : Stands(e)' => Stands(e)
    PROVE  SourcesOK'
BY Zenon DEF SourcesOK

(* The steps of a rewrite and of its completion. *)
LEMMA RewriteInv ==
    ASSUME AofInv,
           createIncrFile \/ openNewIncrAofForAppend \/ backgroundRewriteDoneHandler
             \/ switchToNewBase \/ aofDelHistoryFiles \/ forgetHistory
    PROVE  AofInv'
<1> DEFINE L == Len(manifest.incr)
<1>0. /\ TypesOK /\ FilesOK /\ LogFacts /\ StagesOK /\ SyncOK /\ JobsOK
      /\ SourcesOK /\ SyncedInOrder
  BY LogShape DEF AofInv
<1>1. /\ L \in Nat \ {0} /\ DOMAIN manifest.incr = 1..L /\ Current = manifest.incr[L]
      /\ Current \in Nat /\ Current \in DOMAIN incrs
      /\ \A i \in 1..L : /\ manifest.incr[i] \in Nat /\ manifest.incr[i] \in DOMAIN incrs
                         /\ i < L => manifest.incr[i] < Current
                         /\ manifest.incr[i] # Current + 1
      /\ \A n \in DOMAIN incrs : incrs[n] \in File /\ incrs[n].synced <= Len(incrs[n].log)
  BY <1>0, SMTT(30) DEF LogFacts
<1>1a. /\ manifest.base \in Nat /\ manifest.incr \in Seq(Nat)
      /\ manifest.oldBases \in SUBSET Nat /\ manifest.oldIncrs \in SUBSET Nat
      /\ L \in Nat
  BY <1>0, <1>1 DEF TypesOK
<1>2. NewFile \in File /\ NewFile.synced <= Len(NewFile.log)
  BY DEF NewFile, File, Records
<1>3. CASE createIncrFile
  <2>1. /\ incrs' = [n \in DOMAIN incrs \cup {Current + 1} |->
                        IF n = Current + 1 THEN NewFile ELSE incrs[n]]
        /\ at = "open" /\ at' = "switch" /\ mode = "up"
        /\ UNCHANGED <<mode, fsync, now, db, aofBuf, late, postponed, bio, bases, manifest,
                       child, fault, revived>>
    BY <1>3 DEF createIncrFile
  <2>2. \A i \in 1..L : incrs'[manifest.incr[i]] = incrs[manifest.incr[i]]
    BY <2>1, <1>1
  <2>3. /\ Prefix' = Prefix /\ Intact(manifest)' = Intact(manifest)
        /\ Torn(manifest)' = Torn(manifest) /\ Unsynced' = Unsynced /\ Current' = Current
        /\ \A i \in 1..L : FileOf(i)' = FileOf(i)
    BY <1>0, <2>1, <2>2, FilesStay, Zenon
  <2>4. /\ DOMAIN incrs' = DOMAIN incrs \cup {Current + 1}
        /\ \A n \in DOMAIN incrs' : /\ incrs'[n] \in File
                                    /\ incrs'[n].synced <= Len(incrs'[n].log)
    BY <2>1, <1>1, <1>2
  <2>5. TypesOK'
    BY <1>0, <2>1, <2>4, Zenon DEF TypesOK, Stages
  <2>6. FilesOK'
    BY <1>0, <2>1, <2>4 DEF FilesOK
  <2>7. StagesOK'
    BY <1>0, <2>1, <2>3 DEF StagesOK
  <2>8. SyncOK'
    BY <1>0, <1>1, <2>1, <2>3, Zenon DEF SyncOK
  <2>9. JobsOK'
    BY <1>0, <2>1, <2>3 DEF JobsOK
  <2>10. SyncedInOrder'
    BY <1>0, <1>1, <2>1, <2>2, <2>3, Zenon DEF SyncedInOrder
  <2>11. SourcesOK'
    <3>1. L \in 1..L /\ incrs[Current] = FileOf(L) /\ incrs'[Current'] = FileOf(L)'
      BY <1>1, <2>1, <2>3 DEF FileOf
    <3>2. \A e : Stands(e)' => Stands(e)
      BY <2>1, <2>3 DEF Stands
    <3> QED
      BY <3>1, <3>2, <1>0, <2>1, <2>3, SourcesStay, Zenon
  <2> QED
    BY <2>5, <2>6, <2>7, <2>8, <2>9, <2>10, <2>11, Zenon DEF AofInv
<1>4. CASE backgroundRewriteDoneHandler
  <2>1. /\ bases' = [n \in DOMAIN bases \cup {manifest.base + 1} |->
                        IF n = manifest.base + 1 THEN child.data ELSE bases[n]]
        /\ at = "loop" /\ at' = "renamed" /\ mode = "up" /\ child' = NoChild
        /\ child.state # "none"
        /\ UNCHANGED <<mode, fsync, now, db, aofBuf, late, postponed, bio, incrs, manifest,
                       fault, revived>>
    BY <1>4 DEF backgroundRewriteDoneHandler, Running
  <2>2. manifest.base \in Nat /\ manifest.base \in DOMAIN bases /\ child.data \in Datasets
        /\ Empty \in Datasets /\ \A n \in DOMAIN bases : bases[n] \in Datasets
    BY <1>0 DEF TypesOK, FilesOK, Empty, Datasets
  <2>3. bases'[manifest.base] = bases[manifest.base] /\ child'.state = "none"
        /\ child' \in [state : {"none", "running", "done"}, data : Datasets]
    BY <2>1, <2>2 DEF NoChild
  <2>4. /\ Prefix' = Prefix /\ Intact(manifest)' = Intact(manifest)
        /\ Torn(manifest)' = Torn(manifest) /\ Unsynced' = Unsynced /\ Current' = Current
        /\ \A i \in 1..L : FileOf(i)' = FileOf(i)
    BY <1>0, <2>1, <2>3, FilesStay
  <2>5. TypesOK'
    BY <1>0, <2>1, <2>2, <2>3 DEF TypesOK, Stages
  <2>6. FilesOK'
    BY <1>0, <2>1 DEF FilesOK
  <2>7. StagesOK'
    BY <1>0, <2>1, <2>3, <2>4 DEF StagesOK
  <2>8. SyncOK'
    BY <1>0, <1>1, <2>1, <2>4, Zenon DEF SyncOK
  <2>9. JobsOK'
    BY <1>0, <2>1, <2>4 DEF JobsOK
  <2>10. SyncedInOrder'
    BY <1>0, <1>1, <2>1, <2>4, Zenon DEF SyncedInOrder
  <2>11. SourcesOK'
    <3>1. L \in 1..L /\ incrs[Current] = FileOf(L) /\ incrs'[Current'] = FileOf(L)'
      BY <1>1, <2>1, <2>4 DEF FileOf
    <3>2. \A e : Stands(e)' => Stands(e)
      BY <2>1, <2>3, <2>4 DEF Stands
    <3> QED
      BY <3>1, <3>2, <1>0, <2>1, <2>4, SourcesStay, Zenon
  <2> QED
    BY <2>5, <2>6, <2>7, <2>8, <2>9, <2>10, <2>11, Zenon DEF AofInv
<1>5. CASE aofDelHistoryFiles
  <2>1. /\ bases' = [n \in DOMAIN bases \ manifest.oldBases |-> bases[n]]
        /\ incrs' = [n \in DOMAIN incrs \ manifest.oldIncrs |-> incrs[n]]
        /\ at' = "deleted" /\ at = "history" /\ mode = "up"
        /\ UNCHANGED <<mode, fsync, now, db, aofBuf, late, postponed, bio, manifest, child,
                       fault, revived>>
    BY <1>5 DEF aofDelHistoryFiles
  <2>2. /\ manifest.base \in DOMAIN bases \ manifest.oldBases
        /\ \A i \in 1..L : manifest.incr[i] \in DOMAIN incrs \ manifest.oldIncrs
    BY <1>0, <1>1, SMTT(30) DEF TypesOK, FilesOK
  <2>3. /\ Prefix' = Prefix /\ Intact(manifest)' = Intact(manifest)
        /\ Torn(manifest)' = Torn(manifest) /\ Unsynced' = Unsynced /\ Current' = Current
        /\ \A i \in 1..L : FileOf(i)' = FileOf(i)
    BY <1>0, <2>1, <2>2, FilesStay
  <2>4. TypesOK'
    BY <1>0, <1>1, <2>1, Zenon DEF TypesOK, Stages
  <2>5. FilesOK'
    BY <1>0, <1>1, <2>1, <2>2, Zenon DEF FilesOK
  <2>6. StagesOK'
    BY <1>0, <2>1, <2>3 DEF StagesOK
  <2>7. SyncOK'
    BY <1>0, <1>1, <2>1, <2>3, Zenon DEF SyncOK
  <2>8. JobsOK'
    BY <1>0, <2>1, <2>3 DEF JobsOK
  <2>9. SyncedInOrder'
    BY <1>0, <1>1, <2>1, <2>2, <2>3, Zenon DEF SyncedInOrder
  <2>10. SourcesOK'
    <3>1. L \in 1..L /\ incrs[Current] = FileOf(L) /\ incrs'[Current'] = FileOf(L)'
      BY <1>1, <2>1, <2>2, <2>3 DEF FileOf
    <3>2. \A e : Stands(e)' => Stands(e)
      BY <2>1, <2>3 DEF Stands
    <3> QED
      BY <3>1, <3>2, <1>0, <2>1, <2>3, SourcesStay, Zenon
  <2> QED
    BY <2>4, <2>5, <2>6, <2>7, <2>8, <2>9, <2>10, Zenon DEF AofInv
<1>6. CASE forgetHistory
  <2>1. /\ manifest' = [manifest EXCEPT !.oldBases = {}, !.oldIncrs = {}]
        /\ at' = "loop" /\ at = "deleted" /\ mode = "up"
        /\ UNCHANGED <<mode, fsync, now, db, aofBuf, late, postponed, bio, bases, incrs, child,
                       fault, revived>>
    BY <1>6 DEF forgetHistory, persistAofManifest
  <2>2. /\ manifest' \in [base : Nat, incr : Seq(Nat), oldBases : SUBSET Nat,
                          oldIncrs : SUBSET Nat]
        /\ manifest'.incr = manifest.incr /\ manifest'.base = manifest.base
        /\ manifest'.oldBases = {} /\ manifest'.oldIncrs = {}
    BY <1>0, <2>1, Zenon DEF TypesOK
  <2>3. /\ Prefix' = Prefix /\ Intact(manifest)' = Intact(manifest)
        /\ Torn(manifest)' = Torn(manifest) /\ Unsynced' = Unsynced /\ Current' = Current
        /\ \A i \in 1..L : FileOf(i)' = FileOf(i)
    BY <1>0, <2>1, <2>2, FilesStay
  <2>4. TypesOK'
    BY <1>0, <2>1, <2>2 DEF TypesOK, Stages
  <2>5. FilesOK'
    BY <1>0, <2>1, <2>2 DEF FilesOK
  <2>6. StagesOK'
    BY <1>0, <2>1, <2>3 DEF StagesOK
  <2>7. SyncOK'
    BY <1>0, <1>1, <2>1, <2>2, <2>3, SMTT(30) DEF SyncOK
  <2>8. JobsOK'
    BY <1>0, <2>1, <2>2, <2>3 DEF JobsOK
  <2>9. SyncedInOrder'
    BY <1>0, <1>1, <2>1, <2>2, <2>3, Zenon DEF SyncedInOrder
  <2>10. SourcesOK'
    <3>1. L \in 1..L /\ incrs[Current] = FileOf(L) /\ incrs'[Current'] = FileOf(L)'
      BY <1>1, <2>1, <2>2, <2>3 DEF FileOf
    <3>2. \A e : Stands(e)' => Stands(e)
      BY <2>1, <2>3 DEF Stands
    <3> QED
      BY <3>1, <3>2, <1>0, <2>1, <2>3, SourcesStay, Zenon
  <2> QED
    BY <2>4, <2>5, <2>6, <2>7, <2>8, <2>9, <2>10, Zenon DEF AofInv
<1>7. CASE openNewIncrAofForAppend
  <2>1. /\ manifest' = [manifest EXCEPT !.incr = Append(@, Current + 1)]
        /\ bio' = Append(bio, Job("close", Current))
        /\ child' = child \/ child' = [state |-> "running", data |-> db]
        /\ at' = "loop" /\ at = "switch" /\ mode = "up"
        /\ UNCHANGED <<mode, fsync, now, db, aofBuf, late, postponed, bases, incrs, fault,
                       revived>>
    BY <1>7 DEF openNewIncrAofForAppend, persistAofManifest, bioSubmitJob
  <2>2. /\ manifest' \in [base : Nat, incr : Seq(Nat), oldBases : SUBSET Nat,
                          oldIncrs : SUBSET Nat]
        /\ manifest'.incr = Append(manifest.incr, Current + 1)
        /\ manifest'.base = manifest.base
        /\ manifest'.oldBases = manifest.oldBases /\ manifest'.oldIncrs = manifest.oldIncrs
    <3>1. PICK s \in Seq(Nat) : s = Append(manifest.incr, Current + 1)
      <4>1. Append(manifest.incr, Current + 1) \in Seq(Nat)
        BY <1>0, <1>1, SMTT(30) DEF TypesOK
      <4> QED
        BY <4>1, Zenon
    <3>2. manifest' = [manifest EXCEPT !.incr = s]
      BY <2>1, <3>1
    <3> QED
      BY <1>0, <3>1, <3>2, Zenon DEF TypesOK
  <2>3. /\ Len(manifest'.incr) = L + 1 /\ DOMAIN manifest'.incr = 1..(L + 1)
        /\ manifest'.incr[L + 1] = Current + 1
        /\ \A i \in 1..L : manifest'.incr[i] = manifest.incr[i]
    BY <1>0, <1>1, <2>2 DEF TypesOK
  <2>4. Current' = Current + 1 /\ incrs'[Current + 1] = NewFile /\ Current + 1 \in DOMAIN incrs'
        /\ aofBuf = <<>> /\ child.state = "none"
    BY <1>0, <2>1, <2>3 DEF Current, Last, StagesOK
  <2>5. /\ bio' \in Seq(Jobs) /\ InFileOrder(bio', Current)
        /\ Len(bio') = Len(bio) + 1 /\ bio'[Len(bio) + 1].file = Current
        /\ \A i \in 1..Len(bio) : bio'[i] = bio[i]
    <3>1. bio \in Seq(Jobs) /\ InFileOrder(bio, Current)
      BY <1>0 DEF TypesOK, JobsOK
    <3> QED
      BY <3>1, <2>1, <1>1, Submitted
  <2>6. TypesOK'
    <3>1. child' \in [state : {"none", "running", "done"}, data : Datasets]
      BY <1>0, <2>1 DEF TypesOK
    <3> QED
      BY <3>1, <1>0, <2>1, <2>2, <2>5, Zenon DEF TypesOK, Stages
  <2>7. FilesOK'
    <3>1. manifest'.incr # <<>>
      BY <2>3
    <3>2. \A i \in DOMAIN manifest'.incr : manifest'.incr[i] \in DOMAIN incrs'
      BY <1>1, <2>1, <2>3, <2>4
    <3>3. \A i, j \in DOMAIN manifest'.incr : i < j => manifest'.incr[i] < manifest'.incr[j]
      <4> SUFFICES ASSUME NEW i \in 1..(L + 1), NEW j \in 1..(L + 1), i < j
                   PROVE  manifest'.incr[i] < manifest'.incr[j]
        BY <2>3
      <4>1. i \in 1..L
        BY <1>1a
      <4>2. CASE j = L + 1
        <5>1. manifest.incr[i] <= Current
          <6>1. i = L \/ i < L
            BY <4>1, <1>1a
          <6>2. manifest.incr[i] \in Nat /\ Current \in Nat
            BY <4>1, <1>1
          <6> QED
            BY <6>1, <6>2, <4>1, <1>1
        <5> QED
          BY <5>1, <4>1, <4>2, <1>1, <2>3
      <4>3. CASE j # L + 1
        <5>1. j \in 1..L
          BY <4>3, <1>1a
        <5> QED
          BY <5>1, <4>1, <1>0, <1>1, <2>3, Zenon DEF FilesOK
      <4> QED
        BY <4>2, <4>3
    <3>4. \A i \in DOMAIN manifest'.incr, n \in manifest'.oldIncrs : n < manifest'.incr[i]
      <4> SUFFICES ASSUME NEW i \in 1..(L + 1), NEW n \in manifest.oldIncrs
                   PROVE  n < manifest'.incr[i]
        BY <2>2, <2>3, Zenon
      <4>1. L \in 1..L /\ n \in Nat
        BY <1>1, <1>1a
      <4>2. n < Current
        BY <4>1, <1>0, <1>1, Zenon DEF FilesOK
      <4>3. CASE i = L + 1
        BY <4>1, <4>2, <4>3, <1>1, <2>3, SMTT(30)
      <4>4. CASE i # L + 1
        <5>1. i \in 1..L
          BY <4>4, <1>1a
        <5>2. n < manifest.incr[i]
          BY <5>1, <1>0, <1>1, Zenon DEF FilesOK
        <5> QED
          BY <5>1, <5>2, <2>3, <4>4
      <4> QED
        BY <4>3, <4>4
    <3> QED
      BY <3>1, <3>2, <3>3, <3>4, <1>0, <2>1, <2>2, Zenon DEF FilesOK
  <2>8. \A i \in 1..(L + 1) : FileOf(i)' = IF i = L + 1 THEN NewFile ELSE FileOf(i)
    BY <1>1, <2>1, <2>3, <2>4 DEF FileOf
  <2>9. Prefix' = Held(manifest)
    <3>1. [j \in 1..(Len(manifest'.incr) - 1) |-> FileOf(j)'.log] = Logs(manifest)
      <4>1. Len(manifest'.incr) - 1 = L
        BY <1>1, <2>3
      <4>2. \A j \in 1..L : j \in 1..(L + 1) /\ j # L + 1
        BY <1>1
      <4>3. \A j \in 1..L : FileOf(j)'.log = incrs[manifest.incr[j]].log
        BY <4>2, <2>8 DEF FileOf
      <4> QED
        BY <4>1, <4>3 DEF Logs
    <3>2. Before(Len(manifest.incr))' = Concat(Logs(manifest))
      BY <3>1, Zenon DEF Before
    <3> QED
      BY <3>2, <2>1, <2>2 DEF Prefix, Held
  <2>10. Intact(manifest)' => Intact(manifest)
    <3>1. \A i \in 1..L : i \in 1..(L + 1)
      BY <1>1a
    <3> QED
      BY <3>1, <1>1, <2>1, <2>3, Zenon DEF Intact
  <2>11. Intact(manifest) => db = Held(manifest)
    <3> SUFFICES ASSUME Intact(manifest) PROVE db = Held(manifest)
      OBVIOUS
    <3>1. Prefix \in Datasets /\ Held(manifest) \in Datasets
          /\ Held(manifest) = Replay(Prefix, incrs[Current].log)
      BY <1>0 DEF LogFacts
    <3>2. db = Replay(Replay(Prefix, incrs[Current].log), <<>>)
      BY <3>1, <1>0, <2>1, <2>4, Zenon DEF SourcesOK, Stands
    <3> QED
      BY <3>1, <3>2, ReplayFacts, Zenon
  <2>12. StagesOK'
    BY <1>0, <2>1, <2>4, <2>9, <2>10, <2>11, SMTT(30) DEF StagesOK
  <2>13. \A i \in 1..(L + 1) : FileOf(i)'.torn = <<>>
    BY <1>0, <1>1, <2>1, <2>8 DEF SyncOK, Torn, FileOf, NewFile
  <2>14. SyncOK'
    <3>1. Torn(manifest)' = {}
      BY <2>3, <2>13 DEF Torn, FileOf
    <3>2. NewFile.synced = Len(NewFile.log)
      BY DEF NewFile
    <3>3. fsync = "always" /\ ~revived =>
             \A i \in 1..(L + 1) : FileOf(i)'.synced = Len(FileOf(i)'.log)
      BY <1>0, <1>1, <2>1, <2>8, <3>2, SMTT(30) DEF SyncOK
    <3> QED
      BY <3>1, <3>3, <1>0, <2>1, <2>3, <2>13 DEF SyncOK
  <2>15. Unsynced' = Unsynced
    <3>1. NewFile.synced = Len(NewFile.log) /\ Len(NewFile.log) = 0
      BY DEF NewFile
    <3>2. Unsynced' = {i \in 1..(L + 1) : FileOf(i)'.synced < Len(FileOf(i)'.log)}
      BY <2>3 DEF Unsynced, FileOf
    <3>3. Unsynced = {i \in 1..L : FileOf(i).synced < Len(FileOf(i).log)}
      BY <1>1 DEF Unsynced, FileOf
    <3> QED
      BY <3>1, <3>2, <3>3, <1>1, <2>8, SMTT(30)
  <2>16. JobsOK'
    <3>1. Len(bio) \in Nat /\ DOMAIN bio = 1..Len(bio) /\ DOMAIN bio' = 1..(Len(bio) + 1)
      BY <1>0, <2>5, SMTT(30) DEF LogFacts
    <3>2. \A i \in 1..Len(bio') : bio'[i].file \in Nat
      BY <2>6, <2>7, LogShape, Zenon DEF LogFacts
    <3>3. InFileOrder(bio', Current + 1)
      BY <3>2, <1>1, <2>5 DEF InFileOrder
    <3>4. ASSUME ~revived, NEW i \in Unsynced, i < L + 1
          PROVE  \E j \in DOMAIN bio' : bio'[j].file = manifest'.incr[i]
      <4>1. i \in 1..L
        BY <3>4, <1>1 DEF Unsynced
      <4>2. CASE i = L
        <5>1. Len(bio) + 1 \in DOMAIN bio'
          BY <3>1
        <5>2. bio'[Len(bio) + 1].file = manifest'.incr[i]
          BY <4>1, <4>2, <1>1, <2>3, <2>5, Zenon
        <5> QED
          BY <5>1, <5>2
      <4>3. CASE i < L
        <5>1. PICK j \in DOMAIN bio : bio[j].file = manifest.incr[i]
          BY <4>3, <3>4, <1>0, <2>1 DEF JobsOK
        <5> QED
          BY <5>1, <4>1, <3>1, <2>3, <2>5
      <4> QED
        BY <4>1, <4>2, <4>3, <1>1, SMTT(30)
    <3> QED
      BY <3>3, <3>4, <2>1, <2>3, <2>4, <2>15, Zenon DEF JobsOK
  <2>17. SyncedInOrder'
    <3> SUFFICES ASSUME ~revived, NEW i \in 1..(L + 1), NEW j \in 1..(L + 1), i < j,
                        i \in Unsynced
                 PROVE  FileOf(j)'.synced = 0
      BY <2>1, <2>3, <2>15 DEF SyncedInOrder, FileOf
    <3>1. CASE j = L + 1
      BY <3>1, <2>8 DEF NewFile
    <3>2. CASE j # L + 1
      <4>1. i \in 1..L /\ j \in 1..L
        BY <3>2, <1>1a, SMTT(30)
      <4> QED
        BY <4>1, <3>2, <1>0, <1>1, <2>8, Zenon DEF SyncedInOrder, FileOf
    <3> QED
      BY <3>1, <3>2
  <2>18. SourcesOK'
    <3>1. ASSUME NEW e \in Datasets, Stands(e)' PROVE e = db
      BY <3>1, <2>1, <2>4, <2>9, <2>10, <2>11 DEF Stands
    <3>2. incrs'[Current'].log = <<>>
      BY <2>4, SMTT(30) DEF NewFile
    <3>3. \A e \in Datasets : Replay(Replay(e, <<>>), <<>>) = e
      BY ReplayFacts, Zenon
    <3>4. \A i \in 1..Len(aofBuf') : ~Unfinished(aofBuf'[i])
      BY <2>1, <2>4
    <3> QED
      BY <3>1, <3>2, <3>3, <3>4, <2>1, <2>4, Zenon DEF SourcesOK
  <2> QED
    BY <2>6, <2>7, <2>12, <2>14, <2>16, <2>17, <2>18, Zenon DEF AofInv
<1>8. CASE switchToNewBase
  <2>1. /\ at' = "history" /\ at = "renamed" /\ mode = "up"
        /\ UNCHANGED <<mode, fsync, now, db, aofBuf, late, postponed, bio, bases, incrs, child,
                       fault, revived>>
    BY <1>8 DEF switchToNewBase
  <2>2. /\ manifest'.incr = <<Current>> /\ manifest'.base = manifest.base + 1
        /\ manifest'.oldBases = manifest.oldBases \cup {manifest.base}
        /\ manifest'.oldIncrs = manifest.oldIncrs \cup {manifest.incr[i] : i \in 1..(L - 1)}
        /\ manifest' \in [base : Nat, incr : Seq(Nat), oldBases : SUBSET Nat,
                          oldIncrs : SUBSET Nat]
    <3>1. PICK old \in SUBSET Nat : old = {manifest.incr[i] : i \in 1..(L - 1)}
      <4>1. \A i \in 1..(L - 1) : manifest.incr[i] \in Nat
        BY <1>1
      <4>2. {manifest.incr[i] : i \in 1..(L - 1)} \in SUBSET Nat
        BY <4>1
      <4> QED
        BY <4>2, Zenon
    <3>2. PICK s \in Seq(Nat) : s = <<Current>>
      <4>1. <<Current>> \in Seq(Nat)
        BY <1>1
      <4> QED
        BY <4>1, Zenon
    <3>3. manifest' = [[manifest EXCEPT !.base = @ + 1, !.oldBases = @ \cup {manifest.base}]
                          EXCEPT !.incr = s, !.oldIncrs = @ \cup old]
      <4>1. getNewBaseFileNameAndMarkPreAsHistory(manifest).incr = manifest.incr
        BY <1>0 DEF getNewBaseFileNameAndMarkPreAsHistory, TypesOK
      <4> QED
        BY <4>1, <3>1, <3>2, <1>8
           DEF switchToNewBase, persistAofManifest, markRewrittenIncrAofAsHistory,
               getNewBaseFileNameAndMarkPreAsHistory, Current
    <3>4. manifest \in [base : Nat, incr : Seq(Nat), oldBases : SUBSET Nat,
                        oldIncrs : SUBSET Nat]
      BY <1>0 DEF TypesOK
    <3>5. /\ manifest'.incr = s /\ manifest'.base = manifest.base + 1
          /\ manifest'.oldBases = manifest.oldBases \cup {manifest.base}
          /\ manifest'.oldIncrs = manifest.oldIncrs \cup old
          /\ manifest' \in [base : Nat, incr : Seq(Nat), oldBases : SUBSET Nat,
                            oldIncrs : SUBSET Nat]
      <4>1. PICK m : m = [manifest EXCEPT !.base = @ + 1, !.oldBases = @ \cup {manifest.base}]
        OBVIOUS
      <4>2. m = [base |-> manifest.base + 1, incr |-> manifest.incr,
                 oldBases |-> manifest.oldBases \cup {manifest.base},
                 oldIncrs |-> manifest.oldIncrs]
        BY <4>1, <3>4, Zenon
      <4>3. manifest' = [m EXCEPT !.incr = s, !.oldIncrs = @ \cup old]
        BY <4>1, <3>3
      <4>4. manifest' = [base |-> manifest.base + 1, incr |-> s,
                         oldBases |-> manifest.oldBases \cup {manifest.base},
                         oldIncrs |-> manifest.oldIncrs \cup old]
        BY <4>2, <4>3, Zenon
      <4>5. /\ manifest.base + 1 \in Nat
            /\ manifest.oldBases \cup {manifest.base} \in SUBSET Nat
            /\ manifest.oldIncrs \cup old \in SUBSET Nat
        <5>1. manifest.base + 1 \in Nat
          BY <1>1a
        <5>2. manifest.oldBases \cup {manifest.base} \in SUBSET Nat
          BY <1>1a
        <5>3. manifest.oldIncrs \cup old \in SUBSET Nat
          BY <1>1a, <3>1
        <5> QED
          BY <5>1, <5>2, <5>3
      <4>6. manifest' \in [base : Nat, incr : Seq(Nat), oldBases : SUBSET Nat,
                           oldIncrs : SUBSET Nat]
        BY <4>4, <4>5
      <4> QED
        BY <4>4, <4>6
    <3> QED
      BY <3>1, <3>2, <3>5
  <2>3. /\ Len(manifest'.incr) = 1 /\ DOMAIN manifest'.incr = 1..1
        /\ manifest'.incr[1] = Current /\ Current' = Current
    BY <2>2 DEF Current, Last
  <2>4. TypesOK'
    BY <1>0, <2>1, <2>2, Zenon DEF TypesOK, Stages
  <2>5. FilesOK'
    <3>1. manifest'.incr # <<>>
      BY <2>3
    <3>2. \A n \in manifest'.oldIncrs : n < Current
      <4> TAKE n \in manifest'.oldIncrs
      <4>1. CASE n \in manifest.oldIncrs
        <5>1. L \in 1..L
          BY <1>1
        <5> QED
          BY <5>1, <4>1, <1>0, <1>1 DEF FilesOK
      <4>2. CASE n \in {manifest.incr[i] : i \in 1..(L - 1)}
        <5>1. PICK i \in 1..(L - 1) : n = manifest.incr[i]
          BY <4>2, <2>2
        <5>2. i \in 1..L /\ i < L
          BY <1>1a, SMTT(30)
        <5> QED
          BY <5>1, <5>2, <1>1
      <4> QED
        BY <4>1, <4>2, <2>2
    <3>3. manifest'.base \in DOMAIN bases' /\ \A n \in manifest'.oldBases : n < manifest'.base
      <4>1. manifest.base + 1 \in DOMAIN bases /\ manifest.base \in Nat
        BY <1>0, <1>1a, <2>1, Zenon DEF StagesOK
      <4>2. \A n \in manifest.oldBases : n \in Nat /\ n < manifest.base
        BY <1>0, <1>1a DEF FilesOK
      <4>3. \A n \in manifest.oldBases \cup {manifest.base} : n < manifest.base + 1
        BY <4>1, <4>2
      <4> QED
        BY <4>1, <4>3, <2>1, <2>2
    <3> QED
      BY <3>1, <3>2, <3>3, <1>1, <2>1, <2>3 DEF FilesOK
  <2>6. Prefix' = bases[manifest.base + 1]
    <3>1. [j \in 1..(Len(manifest'.incr) - 1) |-> FileOf(j)'.log] = <<>>
      BY <2>3
    <3>2. Before(Len(manifest.incr))' = <<>>
      BY <3>1, ConcatFacts, Zenon DEF Before
    <3>3. bases'[manifest'.base] = bases[manifest.base + 1]
          /\ bases[manifest.base + 1] \in Datasets
      BY <1>0, <2>1, <2>2, Zenon DEF StagesOK, TypesOK
    <3> QED
      BY <3>2, <3>3, ReplayFacts, Zenon DEF Prefix
  <2>8. StagesOK'
    BY <1>0, <2>1 DEF StagesOK
  <2>9. FileOf(1)' = FileOf(L)
    BY <1>1, <2>1, <2>3, Zenon DEF FileOf
  <2>10. SyncOK'
    <3>1. Torn(manifest)' = {}
      BY <1>0, <1>1, <2>1, <2>3, SMTT(30) DEF SyncOK, Torn
    <3>2. fsync = "always" /\ ~revived =>
             FileOf(1)'.synced = Len(FileOf(1)'.log) /\ FileOf(1)'.torn = <<>>
      BY <1>0, <1>1, <2>1, <2>9, SMTT(30) DEF SyncOK
    <3> QED
      BY <3>1, <3>2, <1>0, <2>1, <2>3, SMTT(30) DEF SyncOK
  <2>11. JobsOK'
    BY <1>0, <2>1, <2>3 DEF JobsOK, Unsynced
  <2>12. SyncedInOrder'
    BY <2>3 DEF SyncedInOrder
  <2>13. SourcesOK'
    <3>1. \A e : Stands(e)' => Stands(e)
      BY <1>0, <2>1, <2>6, Zenon DEF Stands, StagesOK
    <3> QED
      BY <3>1, <1>0, <2>1, <2>3, SourcesStay, Zenon
  <2> QED
    BY <2>4, <2>5, <2>8, <2>10, <2>11, <2>12, <2>13, Zenon DEF AofInv
<1> QED
  BY <1>3, <1>4, <1>5, <1>6, <1>7, <1>8

----------------------------------------------------------------------------
(* Faults and restart.                                                     *)

(* A server that dies has written part of the buffer, to the last file. *)
LEMMA DyingFacts ==
    ASSUME TypesOK, FilesOK, NEW last \in Dying
    PROVE  /\ last \in [DOMAIN incrs -> File] /\ DOMAIN last = DOMAIN incrs
           /\ \A n \in DOMAIN incrs : /\ n # Current => last[n] = incrs[n]
                                      /\ last[n].synced = incrs[n].synced
                                      /\ last[n].synced <= Len(last[n].log)
<1>0. LogFacts
  BY LogShape
<1>1. ASSUME NEW n \in 0..Len(aofBuf), NEW cut \in BOOLEAN, cut => n < Len(aofBuf),
             last = WrittenPart(n, cut)
      PROVE  /\ last \in [DOMAIN incrs -> File] /\ DOMAIN last = DOMAIN incrs
             /\ \A m \in DOMAIN incrs : /\ m # Current => last[m] = incrs[m]
                                        /\ last[m].synced = incrs[m].synced
                                        /\ last[m].synced <= Len(last[m].log)
  <2>1. PICK f \in File : f = incrs[Current] /\ Current \in DOMAIN incrs
    BY <1>0 DEF LogFacts
  <2>2. f.log \in Seq(Records) /\ f.synced \in 0..Len(f.log) /\ aofBuf \in Seq(Records)
    BY <2>1, <1>0 DEF LogFacts, TypesOK
  <2>3. PICK part \in Seq(Records) : part = SubSeq(aofBuf, 1, n)
    <3>1. SubSeq(aofBuf, 1, n) \in Seq(Records)
      BY <2>2
    <3> QED
      BY <3>1, Zenon
  <2>4. PICK l \in Seq(Records) : l = f.log \o part /\ Len(l) = Len(f.log) + Len(part)
    <3>1. f.log \o part \in Seq(Records) /\ Len(f.log \o part) = Len(f.log) + Len(part)
      BY <2>2
    <3> QED
      BY <3>1, Zenon
  <2>5. Written(f, part) = [log |-> l, synced |-> f.synced, torn |-> f.torn]
    <3>1. [f EXCEPT !.log = l] = [log |-> l, synced |-> f.synced, torn |-> f.torn]
      BY SMTT(30) DEF File
    <3> QED
      BY <3>1, <2>4 DEF Written
  <2>6a. PICK torn \in Records : torn = IF cut THEN aofBuf[n + 1] ELSE <<>>
    <3>1. cut => aofBuf[n + 1] \in Records
      BY <2>2, <1>1
    <3>2. <<>> \in Records
      BY DEF Records
    <3> QED
      BY <3>1, <3>2
  <2>6. PICK g \in File : g = [log |-> l, synced |-> f.synced, torn |-> torn]
    BY <2>2, Zenon DEF File
  <2>7. [Written(f, part) EXCEPT !.torn = torn] = g
    BY <2>5, <2>6
  <2>8. last = [incrs EXCEPT ![Current] = g]
    BY <1>1, <2>1, <2>3, <2>6a, <2>7, Zenon DEF WrittenPart
  <2>9. incrs \in [DOMAIN incrs -> File]
    BY DEF TypesOK
  <2>10. last \in [DOMAIN incrs -> File] /\ DOMAIN last = DOMAIN incrs
    BY <2>8, <2>9, Zenon
  <2>11. last[Current] = g /\ \A m \in DOMAIN incrs : m # Current => last[m] = incrs[m]
    BY <2>1, <2>8
  <2>12. g.synced = incrs[Current].synced /\ g.synced <= Len(g.log)
    <3>1. Len(part) \in Nat /\ Len(f.log) \in Nat
      BY <2>2
    <3> QED
      BY <3>1, <2>1, <2>2, <2>4, <2>6
  <2>13. \A m \in DOMAIN incrs : incrs[m].synced <= Len(incrs[m].log)
    BY DEF TypesOK
  <2> QED
    BY <2>10, <2>11, <2>12, <2>13
<1>2. CASE last = incrs
  BY <1>2 DEF TypesOK
<1>3. \/ last = incrs
      \/ \E n \in 0..Len(aofBuf) : \E cut \in BOOLEAN :
            (cut => n < Len(aofBuf)) /\ last = WrittenPart(n, cut)
  <2>1. Len(aofBuf) \in Nat
    BY DEF TypesOK
  <2>2. \A n \in 0..(Len(aofBuf) - 1) : n \in 0..Len(aofBuf) /\ n < Len(aofBuf)
    BY <2>1
  <2> QED
    BY <2>2, Zenon DEF Dying
<1> QED
  BY <1>1, <1>2, <1>3

(* A crash and a power loss. *)
LEMMA FaultInv ==
    ASSUME AofInv, ProcessCrash \/ PowerLoss
    PROVE  AofInv'
<1> DEFINE L == Len(manifest.incr)
<1>0. /\ TypesOK /\ FilesOK /\ LogFacts /\ StagesOK /\ SyncOK /\ SyncedInOrder
  BY LogShape DEF AofInv
<1>1. /\ L \in Nat \ {0} /\ DOMAIN manifest.incr = 1..L /\ Current = manifest.incr[L]
      /\ \A i \in 1..L : /\ manifest.incr[i] \in Nat /\ manifest.incr[i] \in DOMAIN incrs
                         /\ i < L => manifest.incr[i] < Current
                         /\ i # L => manifest.incr[i] # Current
  BY <1>0 DEF LogFacts
<1>2. PICK kind \in {"process", "power"} :
          /\ Dead(kind)
          /\ kind = "process" => mode = "up" /\ incrs' \in Dying
          /\ kind = "power" => PowerLoss
  BY DEF ProcessCrash, PowerLoss
<1>3. /\ fault' = kind /\ mode' = "down" /\ db' = Empty /\ aofBuf' = <<>> /\ late' = 0
      /\ postponed' = FALSE /\ bio' = <<>> /\ at' = "loop" /\ child' = NoChild
      /\ UNCHANGED <<fsync, now, bases, manifest, revived>>
  BY <1>2 DEF Dead
<1>4. ASSUME incrs' \in [DOMAIN incrs -> File], DOMAIN incrs' = DOMAIN incrs,
             \A n \in DOMAIN incrs : incrs'[n].synced <= Len(incrs'[n].log),
             fsync = "always" /\ ~revived =>
                \A i \in 1..L : i < L =>
                   FileOf(i)'.synced = Len(FileOf(i)'.log) /\ FileOf(i)'.torn = <<>>,
             kind = "process" => Torn(manifest)' \subseteq {L},
             kind = "power" => Unsynced' = {},
             SyncedInOrder'
      PROVE  AofInv'
  <2>1. Empty \in Datasets
    BY DEF Empty, Datasets
  <2>2. child' \in [state : {"none", "running", "done"}, data : Datasets] /\ child'.state = "none"
    BY <2>1, <1>3 DEF NoChild
  <2>3. TypesOK'
    <3>1. <<>> \in Seq(Records) /\ <<>> \in Seq(Jobs)
      OBVIOUS
    <3> QED
      BY <3>1, <2>1, <2>2, <1>0, <1>3, <1>4, Zenon DEF TypesOK, Stages
  <2>4. FilesOK'
    BY <1>0, <1>3, <1>4 DEF FilesOK
  <2>5. StagesOK'
    BY <2>2, <1>2, <1>3 DEF StagesOK
  <2>6. SyncOK'
    BY <1>1, <1>3, <1>4 DEF SyncOK
  <2>7. JobsOK'
    BY <1>3 DEF JobsOK, InFileOrder
  <2>8. SourcesOK'
    BY <1>3 DEF SourcesOK
  <2> QED
    BY <2>3, <2>4, <2>5, <2>6, <2>7, <2>8, <1>4, Zenon DEF AofInv
<1>5. CASE kind = "process"
  <2>1. /\ incrs' \in [DOMAIN incrs -> File] /\ DOMAIN incrs' = DOMAIN incrs
        /\ \A n \in DOMAIN incrs : /\ n # Current => incrs'[n] = incrs[n]
                                   /\ incrs'[n].synced = incrs[n].synced
                                   /\ incrs'[n].synced <= Len(incrs'[n].log)
    BY <1>0, <1>2, <1>5, DyingFacts, Zenon
  <2>2. \A i \in 1..L : i # L => FileOf(i)' = FileOf(i)
    BY <2>1, <1>1, <1>3 DEF FileOf
  <2>3. \A i \in 1..L : FileOf(i).torn = <<>>
    BY <1>0, <1>1, <1>2, <1>5 DEF SyncOK, Torn, FileOf
  <2>4. Torn(manifest)' \subseteq {L}
    BY <2>2, <2>3, <1>1, <1>3 DEF Torn, FileOf
  <2>5. SyncedInOrder'
    <3> SUFFICES ASSUME ~revived, NEW i \in 1..L, NEW j \in 1..L, i < j, i \in Unsynced'
                 PROVE  incrs'[manifest.incr[j]].synced = 0
      BY <1>1, <1>3 DEF SyncedInOrder
    <3>1. i # L
      BY <1>1
    <3>2. i \in Unsynced
      BY <3>1, <2>2, <1>1, <1>3 DEF Unsynced, FileOf
    <3> QED
      BY <3>2, <2>1, <1>0, <1>1, Zenon DEF SyncedInOrder
  <2>6. fsync = "always" /\ ~revived =>
           \A i \in 1..L : i < L =>
              FileOf(i)'.synced = Len(FileOf(i)'.log) /\ FileOf(i)'.torn = <<>>
    BY <2>2, <1>0, <1>1 DEF SyncOK
  <2> QED
    BY <2>1, <2>4, <2>5, <2>6, <1>4, <1>5, Zenon
<1>6. CASE kind = "power"
  <2>1. PICK last \in Dying :
          \E n \in [DOMAIN last -> 0..MaxRecords], cut \in [DOMAIN last -> BOOLEAN] :
             /\ \A i \in DOMAIN last :
                   /\ n[i] \in last[i].synced..Len(last[i].log)
                   /\ cut[i] => n[i] < Len(last[i].log) \/ last[i].torn # <<>>
             /\ incrs' = [i \in DOMAIN last |-> Survives(last[i], n[i], cut[i])]
    BY <1>2, <1>6 DEF PowerLoss
  <2>2. PICK n \in [DOMAIN last -> 0..MaxRecords], cut \in [DOMAIN last -> BOOLEAN] :
             /\ \A i \in DOMAIN last :
                   /\ n[i] \in last[i].synced..Len(last[i].log)
                   /\ cut[i] => n[i] < Len(last[i].log) \/ last[i].torn # <<>>
             /\ incrs' = [i \in DOMAIN last |-> Survives(last[i], n[i], cut[i])]
    BY <2>1, Zenon
  <2>3. /\ last \in [DOMAIN incrs -> File] /\ DOMAIN last = DOMAIN incrs
        /\ \A m \in DOMAIN incrs : m # Current => last[m] = incrs[m]
    BY <1>0, DyingFacts
  <2>3a. \A m \in DOMAIN incrs : \A c \in BOOLEAN :
            n[m] \in 0..Len(last[m].log) =>
               (IF ~c THEN <<>> ELSE IF n[m] < Len(last[m].log) THEN last[m].log[n[m] + 1]
                ELSE last[m].torn) \in Records
    <3> SUFFICES ASSUME NEW m \in DOMAIN incrs, n[m] \in 0..Len(last[m].log)
                 PROVE  /\ <<>> \in Records /\ last[m].torn \in Records
                        /\ n[m] < Len(last[m].log) => last[m].log[n[m] + 1] \in Records
      BY Zenon
    <3>1. last[m].log \in Seq(Records) /\ last[m].torn \in Records /\ <<>> \in Records
      BY <2>3 DEF File, Records
    <3> QED
      BY <3>1
  <2>4. ASSUME NEW m \in DOMAIN incrs
        PROVE  /\ incrs'[m] \in File /\ incrs'[m].synced = Len(incrs'[m].log)
               /\ ~cut[m] => incrs'[m].torn = <<>>
    <3>1. /\ last[m].log \in Seq(Records) /\ last[m].synced \in Nat
          /\ n[m] \in last[m].synced..Len(last[m].log) /\ cut[m] \in BOOLEAN
      BY <2>2, <2>3 DEF File
    <3>2. PICK l \in Seq(Records) : l = SubSeq(last[m].log, 1, n[m]) /\ Len(l) = n[m]
      <4>1. /\ SubSeq(last[m].log, 1, n[m]) \in Seq(Records)
            /\ Len(SubSeq(last[m].log, 1, n[m])) = n[m]
        BY <3>1, SMTT(30)
      <4> QED
        BY <4>1, Zenon
    <3>3. n[m] \in Nat /\ n[m] \in 0..Len(last[m].log)
      BY <3>1
    <3>4. PICK torn \in Records :
             torn = IF ~cut[m] THEN <<>>
                    ELSE IF n[m] < Len(last[m].log) THEN last[m].log[n[m] + 1] ELSE last[m].torn
      BY <2>3a, <3>1, <3>3, Zenon
    <3>5. incrs'[m] = [log |-> l, synced |-> n[m], torn |-> torn]
      BY <2>2, <2>3, <3>2, <3>4 DEF Survives
    <3> QED
      BY <3>1, <3>2, <3>3, <3>4, <3>5 DEF File
  <2>5. incrs' \in [DOMAIN incrs -> File] /\ DOMAIN incrs' = DOMAIN incrs
    BY <2>2, <2>3, <2>4
  <2>6. \A m \in DOMAIN incrs : incrs'[m].synced <= Len(incrs'[m].log)
    BY <2>4 DEF File
  <2>7. Unsynced' = {} /\ SyncedInOrder'
    <3>1. ASSUME NEW i \in 1..L
          PROVE  incrs'[manifest.incr[i]].synced = Len(incrs'[manifest.incr[i]].log)
                 /\ incrs'[manifest.incr[i]].synced \in Nat
      BY <2>4, <1>1 DEF File
    <3>2. ASSUME NEW i \in 1..L
          PROVE  ~(incrs'[manifest'.incr[i]].synced < Len(incrs'[manifest'.incr[i]].log))
      BY <3>1, <1>3
    <3>3. DOMAIN manifest'.incr = 1..L
      BY <1>1, <1>3
    <3>4. Unsynced' = {}
      BY <3>2, <3>3 DEF Unsynced
    <3> QED
      BY <3>4 DEF SyncedInOrder
  <2>8. fsync = "always" /\ ~revived =>
           \A i \in 1..L : i < L =>
              FileOf(i)'.synced = Len(FileOf(i)'.log) /\ FileOf(i)'.torn = <<>>
    <3> SUFFICES ASSUME fsync = "always", ~revived, NEW i \in 1..L, i < L
                 PROVE  FileOf(i)'.synced = Len(FileOf(i)'.log) /\ FileOf(i)'.torn = <<>>
      OBVIOUS
    <3>1. PICK m \in DOMAIN incrs : m = manifest.incr[i] /\ m # Current
      BY <1>1
    <3>2. FileOf(i)' = incrs'[m] /\ FileOf(i) = incrs[m] /\ last[m] = incrs[m]
      BY <3>1, <2>3, <1>3, Zenon DEF FileOf
    <3>3. incrs[m].synced = Len(incrs[m].log) /\ incrs[m].torn = <<>> /\ Len(incrs[m].log) \in Nat
      BY <3>2, <1>0, <1>1, Zenon DEF SyncOK, LogFacts
    <3>4. n[m] = Len(last[m].log)
      BY <2>2, <2>3, <3>2, <3>3, SMTT(30)
    <3>5. ~cut[m]
      BY <2>2, <2>3, <3>2, <3>3, <3>4
    <3> QED
      BY <3>2, <3>5, <2>4
  <2> QED
    BY <2>5, <2>6, <2>7, <2>8, <1>4, <1>6
<1> QED
  BY <1>5, <1>6

(* The least and the greatest of a set of numbers. *)
LEMMA MinMax ==
    ASSUME NEW n \in Nat, NEW S \in SUBSET (1..n), S # {}
    PROVE  /\ Min(S) \in S /\ \A i \in S : Min(S) <= i
           /\ Max(S) \in S /\ \A i \in S : i <= Max(S)
<1>1. S \in SUBSET Nat
  OBVIOUS
<1>2. \E x \in S : \A y \in S : x <= y
  BY <1>1, LeastNatural, Zenon
<1>3. \E x \in S : \A y \in S : y <= x
  <2> DEFINE T == {n - x : x \in S}
  <2>1. T \in SUBSET Nat /\ T # {}
    <3>1. \A x \in S : n - x \in Nat
      OBVIOUS
    <3> QED
      BY <3>1, Zenon
  <2>2. PICK t \in T : \A y \in T : t <= y
    <3> HIDE DEF T
    <3> QED
      BY <2>1, LeastNatural, Zenon
  <2>3. PICK x \in S : t = n - x
    BY <2>2
  <2>4. ASSUME NEW y \in S PROVE y <= x
    <3>1. n - y \in T
      OBVIOUS
    <3>2. n - x <= n - y
      BY <3>1, <2>2, <2>3, Zenon
    <3>3. x \in 1..n /\ y \in 1..n
      OBVIOUS
    <3> QED
      BY <3>2, <3>3
  <2> QED
    BY <2>4
<1>4. Min(S) \in S /\ \A i \in S : Min(S) <= i
  BY <1>2, Zenon DEF Min
<1>5. Max(S) \in S /\ \A i \in S : Max(S) >= i
  BY <1>3, Zenon DEF Max
<1>6. \A i \in S : i \in Nat
  OBVIOUS
<1> QED
  BY <1>4, <1>5, <1>6

(* The records that the loader executes are records of the file, and all   *)
(* of them if none is an unfinished block.                                 *)
LEMMA ExecutedFacts ==
    ASSUME NEW log \in Seq(Records)
    PROVE  /\ Executed(log) \in Seq(Records)
           /\ Open(log) \subseteq 1..Len(log)
           /\ (\A j \in DOMAIN log : ~Unfinished(log[j])) => Open(log) = {} /\ Executed(log) = log
<1>1. Open(log) \subseteq 1..Len(log) /\ Len(log) \in Nat
  BY DEF Open
<1>2. ASSUME Open(log) # {} PROVE SubSeq(log, 1, Min(Open(log)) - 1) \in Seq(Records)
  <2>1. PICK m \in 1..Len(log) : m = Min(Open(log))
    BY <1>1, <1>2, MinMax, Zenon
  <2>2. SubSeq(log, 1, m - 1) \in Seq(Records)
    OBVIOUS
  <2> QED
    BY <2>1, <2>2
<1>3. Executed(log) \in Seq(Records)
  BY <1>2 DEF Executed
<1>4. ASSUME \A j \in DOMAIN log : ~Unfinished(log[j])
      PROVE  Open(log) = {} /\ Executed(log) = log
  <2>1. Open(log) = {}
    BY <1>4, Zenon DEF Open
  <2> QED
    BY <2>1 DEF Executed
<1> QED
  BY <1>1, <1>3, <1>4

(* What truncating a file makes of it: nothing torn is left; a file that   *)
(* was on disk, and was not torn or is after a power loss, still is; and   *)
(* unless an unfinished block is left, the file is what the loader has     *)
(* executed of it.                                                         *)
Truncates(f, g) ==
    /\ g \in File /\ g.synced <= Len(g.log) /\ g.torn = <<>>
    /\ fault = "power" /\ f.synced = Len(f.log) => g.synced = Len(g.log)
    /\ f.torn = <<>> => /\ g.synced <= f.synced
                        /\ g.synced < Len(g.log) => f.synced < Len(f.log)
    /\ f.torn # <<>> => f.synced <= g.synced
    /\ (\A j \in DOMAIN g.log : ~Unfinished(g.log[j])) => g.log = Executed(f.log)

(* What is whole of a torn record is nothing or an unfinished block. *)
LEMMA LeftoversFacts ==
    ASSUME NEW r \in Records, r # <<>>, NEW left \in Leftovers(r)
    PROVE  left \in Records /\ (left # <<>> => Unfinished(left))
<1>1. Multi \in LogOps /\ r \in Seq(LogOps)
  BY DEF LogOps, Records
<1>2. PICK n \in 0..(Len(AsWritten(r)) - 1) : left = SubSeq(AsWritten(r), 1, n)
  BY DEF Leftovers
<1>3. CASE HasExec(r)
  <2>0. PICK S : S = LogOps \cup {Exec}
    BY Zenon
  <2>1a. Multi \in S /\ Exec \in S /\ r \in Seq(S)
    BY <2>0, <1>1
  <2>1b. PICK head \in Seq(S) : /\ head = <<Multi>> \o r
                                 /\ Len(head) = Len(r) + 1 /\ head[1] = Multi
                                 /\ \A i \in 2..(Len(r) + 1) : head[i] = r[i - 1]
    <3>1. PICK one \in Seq(S) : one = <<Multi>> /\ Len(one) = 1 /\ one[1] = Multi
      <4>1. <<Multi>> \in Seq(S) /\ Len(<<Multi>>) = 1 /\ <<Multi>>[1] = Multi
        BY <2>1a
      <4> QED
        BY <4>1, Zenon
    <3>2. PICK head : head = one \o r
      BY Zenon
    <3>3. /\ head \in Seq(S) /\ Len(head) = Len(r) + 1 /\ head[1] = Multi
          /\ \A i \in 2..(Len(r) + 1) : head[i] = r[i - 1]
      BY <3>1, <3>2, <2>1a
    <3> QED
      BY <3>1, <3>2, <3>3, Zenon
  <2>1. PICK all \in Seq(S) : /\ all = <<Multi>> \o r \o <<Exec>>
                               /\ Len(all) = Len(head) + 1
                               /\ \A i \in 1..Len(head) : all[i] = head[i]
    <3>1. PICK one \in Seq(S) : one = <<Exec>> /\ Len(one) = 1
      <4>1. <<Exec>> \in Seq(S) /\ Len(<<Exec>>) = 1
        BY <2>1a
      <4> QED
        BY <4>1, Zenon
    <3>2. PICK all : all = head \o one
      BY Zenon
    <3>3. /\ all \in Seq(S) /\ Len(all) = Len(head) + 1
          /\ \A i \in 1..Len(head) : all[i] = head[i]
      BY <3>1, <3>2
    <3> QED
      BY <3>1, <3>2, <3>3, <2>1b, Zenon
  <2>2. AsWritten(r) = all
    BY <2>1, <1>3, Zenon DEF AsWritten
  <2>3. /\ Len(r) \in Nat /\ Len(all) = Len(r) + 2 /\ all[1] = Multi
        /\ \A i \in 2..(Len(r) + 1) : all[i] = r[i - 1]
    <3>1. Len(r) \in Nat
      BY <1>1
    <3> QED
      BY <3>1, <2>1, <2>1b
  <2>4. \A i \in 1..(Len(r) + 1) : all[i] \in LogOps
    BY <2>3, <1>1
  <2>5. n \in 0..(Len(r) + 1) /\ left = SubSeq(all, 1, n)
    BY <2>2, <2>3, <1>1, <1>2
  <2>6. /\ left \in Seq(S) /\ Len(left) = n
        /\ \A i \in 1..n : left[i] = all[i]
    BY <2>1, <2>3, <2>5
  <2>7. \A i \in 1..n : left[i] \in LogOps
    BY <2>4, <2>5, <2>6, <1>1
  <2>8. left \in Seq(LogOps)
    BY <2>6, <2>7
  <2>9. left # <<>> => left[1] = Multi
    BY <2>3, <2>6
  <2> QED
    BY <2>8, <2>9 DEF Records, Unfinished
<1>4. CASE ~HasExec(r)
  <2>1. n \in 0..(Len(r) - 1) /\ left = SubSeq(r, 1, n)
    BY <1>2, <1>4 DEF AsWritten
  <2>2. left \in Seq(LogOps) /\ Len(left) = n /\ \A i \in 1..n : left[i] = r[i]
    BY <2>1, <1>1
  <2>3. left # <<>> => Len(r) > 1 /\ left[1] = r[1]
    BY <2>1, <2>2, <1>1
  <2>4. Len(r) > 1 => Unfinished(r)
    BY <1>4 DEF HasExec
  <2> QED
    BY <2>2, <2>3, <2>4 DEF Records, Unfinished
<1> QED
  BY <1>3, <1>4

(* Truncating a file that ends early. *)
LEMMA TruncateFacts ==
    ASSUME NEW f \in File, f.synced <= Len(f.log), EndsEarly(f),
           NEW g \in truncateAppendOnlyFile(f)
    PROVE  Truncates(f, g)
<1>1. f.log \in Seq(Records) /\ Len(f.log) \in Nat /\ f.synced \in Nat /\ f.torn \in Records
  BY DEF File
<1>2. CASE f.torn # <<>>
  <2>1. PICK left \in Leftovers(f.torn) : g = CutBehind(f, left)
    BY <1>2 DEF truncateAppendOnlyFile
  <2>2. left \in Records /\ (left # <<>> => Unfinished(left))
    BY <1>1, <1>2, LeftoversFacts
  <2>3. PICK log \in Seq(Records) : log = IF left = <<>> THEN f.log ELSE Append(f.log, left)
    <3>1. Append(f.log, left) \in Seq(Records)
      BY <2>2, <1>1
    <3> QED
      BY <3>1, <1>1, Zenon
  <2>4. Len(log) \in Nat /\ Len(f.log) <= Len(log)
    BY <2>2, <2>3, <1>1
  <2>5. PICK synced \in Nat : synced = IF fault = "power" THEN Len(log) ELSE f.synced
    BY <2>4, <1>1
  <2>6. g = [log |-> log, synced |-> synced, torn |-> <<>>] /\ <<>> \in Records
    BY <2>1, <2>3, <2>5 DEF CutBehind, Records
  <2>7. g \in File /\ g.log = log /\ g.synced = synced /\ g.torn = <<>> /\ synced <= Len(log)
    BY <2>4, <2>5, <2>6, <1>1 DEF File
  <2>8. ASSUME \A j \in DOMAIN log : ~Unfinished(log[j]) PROVE log = Executed(f.log)
    <3>1. left = <<>>
      <4> SUFFICES ASSUME left # <<>> PROVE FALSE
        OBVIOUS
      <4>1. log = Append(f.log, left)
        BY <2>3
      <4>2. Len(f.log) + 1 \in DOMAIN log /\ log[Len(f.log) + 1] = left
        BY <4>1, <2>2, <1>1
      <4> QED
        BY <4>2, <2>2, <2>8, Zenon
    <3>2. log = f.log
      BY <3>1, <2>3
    <3> QED
      BY <3>2, <2>8, <1>1, ExecutedFacts, Zenon
  <2>9. f.synced <= synced
    BY <2>4, <2>5, <1>1
  <2> QED
    BY <2>5, <2>7, <2>8, <2>9, <1>2, Zenon DEF Truncates
<1>3. CASE f.torn = <<>>
  <2>1. Open(f.log) # {} /\ Open(f.log) \subseteq 1..Len(f.log)
    BY <1>1, <1>3, ExecutedFacts DEF EndsEarly
  <2>2. PICK n \in Open(f.log) : n = Max(Open(f.log)) /\ \A i \in Open(f.log) : i <= n
    BY <2>1, <1>1, MinMax, Zenon
  <2>3. n \in 1..Len(f.log) /\ g = CutBefore(f, n)
    BY <2>1, <2>2, <1>3 DEF truncateAppendOnlyFile
  <2>4. PICK log \in Seq(Records) : /\ log = SubSeq(f.log, 1, n - 1) /\ Len(log) = n - 1
                                    /\ \A j \in 1..(n - 1) : log[j] = f.log[j]
    <3>1. PICK log : log = SubSeq(f.log, 1, n - 1)
      BY Zenon
    <3>2. log \in Seq(Records) /\ Len(log) = n - 1 /\ \A j \in 1..(n - 1) : log[j] = f.log[j]
      BY <3>1, <2>3, <1>1
    <3> QED
      BY <3>1, <3>2, Zenon
  <2>5. PICK synced \in Nat : /\ synced = Min({f.synced, n - 1})
                              /\ synced = IF f.synced <= n - 1 THEN f.synced ELSE n - 1
    <3>1. PICK a \in Nat, b \in Nat : a = f.synced /\ b = n - 1
      BY <1>1, <2>3
    <3>2. PICK m \in {a, b} : m = Min({a, b}) /\ \A y \in {a, b} : m <= y
      <4>1. \E x \in {a, b} : \A y \in {a, b} : x <= y
        BY SMTT(30)
      <4> QED
        BY <4>1, Zenon DEF Min
    <3>3. m \in Nat /\ m = IF a <= b THEN a ELSE b
      BY <3>2
    <3> QED
      BY <3>1, <3>2, <3>3
  <2>6. g = [log |-> log, synced |-> synced, torn |-> <<>>]
    <3>1. PICK a, b : f = [log |-> a, synced |-> b, torn |-> <<>>]
      BY <1>3, Zenon DEF File
    <3>2. g = [f EXCEPT !.log = log, !.synced = synced]
      BY <2>3, <2>4, <2>5, Zenon DEF CutBefore
    <3> QED
      BY <3>1, <3>2, Zenon
  <2>7. g \in File /\ g.log = log /\ g.synced = synced /\ g.torn = <<>>
    BY <2>4, <2>5, <2>6, <1>1, <1>3 DEF File
  <2>8. /\ synced <= Len(log) /\ synced <= f.synced
        /\ f.synced = Len(f.log) => synced = Len(log)
        /\ synced < Len(log) => f.synced < Len(f.log)
    <3>1. PICK a \in Nat, b \in Nat, c \in Nat : a = f.synced /\ b = Len(log) /\ c = Len(f.log)
      BY <2>4, <1>1
    <3>2. b = n - 1 /\ n \in 1..c /\ a <= c
      BY <3>1, <2>3, <2>4
    <3>3. synced = IF a <= b THEN a ELSE b
      BY <3>1, <3>2, <2>5, Zenon
    <3>4. synced <= b /\ synced <= a /\ (a = c => synced = b) /\ (synced < b => a < c)
      BY <3>2, <3>3
    <3> QED
      BY <3>1, <3>4, Zenon
  <2>9. ASSUME \A j \in DOMAIN log : ~Unfinished(log[j]) PROVE log = Executed(f.log)
    <3>1. PICK m \in Open(f.log) : m = Min(Open(f.log))
      BY <2>1, <1>1, MinMax, Zenon
    <3>2. m \in 1..Len(f.log) /\ m <= n /\ Unfinished(f.log[m])
      BY <3>1, <2>1, <2>2, Zenon DEF Open
    <3>3. m = n
      <4> SUFFICES ASSUME m # n PROVE FALSE
        OBVIOUS
      <4>1. m \in 1..(n - 1) /\ m \in DOMAIN log
        BY <3>2, <2>3, <2>4
      <4> QED
        BY <4>1, <3>2, <2>4, <2>9, Zenon
    <3> QED
      BY <3>1, <3>3, <2>1, <2>4 DEF Executed
  <2> QED
    BY <2>7, <2>8, <2>9, <1>3, Zenon DEF Truncates
<1> QED
  BY <1>2, <1>3

(* At most one file of the manifest is other than it was, the first that   *)
(* ended early, and that one is truncated.                                 *)
LEMMA RestartFiles ==
    ASSUME AofInv, Restart
    PROVE  /\ incrs' \in [DOMAIN incrs -> File] /\ DOMAIN incrs' = DOMAIN incrs
           /\ \A n \in DOMAIN incrs : incrs'[n].synced <= Len(incrs'[n].log)
           /\ Truncated(manifest) \subseteq 1..Len(manifest.incr)
           /\ Truncated(manifest) # {} => Min(Truncated(manifest)) \in Truncated(manifest)
           /\ \A i \in 1..Len(manifest.incr) :
                 \/ FileOf(i)' = FileOf(i) /\ i \notin Truncated(manifest)
                 \/ FileOf(i)' = FileOf(i) /\ i # Min(Truncated(manifest))
                 \/ /\ i = Min(Truncated(manifest)) /\ i \in Truncated(manifest)
                    /\ Truncates(FileOf(i), FileOf(i)')
<1> DEFINE L == Len(manifest.incr)
<1>0. TypesOK /\ FilesOK /\ LogFacts
  BY LogShape, Zenon DEF AofInv
<1>1. /\ L \in Nat \ {0} /\ DOMAIN manifest.incr = 1..L
      /\ \A i \in 1..L : manifest.incr[i] \in Nat /\ manifest.incr[i] \in DOMAIN incrs
      /\ \A i, j \in 1..L : manifest.incr[i] = manifest.incr[j] => i = j
  <2>1. \A i, j \in 1..L : i < j => manifest.incr[i] < manifest.incr[j]
    BY <1>0, Zenon DEF LogFacts, FilesOK
  <2>2. /\ L \in Nat \ {0} /\ DOMAIN manifest.incr = 1..L
        /\ \A i \in 1..L : manifest.incr[i] \in Nat /\ manifest.incr[i] \in DOMAIN incrs
    BY <1>0, Zenon DEF LogFacts
  <2>3. ASSUME NEW i \in 1..L, NEW j \in 1..L, manifest.incr[i] = manifest.incr[j]
        PROVE  i = j
    <3>1. PICK a \in Nat : a = manifest.incr[i] /\ a = manifest.incr[j]
      BY <2>2, <2>3, Zenon
    <3>2. ~(i < j) /\ ~(j < i)
      <4>1. ~(a < a)
        OBVIOUS
      <4> QED
        BY <4>1, <3>1, <2>1, Zenon
    <3> QED
      BY <3>2, <2>2
  <2> QED
    BY <2>2, <2>3, Zenon
<1>2. incrs' \in Repaired(manifest) /\ manifest' = manifest
  BY Zenon DEF Restart
<1>3. Complete(manifest)
  BY <1>0, <1>1 DEF Complete, FilesOK, Range
<1>4. incrs \in [DOMAIN incrs -> File]
      /\ \A n \in DOMAIN incrs : incrs[n] \in File /\ incrs[n].synced <= Len(incrs[n].log)
  BY <1>0 DEF TypesOK
<1>5. Truncated(manifest) \subseteq 1..L
  BY <1>1 DEF Truncated
<1>6. CASE Truncated(manifest) = {}
  <2>1. incrs' = incrs
    BY <1>2, <1>6, Zenon DEF Repaired
  <2> QED
    BY <2>1, <1>2, <1>4, <1>5, <1>6, Zenon DEF FileOf
<1>7. CASE Truncated(manifest) # {}
  <2>1. PICK a \in Truncated(manifest) : a = Min(Truncated(manifest))
    BY <1>1, <1>5, <1>7, MinMax, Zenon
  <2>2. a \in 1..L /\ EndsEarly(incrs[manifest.incr[a]])
    BY <1>5, Zenon DEF Truncated
  <2>3. PICK n \in DOMAIN incrs : n = manifest.incr[a]
    BY <2>2, <1>1
  <2>4. incrs' \in {[incrs EXCEPT ![n] = f] : f \in truncateAppendOnlyFile(incrs[n])}
    BY <2>1, <2>3, <1>2, <1>3, <1>7, Zenon DEF Repaired
  <2>5. PICK g \in truncateAppendOnlyFile(incrs[n]) : incrs' = [incrs EXCEPT ![n] = g]
    BY <2>4
  <2>6. Truncates(incrs[n], g)
    BY <2>2, <2>3, <2>5, <1>4, TruncateFacts, Zenon
  <2>7. g \in File /\ g.synced <= Len(g.log)
    BY <2>6 DEF Truncates
  <2>8. incrs' \in [DOMAIN incrs -> File] /\ DOMAIN incrs' = DOMAIN incrs
    BY <2>5, <2>7, <1>4, Zenon
  <2>9. incrs'[n] = g /\ \A m \in DOMAIN incrs : m # n => incrs'[m] = incrs[m]
    BY <2>5
  <2>10. \A m \in DOMAIN incrs : incrs'[m].synced <= Len(incrs'[m].log)
    BY <2>7, <2>9, <1>4, Zenon
  <2>11. ASSUME NEW i \in 1..L
         PROVE  \/ FileOf(i)' = FileOf(i) /\ i # a
                \/ i = a /\ Truncates(FileOf(i), FileOf(i)')
    <3>1. CASE i = a
      BY <3>1, <2>3, <2>6, <2>9, <1>2, Zenon DEF FileOf
    <3>2. CASE i # a
      <4>1. manifest.incr[i] # n /\ manifest.incr[i] \in DOMAIN incrs
        BY <3>2, <2>2, <2>3, <1>1, Zenon
      <4> QED
        BY <4>1, <3>2, <2>9, <1>2, Zenon DEF FileOf
    <3> QED
      BY <3>1, <3>2
  <2> QED
    BY <2>1, <2>8, <2>10, <2>11, <1>5, Zenon
<1> QED
  BY <1>6, <1>7

(* What the loader rebuilds is a dataset. *)
LEMMA LoadedType ==
    ASSUME TypesOK, FilesOK
    PROVE  Loaded(manifest) \in Datasets
<1>0. LogFacts
  BY LogShape
<1>1. \A i \in 1..Len(manifest.incr) : Executed(incrs[manifest.incr[i]].log) \in Seq(Records)
  BY <1>0, ExecutedFacts, Zenon DEF LogFacts
<1>2. Len(manifest.incr) \in Nat /\ bases[manifest.base] \in Datasets
  BY <1>0 DEF TypesOK, FilesOK, LogFacts
<1>3. PICK logs \in Seq(Seq(Records)) :
         logs = [i \in 1..Len(manifest.incr) |-> Executed(incrs[manifest.incr[i]].log)]
  <2>1. [i \in 1..Len(manifest.incr) |-> Executed(incrs[manifest.incr[i]].log)]
           \in [1..Len(manifest.incr) -> Seq(Records)]
    BY <1>1, Zenon
  <2>2. \A fn \in [1..Len(manifest.incr) -> Seq(Records)] : fn \in Seq(Seq(Records))
    BY <1>2
  <2> QED
    BY <2>1, <2>2, Zenon
<1>4. Concat(logs) \in Seq(Records)
  BY ConcatFacts, Zenon
<1> QED
  BY <1>2, <1>3, <1>4, ReplayFacts, Zenon DEF Loaded

(* Without unfinished blocks the loader executes every record. *)
LEMMA LoadsAll ==
    ASSUME TypesOK, FilesOK, Intact(manifest)
    PROVE  Loaded(manifest) = Held(manifest)
<1>0. LogFacts
  BY LogShape
<1>1. \A i \in 1..Len(manifest.incr) :
         Executed(incrs[manifest.incr[i]].log) = incrs[manifest.incr[i]].log
  BY <1>0, ExecutedFacts, Zenon DEF LogFacts, Intact
<1>2. [i \in 1..Len(manifest.incr) |-> Executed(incrs[manifest.incr[i]].log)] = Logs(manifest)
  BY <1>1, Zenon DEF Logs
<1> QED
  BY <1>2, Zenon DEF Loaded, Held

(* The server loads the files of the manifest. *)
LEMMA RestartInv ==
    ASSUME AofInv, Restart
    PROVE  AofInv'
<1> DEFINE L == Len(manifest.incr)
           T == Truncated(manifest)
<1>0. TypesOK /\ FilesOK /\ LogFacts /\ StagesOK /\ SyncOK /\ JobsOK /\ SyncedInOrder
  BY LogShape, ZenonT(40) DEF AofInv
<1>1. /\ L \in Nat \ {0} /\ DOMAIN manifest.incr = 1..L
      /\ \A i \in 1..L : manifest.incr[i] \in Nat /\ manifest.incr[i] \in DOMAIN incrs
  BY <1>0 DEF LogFacts
<1>2. /\ mode # "up" /\ aofBuf = <<>> /\ late = 0
      /\ child.state = "none" /\ bio = <<>> /\ at = "loop" /\ fault # "none"
      /\ UNCHANGED <<fsync, now, aofBuf, late, postponed, bio, bases, manifest, child, fault>>
  BY <1>0 DEF Restart, StagesOK
<1>3. Complete(manifest)
  BY <1>0, <1>1 DEF Complete, FilesOK, Range
<1>4. /\ incrs' \in [DOMAIN incrs -> File] /\ DOMAIN incrs' = DOMAIN incrs
      /\ \A n \in DOMAIN incrs : incrs'[n].synced <= Len(incrs'[n].log)
      /\ T \subseteq 1..L /\ (T # {} => Min(T) \in T)
  BY RestartFiles
<1>5. \A i \in 1..L : \/ FileOf(i)' = FileOf(i) /\ i \notin T
                      \/ FileOf(i)' = FileOf(i) /\ i # Min(T)
                      \/ i = Min(T) /\ Truncates(FileOf(i), FileOf(i)')
  BY RestartFiles, Zenon
<1>6. /\ \A i \in 1..L : /\ FileOf(i) \in File /\ FileOf(i)' \in File
                         /\ FileOf(i).synced <= Len(FileOf(i).log)
                         /\ FileOf(i)'.synced <= Len(FileOf(i)'.log)
      /\ Unsynced = {i \in 1..L : FileOf(i).synced < Len(FileOf(i).log)}
      /\ Unsynced' = {i \in 1..L : FileOf(i)'.synced < Len(FileOf(i)'.log)}
      /\ Torn(manifest) = {i \in 1..L : FileOf(i).torn # <<>>}
      /\ Torn(manifest)' = {i \in 1..L : FileOf(i)'.torn # <<>>}
      /\ Current' = Current
  <2>1. \A i \in 1..L : /\ FileOf(i) \in File /\ FileOf(i)' \in File
                        /\ FileOf(i).synced <= Len(FileOf(i).log)
                        /\ FileOf(i)'.synced <= Len(FileOf(i)'.log)
    BY <1>0, <1>1, <1>2, <1>4, Zenon DEF FileOf, TypesOK
  <2>2. /\ Unsynced = {i \in 1..L : FileOf(i).synced < Len(FileOf(i).log)}
        /\ Torn(manifest) = {i \in 1..L : FileOf(i).torn # <<>>}
    BY <1>1, Zenon DEF Unsynced, Torn, FileOf
  <2>3. /\ Unsynced' = {i \in 1..L : FileOf(i)'.synced < Len(FileOf(i)'.log)}
        /\ Torn(manifest)' = {i \in 1..L : FileOf(i)'.torn # <<>>}
    BY <1>1, <1>2, Zenon DEF Unsynced, Torn, FileOf
  <2>4. Current' = Current
    BY <1>2 DEF Current
  <2> QED
    BY <2>1, <2>2, <2>3, <2>4, Zenon
<1>6a. \A i \in 1..L : (FileOf(i).synced \in Nat /\ Len(FileOf(i).log) \in Nat)
                       /\ (FileOf(i)'.synced \in Nat /\ Len(FileOf(i)'.log) \in Nat)
  BY <1>6 DEF File
<1>7. TypesOK' /\ FilesOK'
  <2>1. db' \in Datasets /\ mode' \in {"up", "down", "refused"} /\ at' \in Stages
        /\ revived' \in BOOLEAN
    BY <1>0, LoadedType, Zenon DEF Restart, TypesOK, Stages
  <2>2. TypesOK'
    BY <2>1, <1>0, <1>2, <1>4 DEF TypesOK
  <2> QED
    BY <2>2, <1>0, <1>2, <1>4, Zenon DEF FilesOK
<1>8. StagesOK'
  BY <1>0, <1>2, Zenon DEF StagesOK, Restart
<1>9. Torn(manifest)' \subseteq Torn(manifest) /\ (T # {} => Min(T) \notin Torn(manifest)')
  <2>1. \A i \in 1..L : FileOf(i)'.torn # <<>> => FileOf(i).torn # <<>>
    BY <1>5, Zenon DEF Truncates
  <2>2. ASSUME NEW i \in T, i = Min(T) PROVE FileOf(i)'.torn = <<>>
    <3>1. i \in 1..L
      BY <1>4
    <3> QED
      BY <3>1, <2>2, <1>5, Zenon DEF Truncates
  <2>3. Torn(manifest)' \subseteq Torn(manifest)
    BY <2>1, <1>6, Zenon
  <2>4. ASSUME T # {} PROVE Min(T) \notin Torn(manifest)'
    <3>1. PICK i \in T : i = Min(T)
      BY <2>4, <1>4, Zenon
    <3>2. FileOf(i)'.torn = <<>>
      BY <3>1, <2>2, Zenon
    <3> QED
      BY <3>1, <3>2, <1>6
  <2> QED
    BY <2>3, <2>4, Zenon
<1>10. CASE Loadable(manifest)
  <2>1. mode' = "up" /\ db' = Loaded(manifest) /\ revived' = (revived \/ Unsynced' # {})
        /\ at' # "renamed"
    BY <1>10, Zenon DEF Restart
  <2>2. ~revived' => ~revived /\ Unsynced' = {}
    BY <2>1, Zenon
  <2>3. Torn(manifest)' = {}
    <3>1. T \subseteq {L}
      BY <1>10 DEF Loadable
    <3>2. Torn(manifest) \subseteq T
      BY Zenon DEF Torn, Truncated, EndsEarly
    <3>3. ASSUME NEW i \in Torn(manifest)' PROVE FALSE
      <4>1. i \in T /\ i = L
        BY <1>9, <3>1, <3>2
      <4>2. Min(T) = L
        BY <4>1, <3>1, <1>4, Zenon
      <4> QED
        BY <4>1, <4>2, <3>3, <1>9, Zenon
    <3> QED
      BY <3>3
  <2>4. SyncOK'
    <3>1. ASSUME ~revived', NEW i \in 1..L
          PROVE  FileOf(i)'.synced = Len(FileOf(i)'.log) /\ FileOf(i)'.torn = <<>>
      <4>1. ~(FileOf(i)'.synced < Len(FileOf(i)'.log))
        BY <3>1, <2>2, <1>6
      <4>2. FileOf(i)'.synced <= Len(FileOf(i)'.log)
        BY <1>6, Zenon
      <4>3. FileOf(i)'.torn = <<>>
        BY <2>3, <1>6
      <4> QED
        BY <4>1, <4>2, <4>3, <1>6a
    <3>2. DOMAIN manifest'.incr = 1..L /\ (fsync' = "always" => ~postponed')
          /\ (~postponed' => late' = 0)
      BY <1>0, <1>1, <1>2, Zenon DEF SyncOK
    <3> QED
      BY <3>1, <3>2, <2>1, <2>3, Zenon DEF SyncOK
  <2>5. JobsOK' /\ SyncedInOrder'
    <3>1. InFileOrder(bio, Current)'
      BY <1>0, <1>2, <1>6, Zenon DEF JobsOK
    <3> QED
      BY <3>1, <2>2 DEF JobsOK, SyncedInOrder
  <2>6. SourcesOK'
    <3>1. ASSUME Intact(manifest)'
          PROVE  Held(manifest)' = Loaded(manifest)
      <4>1. ASSUME NEW i \in 1..L PROVE FileOf(i)'.log = Executed(FileOf(i).log)
        <5>1. \A j \in DOMAIN FileOf(i)'.log : ~Unfinished(FileOf(i)'.log[j])
          BY <3>1, <1>1, <1>2, Zenon DEF Intact, FileOf
        <5>2. CASE FileOf(i)' = FileOf(i)
          <6>1. FileOf(i).log \in Seq(Records)
            BY <1>6 DEF File
          <6> QED
            BY <5>1, <5>2, <6>1, ExecutedFacts, Zenon
        <5>3. CASE Truncates(FileOf(i), FileOf(i)')
          BY <5>1, <5>3, Zenon DEF Truncates
        <5> QED
          BY <5>2, <5>3, <1>5, Zenon
      <4>2. Logs(manifest)' = [i \in 1..L |-> Executed(incrs[manifest.incr[i]].log)]
        BY <4>1, <1>2, Zenon DEF Logs, FileOf
      <4> QED
        BY <4>2, <1>2, Zenon DEF Held, Loaded
    <3>2. ASSUME NEW e \in Datasets, Stands(e)'
          PROVE  db' = Replay(Replay(e, incrs'[Current'].log), aofBuf')
      <4>1. Intact(manifest)' /\ e = Prefix'
        BY <3>2, <2>1, <1>2, Zenon DEF Stands
      <4>2. /\ Held(manifest)' = Replay(Prefix', incrs'[Current'].log)
            /\ Held(manifest)' \in Datasets
        BY <1>7, LogShape, Zenon DEF LogFacts
      <4> QED
        BY <4>1, <4>2, <3>1, <2>1, <1>2, ReplayFacts, Zenon
    <3>3. \A i \in 1..Len(aofBuf') : ~Unfinished(aofBuf'[i])
      BY <1>2
    <3> QED
      BY <3>2, <3>3, Zenon DEF SourcesOK
  <2> QED
    BY <2>4, <2>5, <2>6, <1>7, <1>8, Zenon DEF AofInv
<1>11. CASE ~Loadable(manifest)
  <2>1. mode' = "refused" /\ UNCHANGED revived
    BY <1>11 DEF Restart
  <2>2. T # {} /\ Min(T) \in 1..L /\ Min(T) # L
    <3>1. PICK i \in T : i # L
      BY <1>3, <1>11 DEF Loadable
    <3>2. i \in 1..L /\ L \in 1..L /\ i < L
      BY <3>1, <1>1, <1>4
    <3>3. Min(T) \in T /\ Min(T) <= i
      BY <1>1, <1>4, MinMax, Zenon
    <3>4. Min(T) \in 1..L
      BY <3>3, <1>4
    <3> QED
      BY <3>1, <3>2, <3>3, <3>4
  <2>3. \A i \in 1..L : FileOf(i)' = FileOf(i) \/ (i < L /\ Truncates(FileOf(i), FileOf(i)'))
    BY <2>2, <1>1, <1>5
  <2>4. fault = "power" => Unsynced' = {}
    <3> SUFFICES ASSUME fault = "power", NEW i \in 1..L
                 PROVE  ~(FileOf(i)'.synced < Len(FileOf(i)'.log))
      BY <1>6, Zenon
    <3>1. FileOf(i).synced = Len(FileOf(i).log)
      <4>1. ~(FileOf(i).synced < Len(FileOf(i).log))
        BY <1>0, <1>2, <1>6, Zenon DEF SyncOK
      <4> QED
        BY <4>1, <1>6, <1>6a
    <3>2. FileOf(i)'.synced = Len(FileOf(i)'.log)
      BY <3>1, <2>3, Zenon DEF Truncates
    <3> QED
      BY <3>2, <1>6a
  <2>5. fault # "power" => \A i \in 1..L : i < L => FileOf(i).torn = <<>>
    <3> SUFFICES ASSUME fault # "power", NEW i \in 1..L, i < L, FileOf(i).torn # <<>>
                 PROVE  FALSE
      OBVIOUS
    <3>1. fault = "process"
      BY <1>0, <1>2 DEF TypesOK
    <3>2. i \in Torn(manifest) /\ Torn(manifest) \subseteq {L}
      BY <3>1, <1>0, <1>2, <1>6, Zenon DEF SyncOK
    <3> QED
      BY <3>2, <1>1
  <2>6. SyncOK'
    <3>1. ASSUME fsync = "always", ~revived, NEW i \in 1..L, i < L
          PROVE  FileOf(i)'.synced = Len(FileOf(i)'.log) /\ FileOf(i)'.torn = <<>>
      <4>1. FileOf(i).synced = Len(FileOf(i).log) /\ FileOf(i).torn = <<>>
        BY <3>1, <1>0, <1>1, Zenon DEF SyncOK
      <4>2. CASE FileOf(i)' = FileOf(i)
        BY <4>1, <4>2, Zenon
      <4>3. CASE Truncates(FileOf(i), FileOf(i)')
        <5>1. ~(FileOf(i)'.synced < Len(FileOf(i)'.log)) /\ FileOf(i)'.torn = <<>>
          <6>1. ~(FileOf(i).synced < Len(FileOf(i).log))
            BY <4>1, <1>6a
          <6> QED
            BY <6>1, <4>1, <4>3, Zenon DEF Truncates
        <5>2. FileOf(i)'.synced <= Len(FileOf(i)'.log)
          BY <1>6, Zenon
        <5> QED
          BY <5>1, <5>2, <1>6a
      <4> QED
        BY <4>2, <4>3, <2>3, Zenon
    <3>2. mode' # "up" /\ DOMAIN manifest'.incr = 1..L /\ (fsync' = "always" => ~postponed')
          /\ (~postponed' => late' = 0)
      BY <2>1, <1>0, <1>1, <1>2, Zenon DEF SyncOK
    <3>3. fault = "process" => Torn(manifest)' \subseteq {L}
      BY <1>0, <1>2, <1>9, Zenon DEF SyncOK
    <3> QED
      BY <3>1, <3>2, <3>3, <2>1, <2>4, <1>2, Zenon DEF SyncOK
  <2>7. SyncedInOrder'
    <3> SUFFICES ASSUME ~revived, NEW i \in 1..L, NEW j \in 1..L, i < j, i \in Unsynced'
                 PROVE  FileOf(j)'.synced = 0
      BY <2>1, <1>1, <1>2, Zenon DEF SyncedInOrder, FileOf
    <3>1. fault # "power" /\ i < L
      BY <2>4, <1>1
    <3>2. FileOf(i).torn = <<>> /\ (j < L => FileOf(j).torn = <<>>)
      BY <3>1, <2>5, Zenon
    <3>3. i \in Unsynced
      <4>1. FileOf(i)'.synced < Len(FileOf(i)'.log)
        BY <1>6
      <4>2. FileOf(i).synced < Len(FileOf(i).log)
        BY <4>1, <3>2, <2>3, Zenon DEF Truncates
      <4> QED
        BY <4>2, <1>6
    <3>4. FileOf(j).synced = 0
      BY <3>3, <1>0, <1>1, Zenon DEF SyncedInOrder, FileOf
    <3>5. FileOf(j)'.synced <= FileOf(j).synced
      <4>1. FileOf(j).synced <= FileOf(j).synced
        BY <1>6a
      <4> QED
        BY <4>1, <3>2, <2>3, Zenon DEF Truncates
    <3> QED
      BY <3>4, <3>5, <1>6a
  <2>8. JobsOK'
    BY <2>1, <1>0, <1>2, <1>6 DEF JobsOK
  <2>9. SourcesOK'
    BY <2>1, <1>2 DEF SourcesOK
  <2> QED
    BY <2>6, <2>7, <2>8, <2>9, <1>7, <1>8, Zenon DEF AofInv
<1> QED
  BY <1>10, <1>11

----------------------------------------------------------------------------
(* The theorems.                                                           *)

(* A fresh start holds the invariant: one base, one empty file.           *)
LEMMA InitInv == Init => AofInv
<1> SUFFICES ASSUME Init PROVE AofInv
  OBVIOUS
<1>1. Empty \in Datasets
  BY DEF Empty, Datasets
<1>2. PICK none \in Seq(Records) : none = <<>> /\ Len(none) = 0
  <2>1. <<>> \in Seq(Records) /\ Len(<<>>) = 0
    OBVIOUS
  <2> QED
    BY <2>1, Zenon
<1>3. PICK f \in File : f = NewFile /\ f.log = none /\ f.synced = 0 /\ f.torn = <<>>
  <2>1. NewFile \in File /\ NewFile.log = none /\ NewFile.synced = 0
        /\ NewFile.torn = <<>>
    BY <1>2 DEF NewFile, File, Records
  <2> QED
    BY <2>1
<1>4. PICK incr \in Seq(Nat) : /\ incr = <<1>> /\ Len(incr) = 1 /\ incr[1] = 1
                               /\ DOMAIN incr = 1..1 /\ incr # <<>>
  <2>1. /\ <<1>> \in Seq(Nat) /\ Len(<<1>>) = 1 /\ <<1>>[1] = 1
        /\ DOMAIN <<1>> = 1..1 /\ <<1>> # <<>>
    BY SMTT(30)
  <2> QED
    BY <2>1, Zenon
<1>5. /\ manifest = [base |-> 1, incr |-> incr, oldBases |-> {}, oldIncrs |-> {}]
      /\ manifest.incr = incr /\ manifest.base = 1
      /\ manifest.oldBases = {} /\ manifest.oldIncrs = {}
  BY <1>4 DEF Init
<1>6. /\ incrs \in [{1} -> File] /\ DOMAIN incrs = {1} /\ incrs[1] = f
      /\ bases \in [{1} -> Datasets] /\ DOMAIN bases = {1} /\ bases[1] = Empty
  BY <1>1, <1>3, Zenon DEF Init
<1>7. child \in [state : {"none", "running", "done"}, data : Datasets] /\ child.state = "none"
  BY <1>1 DEF Init, NoChild
<1>8. TypesOK
  <2>1. <<>> \in Seq(Records) /\ <<>> \in Seq(Jobs)
    BY SMTT(30)
  <2>2. manifest \in [base : Nat, incr : Seq(Nat), oldBases : SUBSET Nat, oldIncrs : SUBSET Nat]
    BY <1>5
  <2>3. \A n \in DOMAIN incrs : incrs[n].synced <= Len(incrs[n].log)
    BY <1>2, <1>3, <1>6
  <2> QED
    BY <2>1, <2>2, <2>3, <1>1, <1>6, <1>7, Zenon DEF Init, TypesOK, Stages
<1>9. FilesOK
  BY <1>4, <1>5, <1>6 DEF FilesOK
<1>10. LogFacts
  BY <1>8, <1>9, LogShape, ZenonT(40)
<1>11. Unsynced = {} /\ Torn(manifest) = {}
  BY <1>2, <1>3, <1>4, <1>5, <1>6 DEF Unsynced, Torn
<1>12. StagesOK
  BY <1>7 DEF Init, StagesOK
<1>13. SyncOK
  BY <1>2, <1>3, <1>4, <1>5, <1>6, <1>11, SMTT(30) DEF Init, SyncOK, FileOf
<1>14. JobsOK
  BY <1>11 DEF Init, JobsOK, InFileOrder
<1>15. SourcesOK
  <2>1. Current = 1 /\ Before(1) = <<>>
    <3>1. Current = 1
      BY <1>4, <1>5, <1>10 DEF LogFacts
    <3>2. [j \in 1..(1 - 1) |-> FileOf(j).log] = <<>>
      OBVIOUS
    <3> QED
      BY <3>1, <3>2, ConcatFacts, ZenonT(40) DEF Before
  <2>2. Prefix = Empty
    BY <2>1, <1>1, <1>4, <1>5, <1>6, ReplayFacts, Zenon DEF Prefix
  <2>3. incrs[Current].log = <<>>
    BY <2>1, <1>2, <1>3, <1>6
  <2>4. \A e : Stands(e) => e = Empty
    BY <2>2, <1>7 DEF Init, Stands
  <2>5. Replay(Replay(Empty, <<>>), <<>>) = Empty
    BY <1>1, ReplayFacts, Zenon
  <2> QED
    <3>1. db = Empty /\ aofBuf = <<>>
      BY DEF Init
    <3>2. \A i \in 1..Len(aofBuf) : ~Unfinished(aofBuf[i])
      BY <3>1
    <3>3. \A e \in Datasets : Stands(e) => db = Replay(Replay(e, incrs[Current].log), aofBuf)
      BY <3>1, <2>3, <2>4, <2>5, Zenon
    <3> QED
      BY <3>2, <3>3, Zenon DEF SourcesOK
<1> QED
  BY <1>8, <1>9, <1>11, <1>12, <1>13, <1>14, <1>15 DEF AofInv, SyncedInOrder

(* The invariant of the append-only file is kept by every step.            *)
THEOREM AofInvariance == Spec => []AofInv
<1>1. ASSUME AofInv, [Next]_vars PROVE AofInv'
  <2>1. CASE UNCHANGED vars
    BY <1>1, <2>1, LoopInv, Zenon
  <2>2. CASE Next
    BY <1>1, <2>2, CommandsInv, LoopInv, BioInv, RewriteInv, FaultInv, RestartInv, Zenon
       DEF Next, Rewrite
  <2> QED
    BY <1>1, <2>1, <2>2, Zenon
<1> QED
  BY <1>1, InitInv, PTL DEF Spec

(* Every variable keeps its type, whatever is written, lost or restarted.  *)
THEOREM AofTyped == Spec => []AofTypeOK
<1>1. ASSUME AofInv PROVE AofTypeOK
  <2>1. TypesOK /\ FilesOK /\ LogFacts
    BY <1>1, LogShape DEF AofInv
  <2>2. \A n \in DOMAIN bases : bases[n] \in Datasets
    BY <2>1, Zenon DEF TypesOK
  <2>3. \A n \in DOMAIN incrs : incrs[n].synced \in 0..Len(incrs[n].log)
    <3> TAKE n \in DOMAIN incrs
    <3> QED
      BY <2>1, Zenon DEF LogFacts
  <2>4. \A n \in Range(manifest.incr) :
           n \in DOMAIN incrs /\ n \in Nat /\ n \notin manifest.oldIncrs
    <3> SUFFICES ASSUME NEW i \in DOMAIN manifest.incr, NEW n, n = manifest.incr[i]
                 PROVE  n \in DOMAIN incrs /\ n \in Nat /\ n \notin manifest.oldIncrs
      BY Zenon DEF Range
    <3>1. n \in DOMAIN incrs /\ n \in Nat
      BY <2>1, Zenon DEF LogFacts
    <3>2. n \in manifest.oldIncrs => n < n
      BY <2>1, Zenon DEF FilesOK
    <3> QED
      BY <3>1, <3>2
  <2>5. manifest.base \in Nat /\ manifest.base \notin manifest.oldBases
    BY <2>1 DEF FilesOK, TypesOK
  <2> QED
    BY <2>1, <2>2, <2>3, <2>4, <2>5 DEF AofTypeOK, TypesOK, FilesOK
<1> QED
  BY <1>1, AofInvariance, PTL

(* While the server is up and the loader has left no unfinished block in   *)
(* the log, the dataset is what the files of the manifest and the buffer   *)
(* rebuild: feedAppendOnlyFile, flush and rewrite keep log and dataset     *)
(* together at every step of theirs.                                       *)
THEOREM LogRebuildsTheorem == Spec => []LogRebuildsDataset
<1>1. AofInv => LogRebuildsDataset
  <2> SUFFICES ASSUME AofInv, mode = "up", Intact(manifest)
               PROVE  db = Replay(Loaded(manifest), aofBuf)
    BY DEF LogRebuildsDataset
  <2>1. TypesOK /\ FilesOK /\ LogFacts /\ SourcesOK
    BY LogShape, Zenon DEF AofInv
  <2>2. /\ Loaded(manifest) = Replay(Prefix, incrs[Current].log)
        /\ Prefix \in Datasets
    BY <2>1, LoadsAll, Zenon DEF LogFacts
  <2>3. db = Replay(Replay(Prefix, incrs[Current].log), aofBuf)
    BY <2>1, <2>2, ZenonT(40) DEF SourcesOK, Stands
  <2> QED
    BY <2>2, <2>3
<1> QED
  BY <1>1, AofInvariance, PTL

(* Under appendfsync always every record replied to is covered by fsync,   *)
(* and under either policy a late record is one whose flush is put off.    *)
THEOREM AcknowledgedTheorem == Spec => []AcknowledgedIsKept
<1>1. AofInv => AcknowledgedIsKept
  <2> SUFFICES ASSUME AofInv PROVE AcknowledgedIsKept
    OBVIOUS
  <2>1. SyncOK /\ LogFacts
    BY LogShape, ZenonT(40) DEF AofInv
  <2>2. fsync = "always" /\ ~revived /\ mode = "up" => Unsynced = {}
    <3> SUFFICES ASSUME fsync = "always" /\ ~revived /\ mode = "up"
                 PROVE  Unsynced = {}
      BY Zenon
    <3>1. \A i \in DOMAIN manifest.incr : FileOf(i).synced = Len(FileOf(i).log)
      BY <2>1, Zenon DEF SyncOK
    <3>2. \A i \in DOMAIN manifest.incr : Len(FileOf(i).log) \in Nat
      BY <2>1, Zenon DEF LogFacts, FileOf
    <3> QED
      BY <3>1, <3>2 DEF Unsynced, FileOf
  <2>3. /\ fsync = "always" => ~postponed
        /\ ~postponed => late = 0
    BY <2>1, Zenon DEF SyncOK
  <2> QED
    BY <2>2, <2>3, Zenon DEF AcknowledgedIsKept
<1> QED
  BY <1>1, AofInvariance, PTL

(* The background thread never leaves a hole: a file holds nothing synced  *)
(* while one before it has records to sync.                                *)
THEOREM SyncedInOrderTheorem == Spec => []SyncedInOrder
<1>1. AofInv => SyncedInOrder
  BY DEF AofInv
<1> QED
  BY <1>1, AofInvariance, PTL

(* loadAppendOnlyFiles refuses to start only after a power loss that hit   *)
(* files fsync had not covered, or for an unfinished block that an earlier *)
(* restart left in a file before the last.                                 *)
THEOREM RefusalTheorem == Spec => RefusesOnlyAfterPowerLoss
<1> DEFINE Reason == \/ fault = "power" /\ (fsync = "everysec" \/ revived)
                     \/ \E i \in 1..(Len(manifest.incr) - 1) : Open(FileOf(i).log) # {}
<1>1. ASSUME AofInv, Restart, mode' = "refused" PROVE Reason
  <2>0. TypesOK /\ FilesOK /\ LogFacts /\ StagesOK /\ SyncOK
    BY <1>1, LogShape, Zenon DEF AofInv
  <2>1. mode # "up" /\ fault # "none"
    BY <1>1, <2>0 DEF Restart, StagesOK
  <2>2. ~Loadable(manifest)
    BY <1>1 DEF Restart
  <2>3. Complete(manifest)
    BY <2>0 DEF Complete, FilesOK, Range, LogFacts
  <2>4. PICK i \in Truncated(manifest) : i # Len(manifest.incr)
    BY <2>2, <2>3 DEF Loadable
  <2>5. i \in DOMAIN manifest.incr /\ EndsEarly(FileOf(i))
    BY <2>4, Zenon DEF Truncated, FileOf
  <2>6. i \in 1..(Len(manifest.incr) - 1) /\ i < Len(manifest.incr)
    BY <2>4, <2>5, <2>0 DEF LogFacts
  <2>7. CASE Open(FileOf(i).log) # {}
    BY <2>6, <2>7, Zenon
  <2>8. CASE Open(FileOf(i).log) = {}
    <3>1. FileOf(i).torn # <<>>
      BY <2>5, <2>8 DEF EndsEarly
    <3>2. fsync = "everysec" \/ revived
      BY <3>1, <2>0, <2>5, <2>6 DEF SyncOK, TypesOK
    <3>3. i \in Torn(manifest)
      BY <3>1, <2>5, Zenon DEF Torn, FileOf
    <3>4. fault # "process"
      BY <3>3, <2>0, <2>1, <2>4, Zenon DEF SyncOK
    <3> QED
      BY <3>2, <3>4, <2>0, <2>1 DEF TypesOK
  <2> QED
    BY <2>7, <2>8, Zenon
<1>2. AofInv /\ [Next]_vars => [Restart /\ mode' = "refused" => Reason]_vars
  <2> HIDE DEF Reason
  <2> QED
    BY <1>1
<1> QED
  BY <1>2, AofInvariance, PTL DEF Spec, RefusesOnlyAfterPowerLoss
=============================================================================

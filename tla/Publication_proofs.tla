---------------------------- MODULE Publication_proofs ---------------------------
(***************************************************************************)
(* The safety properties of the two components that put files in place and *)
(* take files away: GGUFWriter, for any plans, identities, number of       *)
(* tensors and faults, and ArtifactRegistry, for any digests, aliases,     *)
(* leases and deaths.  They share no state, and their names are distinct.  *)
(***************************************************************************)
EXTENDS GGUFWriter, ArtifactRegistry, SequenceTheorems, TLAPS

-----------------------------------------------------------------------------
(* The types of the state *)

\* The files and the call that are not there.
LEMMA NothingIsTyped == NoFile \in Files /\ Empty \in Files /\ NoManifest \in Manifests /\ Idle \in Calls
<1>1. << >> \in Seq(Plan) /\ << >> \in Seq(Plan \cup {Damaged})
  OBVIOUS
<1>2. NoFile \in Files
  BY <1>1 DEF NoFile, Files
<1>3. Empty \in Files
  BY <1>1 DEF Empty, NoFile, Files
<1>4. NoManifest \in Manifests
  BY <1>1 DEF NoManifest, Manifests
<1>5. Idle \in Calls
  BY <1>1 DEF Idle, Calls, Pc
<1> QED
  BY <1>2, <1>3, <1>4, <1>5

\* A call that moves on is a call of the same plan.
LEMMA CallMoves ==
  ASSUME TypeOK, NEW pc \in Pc, Goto(pc)
  PROVE  /\ writer' \in Calls /\ writer'.pc = pc
         /\ writer'.plan = writer.plan /\ writer'.committed = writer.committed
  BY DEF TypeOK, Calls, Goto

\* A record of the fields of a call is a call, and so with a file and a manifest.
LEMMA RecordsAreTyped ==
  /\ \A pc \in Pc, p \in Plan \cup {None}, s \in Seq(Plan) :
       [pc |-> pc, plan |-> p, committed |-> s] \in Calls
  /\ \A e \in BOOLEAN, s \in Seq(Plan \cup {Damaged}), n \in Nat, t \in BOOLEAN :
       [exists |-> e, tensors |-> s, synced |-> n, tail |-> t] \in Files
  /\ \A id \in Id \cup {None}, s \in Seq(Plan) : [id |-> id, committed |-> s] \in Manifests
  BY DEF Calls, Files, Manifests
-----------------------------------------------------------------------------
(* Sequences of tensors *)

\* A whole file of one identity may be published, and is not an absent one.
LEMMA WholeFile ==
  ASSUME NEW id \in Id, NEW s \in Seq(Plan), OfOne(id, s), Len(s) = Tensors
  PROVE  s \in Whole /\ s # << >>
<1>1. s \in [1..Tensors -> Plan]
  OBVIOUS
<1>2. \A i, j \in 1..Tensors : Identity[s[i]] = Identity[s[j]]
  BY DEF OfOne
<1>3. Len(s) # 0
  BY WriterAssumption
<1> QED
  BY <1>1, <1>2, <1>3 DEF Whole

\* One more tensor of the plan keeps a file of one identity.
LEMMA OneMore ==
  ASSUME NEW p \in Plan, NEW s \in Seq(Plan), OfOne(Identity[p], s), Len(s) < Tensors
  PROVE  Append(s, p) \in Seq(Plan) /\ OfOne(Identity[p], Append(s, p))
<1>1. Append(s, p) \in Seq(Plan) /\ Len(Append(s, p)) = Len(s) + 1
  OBVIOUS
<1>2. ASSUME NEW i \in 1..Len(Append(s, p)) PROVE Identity[Append(s, p)[i]] = Identity[p]
  <2>1. CASE i \in 1..Len(s)
    BY <2>1 DEF OfOne
  <2>2. CASE i = Len(s) + 1
    BY <2>2
  <2> QED
    BY <1>1, <2>1, <2>2
<1>3. Len(Append(s, p)) <= Tensors
  BY <1>1, WriterAssumption
<1> QED
  BY <1>1, <1>2, <1>3 DEF OfOne

\* What a sequence begins with, it begins with after one more element.
LEMMA PrefixOfAppend ==
  ASSUME NEW S, NEW s \in Seq(S), NEW e \in S
  PROVE  Len(s) <= Len(Append(s, e)) /\ SubSeq(Append(s, e), 1, Len(s)) = s
  OBVIOUS

\* A sequence begins with itself.
LEMMA PrefixOfItself ==
  ASSUME NEW S, NEW s \in Seq(S)
  PROVE  Len(s) <= Len(s) /\ SubSeq(s, 1, Len(s)) = s
  OBVIOUS

\* What a fault leaves of a file is a file, with all its synchronized tensors.
LEMMA SurvivorIsFile ==
  ASSUME TypeOK, FilesInv, NEW n \in staging.synced..Len(staging.tensors), NEW tail \in BOOLEAN
  PROVE  LET g == Survivor(staging, n, tail)
         IN /\ g \in Files
            /\ g.synced <= Len(g.tensors) /\ (~g.exists => g = NoFile)
<1>1. n \in 0..Len(staging.tensors)
  BY DEF TypeOK, Files
<1>2. /\ SubSeq(staging.tensors, 1, n) \in Seq(Plan \cup {Damaged})
      /\ Len(SubSeq(staging.tensors, 1, n)) = n
  BY <1>1 DEF TypeOK, Files
<1>3. CASE staging.exists
  <2>1. Survivor(staging, n, tail) = [exists |-> TRUE, tensors |-> SubSeq(staging.tensors, 1, n),
                                      synced |-> staging.synced, tail |-> tail]
    BY <1>3 DEF TypeOK, Files, Survivor
  <2>2. staging.synced \in Nat /\ staging.synced <= n
    BY DEF TypeOK, Files
  <2>3. Survivor(staging, n, tail) \in Files
    BY <2>1, <2>2, <1>2, RecordsAreTyped
  <2> QED
    BY <2>1, <2>2, <2>3, <1>2
<1>4. CASE ~staging.exists
  BY <1>4 DEF TypeOK, Files, FilesInv, Survivor
<1> QED
  BY <1>3, <1>4 DEF TypeOK, Files
-----------------------------------------------------------------------------
(* The invariant *)

\* The initial state, in which there is no file.
LEMMA InitInv == Init => WriterInv
<1> SUFFICES ASSUME Init PROVE WriterInv
  OBVIOUS
<1> USE WriterAssumption
<1>1. staging \in Files
  BY NothingIsTyped DEF Init
<1>2. manifest \in Manifests
  BY NothingIsTyped DEF Init
<1>3. writer \in Calls
  BY NothingIsTyped DEF Init
<1>7. temporary \in BOOLEAN /\ output \in Whole \cup {<< >>} /\ direct \in Plan \cup {None}
  BY DEF Init
<1>8. faults \in 0..MaxFaults
  BY DEF Init
<1>4. TypeOK
  BY <1>1, <1>2, <1>3, <1>7, <1>8 DEF TypeOK
<1>5. FilesInv
  BY DEF Init, FilesInv, NoFile, NoManifest
<1>6. CommittedIsSynced /\ PhaseInv
  BY DEF Init, CommittedIsSynced, PhaseInv, Idle, At
<1> QED
  BY <1>4, <1>5, <1>6 DEF WriterInv

\* A call begins: a new staging file, or the old one to be resumed.
LEMMA BeginStep ==
  ASSUME WriterInv, NEW p \in Plan, Begin(p)
  PROVE  WriterInv'
<1> USE WriterAssumption DEF WriterInv
<1>1. CASE UNCHANGED <<staging, writer>>
  BY <1>1 DEF Begin, TypeOK, FilesInv, CommittedIsSynced, PhaseInv, At
<1>2. CASE ~Torn /\ staging.exists /\ UNCHANGED staging
           /\ writer' = [pc |-> "resume", plan |-> p, committed |-> << >>]
  <2>1. writer' \in Calls
    BY <1>2, RecordsAreTyped, NothingIsTyped DEF Pc, NoManifest, Manifests
  <2>2. TypeOK'
    BY <1>2, <2>1 DEF Begin, TypeOK
  <2>3. FilesInv' /\ CommittedIsSynced' /\ PhaseInv'
    BY <1>2 DEF Begin, FilesInv, CommittedIsSynced, PhaseInv, At, Torn
  <2> QED
    BY <2>2, <2>3
<1>3. CASE ~Torn /\ ~staging.exists /\ staging' = Empty
           /\ writer' = [pc |-> "header", plan |-> p, committed |-> << >>]
  <2>1. writer' \in Calls /\ staging' \in Files
    BY <1>3, RecordsAreTyped, NothingIsTyped DEF Pc, NoManifest, Manifests
  <2>2. TypeOK'
    BY <1>3, <2>1 DEF Begin, TypeOK
  <2>3. FilesInv' /\ CommittedIsSynced' /\ PhaseInv'
    BY <1>3 DEF Begin, FilesInv, CommittedIsSynced, PhaseInv, At, Torn, Empty, NoFile
  <2> QED
    BY <2>2, <2>3
<1> QED
  BY <1>1, <1>2, <1>3 DEF Begin

\* The manifest is written beside the old one, and then replaces it.
LEMMA ManifestStep ==
  ASSUME WriterInv, SyncHeader \/ CommitManifest
  PROVE  WriterInv'
<1> USE WriterAssumption DEF WriterInv
<1>1. CASE SyncHeader
  <2>1. /\ writer' \in Calls /\ writer'.pc = "commit"
        /\ writer'.plan = writer.plan /\ writer'.committed = writer.committed
    BY <1>1, CallMoves DEF SyncHeader, Pc
  <2>2. TypeOK'
    BY <1>1, <2>1 DEF SyncHeader, TypeOK
  <2>3. FilesInv' /\ PhaseInv'
    BY <1>1, <2>1 DEF SyncHeader, FilesInv, PhaseInv, At
  <2>4. /\ staging = Empty /\ manifest = NoManifest /\ writer.plan \in Plan
        /\ writer.committed = << >>
    BY <1>1 DEF SyncHeader, PhaseInv, At
  <2>5. /\ staging.exists /\ staging.synced = 0 /\ staging.tensors = << >> /\ staging.tail = FALSE
    BY <2>4 DEF Empty, NoFile
  <2>6. OfOne(Identity[writer.plan], << >>) /\ Len(<< >>) = 0
    BY DEF OfOne
  <2>7. UNCHANGED <<staging, manifest>>
    BY <1>1 DEF SyncHeader
  <2>8. CommittedIsSynced'
    BY <2>1, <2>4, <2>5, <2>6, <2>7 DEF CommittedIsSynced, At
  <2> QED
    BY <2>2, <2>3, <2>8
<1>2. CASE CommitManifest
  <2>1. Identity[writer.plan] \in Id /\ writer.plan \in Plan /\ Identity[writer.plan] # None
    BY <1>2 DEF CommitManifest, CommittedIsSynced, At, Id
  <2>2. /\ writer' \in Calls /\ writer'.pc = "tensors"
        /\ writer'.plan = writer.plan /\ writer'.committed = writer.committed
    BY <1>2, CallMoves DEF CommitManifest, Pc
  <2>3. manifest' \in Manifests
    BY <1>2, <2>1, RecordsAreTyped DEF CommitManifest, TypeOK, Calls
  <2>6. TypeOK'
    BY <1>2, <2>2, <2>3 DEF CommitManifest, TypeOK
  <2>4. FilesInv' /\ PhaseInv'
    BY <1>2, <2>1, <2>2 DEF CommitManifest, FilesInv, PhaseInv, CommittedIsSynced, At, OfOne
  <2>5. CommittedIsSynced'
    BY <1>2, <2>1, <2>2 DEF CommitManifest, CommittedIsSynced, At, OfOne
  <2> QED
    BY <2>6, <2>4, <2>5
<1> QED
  BY <1>1, <1>2

\* A resumed call takes over what the manifest commits, and nothing behind it.
LEMMA ResumeStep ==
  ASSUME WriterInv, Resume
  PROVE  WriterInv'
<1> USE WriterAssumption DEF WriterInv
<1>1. CASE writer' = Idle /\ UNCHANGED staging
  <2>1. TypeOK'
    BY <1>1, NothingIsTyped DEF Resume, TypeOK
  <2> QED
    BY <1>1, <2>1 DEF Resume, FilesInv, CommittedIsSynced, PhaseInv, At, Idle
<1>2. ASSUME manifest.id = Identity[writer.plan],
             staging' = [Empty EXCEPT !.tensors = SubSeq(staging.tensors, 1, Len(manifest.committed)),
                                      !.synced = Len(manifest.committed)],
             Intact,
             writer' = [writer EXCEPT !.pc = "tensors", !.committed = manifest.committed]
      PROVE  WriterInv'
  <2>1. /\ Len(manifest.committed) \in Nat /\ manifest.committed \in Seq(Plan)
        /\ manifest.committed \in Seq(Plan \cup {Damaged})
    BY DEF TypeOK, Manifests
  <2>2. staging' = [exists |-> TRUE, tensors |-> manifest.committed,
                    synced |-> Len(manifest.committed), tail |-> FALSE]
    BY <1>2 DEF Empty, NoFile, Intact
  <2>3. TypeOK'
    <3>1. staging' \in Files
      BY <2>1, <2>2, RecordsAreTyped
    <3>2. writer' \in Calls
      BY <1>2, <2>1 DEF TypeOK, Calls, Pc
    <3> QED
      BY <3>1, <3>2 DEF Resume, TypeOK
  <2>4. /\ writer'.pc = "tensors" /\ writer'.plan = writer.plan
        /\ writer'.committed = manifest.committed /\ writer.plan \in Plan /\ manifest' = manifest
    BY <1>2 DEF Resume, TypeOK, Calls, PhaseInv, At
  <2>5. Identity[writer.plan] # None
    BY <2>4 DEF Id
  <2>6. FilesInv' /\ PhaseInv'
    BY <2>2, <2>4, <1>2, <2>1 DEF FilesInv, PhaseInv, At
  <2>7. manifest = [id |-> Identity[writer.plan], committed |-> manifest.committed]
    BY <1>2 DEF TypeOK, Manifests
  <2>8. /\ staging'.exists /\ staging'.synced = Len(manifest.committed)
        /\ staging'.tensors = manifest.committed /\ staging'.tail = FALSE
    BY <2>2
  <2>9. OfOne(Identity[writer.plan], manifest.committed)
    BY <1>2, <2>5 DEF FilesInv
  <2>10. CommittedIsSynced'
    BY <2>4, <2>7, <2>8, <2>9 DEF CommittedIsSynced, At
  <2> QED
    BY <2>3, <2>6, <2>10
<1> QED
  BY <1>1, <1>2 DEF Resume

\* The next tensor is written and synchronized.
LEMMA TensorStep ==
  ASSUME WriterInv, WriteTensor \/ LastChunk \/ SyncTensor
  PROVE  WriterInv'
<1> USE WriterAssumption DEF WriterInv
<1>1. CASE WriteTensor
  <2>1. /\ writer' \in Calls /\ writer'.pc = "chunks"
        /\ writer'.plan = writer.plan /\ writer'.committed = writer.committed
    BY <1>1, CallMoves DEF WriteTensor, Pc
  <2>2. staging' = [exists |-> staging.exists, tensors |-> staging.tensors,
                    synced |-> staging.synced, tail |-> TRUE]
    BY <1>1 DEF WriteTensor, TypeOK, Files
  <2>3. TypeOK'
    BY <1>1, <2>1, <2>2 DEF WriteTensor, TypeOK, Files
  <2> QED
    BY <1>1, <2>1, <2>2, <2>3 DEF WriteTensor, FilesInv, CommittedIsSynced, PhaseInv, At
<1>2. CASE LastChunk
  <2>1. writer.plan \in Plan /\ staging.tensors = writer.committed
    BY <1>2 DEF LastChunk, CommittedIsSynced, At
  <2>2. /\ Append(staging.tensors, writer.plan) \in Seq(Plan \cup {Damaged})
        /\ Len(Append(staging.tensors, writer.plan)) = Len(staging.tensors) + 1
    BY <2>1 DEF TypeOK, Files
  <2>3. /\ writer' \in Calls /\ writer'.pc = "sync"
        /\ writer'.plan = writer.plan /\ writer'.committed = writer.committed
    BY <1>2, CallMoves DEF LastChunk, Pc
  <2>4. /\ staging' = [exists |-> staging.exists, tensors |-> Append(staging.tensors, writer.plan),
                       synced |-> staging.synced, tail |-> FALSE]
        /\ staging' \in Files
    BY <1>2, <2>2 DEF LastChunk, TypeOK, Files
  <2>5. TypeOK'
    BY <1>2, <2>3, <2>4 DEF LastChunk, TypeOK
  <2>6. FilesInv' /\ PhaseInv'
    BY <1>2, <2>2, <2>3, <2>4 DEF LastChunk, FilesInv, PhaseInv, CommittedIsSynced, At, TypeOK, Files
  <2>7. /\ staging'.exists /\ staging'.synced = Len(writer.committed)
        /\ staging'.tensors = Append(writer.committed, writer.plan) /\ staging'.tail = FALSE
    BY <1>2, <2>1, <2>4 DEF LastChunk, CommittedIsSynced, At
  <2>8. CommittedIsSynced'
    BY <1>2, <2>1, <2>3, <2>7 DEF LastChunk, CommittedIsSynced, At
  <2> QED
    BY <2>5, <2>6, <2>8
<1>3. CASE SyncTensor
  <2>1. /\ writer.plan \in Plan /\ staging.tensors = Append(writer.committed, writer.plan)
        /\ OfOne(Identity[writer.plan], writer.committed) /\ Len(writer.committed) < Tensors
        /\ writer.committed \in Seq(Plan)
    BY <1>3 DEF SyncTensor, CommittedIsSynced, At, TypeOK, Calls
  <2>2. /\ Append(writer.committed, writer.plan) \in Seq(Plan)
        /\ OfOne(Identity[writer.plan], Append(writer.committed, writer.plan))
    BY <2>1, OneMore
  <2>3. /\ writer' \in Calls
        /\ writer'.pc = "commit" /\ writer'.plan = writer.plan
        /\ writer'.committed = Append(writer.committed, writer.plan)
    BY <1>3, <2>2 DEF SyncTensor, TypeOK, Calls, Pc
  <2>4. /\ staging' = [exists |-> staging.exists, tensors |-> staging.tensors,
                       synced |-> Len(staging.tensors), tail |-> staging.tail]
        /\ staging' \in Files
    BY <1>3 DEF SyncTensor, TypeOK, Files
  <2>5. TypeOK'
    BY <1>3, <2>3, <2>4 DEF SyncTensor, TypeOK
  <2>6. FilesInv' /\ PhaseInv'
    BY <1>3, <2>3, <2>4 DEF SyncTensor, FilesInv, PhaseInv, CommittedIsSynced, At, TypeOK, Files
  <2>7. CommittedIsSynced'
    BY <1>3, <2>1, <2>2, <2>3, <2>4 DEF SyncTensor, CommittedIsSynced, At
  <2> QED
    BY <2>5, <2>6, <2>7
<1> QED
  BY <1>1, <1>2, <1>3

\* What a link publishes is a whole model of one identity.
LEMMA LinkIsWhole ==
  ASSUME WriterInv, Link
  PROVE  output' = output \/ (output = << >> /\ output' \in Whole /\ output' # << >>)
<1>1. CASE UNCHANGED output
  BY <1>1
<1>2. ASSUME output = << >>, output' = staging.tensors
      PROVE  output' \in Whole /\ output' # << >>
  <2>1. /\ writer.committed \in Seq(Plan) /\ staging.tensors = writer.committed
        /\ OfOne(Identity[writer.plan], writer.committed) /\ writer.plan \in Plan
        /\ Len(writer.committed) = Tensors
    BY DEF Link, WriterInv, TypeOK, Calls, CommittedIsSynced, At
  <2>2. Identity[writer.plan] \in Id
    BY <2>1 DEF Id
  <2> QED
    BY <1>2, <2>1, <2>2, WholeFile
<1> QED
  BY <1>1, <1>2 DEF Link

\* The whole file is published, and the private files go.
LEMMA PublishStep ==
  ASSUME WriterInv, Link \/ UnlinkStaging \/ UnlinkManifest
  PROVE  WriterInv'
<1> USE WriterAssumption DEF WriterInv
<1>1. CASE Link
  <2>1. output' \in Whole \cup {<< >>} /\ (output # << >> => output' # << >>)
    BY <1>1, LinkIsWhole DEF TypeOK
  <2>2. CASE Goto("unlink") /\ output' # << >>
    <3>2. /\ writer' \in Calls /\ writer'.pc = "unlink"
          /\ writer'.plan = writer.plan /\ writer'.committed = writer.committed
      BY <2>2, CallMoves DEF Pc
    <3>1. TypeOK'
      BY <1>1, <2>1, <3>2 DEF Link, TypeOK
    <3> QED
      BY <1>1, <2>2, <3>1, <3>2 DEF Link, FilesInv, CommittedIsSynced, PhaseInv, At
  <2>3. CASE writer' = Idle
    <3>1. TypeOK'
      BY <1>1, <2>1, <2>3, NothingIsTyped DEF Link, TypeOK
    <3> QED
      BY <1>1, <2>3, <3>1 DEF Link, FilesInv, CommittedIsSynced, PhaseInv, At, Idle
  <2>4. (Goto("unlink") /\ output' # << >>) \/ writer' = Idle
    BY <1>1, LinkIsWhole DEF Link
  <2> QED
    BY <2>2, <2>3, <2>4
<1>2. CASE UnlinkStaging
  <2>2. writer' \in Calls /\ writer'.pc = "unlink_manifest"
    BY <1>2, CallMoves DEF UnlinkStaging, Pc
  <2>1. TypeOK'
    BY <1>2, <2>2, NothingIsTyped DEF UnlinkStaging, TypeOK
  <2> QED
    BY <1>2, <2>1, <2>2 DEF UnlinkStaging, FilesInv, CommittedIsSynced, PhaseInv, At, NoFile
<1>3. CASE UnlinkManifest
  <2>1. TypeOK'
    BY <1>3, NothingIsTyped DEF UnlinkManifest, TypeOK
  <2> QED
    BY <1>3, <2>1 DEF UnlinkManifest, FilesInv, CommittedIsSynced, PhaseInv, At, Idle, NoManifest
<1> QED
  BY <1>1, <1>2, <1>3

\* A discard removes the three files one after the other.
LEMMA DiscardStep ==
  ASSUME WriterInv, Discard \/ DiscardManifest \/ DiscardTemporary
  PROVE  WriterInv'
<1> USE WriterAssumption DEF WriterInv
<1>1. CASE Discard
  <2>2. writer' \in Calls /\ writer'.pc = "discard_manifest"
    BY <1>1, CallMoves DEF Discard, Pc
  <2>1. TypeOK'
    BY <1>1, <2>2, NothingIsTyped DEF Discard, TypeOK
  <2> QED
    BY <1>1, <2>1, <2>2 DEF Discard, FilesInv, CommittedIsSynced, PhaseInv, At, NoFile
<1>2. CASE DiscardManifest
  <2>2. writer' \in Calls /\ writer'.pc = "discard_temporary"
    BY <1>2, CallMoves DEF DiscardManifest, Pc
  <2>1. TypeOK'
    BY <1>2, <2>2, NothingIsTyped DEF DiscardManifest, TypeOK
  <2> QED
    BY <1>2, <2>1, <2>2 DEF DiscardManifest, FilesInv, CommittedIsSynced, PhaseInv, At, NoManifest
<1>3. CASE DiscardTemporary
  <2>2. writer' \in Calls /\ writer'.pc = "idle"
    BY <1>3, CallMoves DEF DiscardTemporary, Pc
  <2>1. TypeOK'
    BY <1>3, <2>2, NothingIsTyped DEF DiscardTemporary, TypeOK
  <2> QED
    BY <1>3, <2>1, <2>2 DEF DiscardTemporary, FilesInv, CommittedIsSynced, PhaseInv, At
<1> QED
  BY <1>1, <1>2, <1>3

\* The transactional writer touches nothing but the destination.
LEMMA DirectStep ==
  ASSUME WriterInv, (\E p \in Plan : BeginDirect(p)) \/ LinkDirect
  PROVE  WriterInv' /\ (output' = output \/ (output = << >> /\ output' \in Whole))
<1> USE WriterAssumption DEF WriterInv
<1>1. CASE \E p \in Plan : BeginDirect(p)
  BY <1>1 DEF BeginDirect, TypeOK, FilesInv, CommittedIsSynced, PhaseInv, At
<1>2. CASE LinkDirect
  <2>1. direct \in Plan
    BY <1>2 DEF LinkDirect, TypeOK
  <2>2. [i \in 1..Tensors |-> direct] \in Whole
    BY <2>1 DEF Whole
  <2>3. output # << >> => output' # << >>
    BY <1>2 DEF LinkDirect
  <2>4. TypeOK'
    BY <1>2, <2>2 DEF LinkDirect, TypeOK
  <2> QED
    BY <1>2, <2>2, <2>3, <2>4 DEF LinkDirect, FilesInv, CommittedIsSynced, PhaseInv, At
<1> QED
  BY <1>1, <1>2

\* Failures, deaths and damage.
LEMMA FaultStep ==
  ASSUME WriterInv, Raise \/ Die \/ Damage
  PROVE  WriterInv'
<1> USE WriterAssumption DEF WriterInv
<1>1. CASE Raise
  <2>1. TypeOK'
    BY <1>1, NothingIsTyped DEF Raise, TypeOK
  <2> QED
    BY <1>1, <2>1 DEF Raise, FilesInv, CommittedIsSynced, PhaseInv, At, Idle
<1>2. CASE Die
  <2>1. PICK n \in staging.synced..Len(staging.tensors), tail \in BOOLEAN :
          staging' = Survivor(staging, n, tail)
    BY <1>2 DEF Die
  <2>2. /\ staging' \in Files
        /\ staging'.synced <= Len(staging'.tensors) /\ (~staging'.exists => staging' = NoFile)
    BY <2>1, SurvivorIsFile
  <2>3. TypeOK'
    BY <1>2, <2>2, NothingIsTyped DEF Die, TypeOK
  <2>4. FilesInv'
    BY <1>2, <2>2 DEF Die, FilesInv
  <2> QED
    BY <1>2, <2>3, <2>4 DEF Die, CommittedIsSynced, PhaseInv, At, Idle
<1>3. CASE Damage
  <2>1. PICK i \in 1..Len(staging.tensors) :
          \/ staging' = [staging EXCEPT !.tensors = [@ EXCEPT ![i] = Damaged]]
          \/ /\ i = Len(staging.tensors)
             /\ staging' = [staging EXCEPT !.tensors = SubSeq(@, 1, i - 1),
                                           !.synced = IF @ = i THEN i - 1 ELSE @, !.tail = TRUE]
    BY <1>3 DEF Damage
  <2> DEFINE t == staging.tensors
  <2>0. /\ t \in Seq(Plan \cup {Damaged}) /\ Len(t) \in Nat /\ i \in 1..Len(t)
        /\ staging.synced \in Nat /\ staging.synced <= Len(t)
    BY <2>1 DEF TypeOK, Files, FilesInv
  <2>2. /\ staging' \in Files
        /\ staging'.synced <= Len(staging'.tensors) /\ staging'.exists = staging.exists
    <3>1. CASE staging' = [staging EXCEPT !.tensors = [@ EXCEPT ![i] = Damaged]]
      <4>1. /\ [t EXCEPT ![i] = Damaged] \in Seq(Plan \cup {Damaged})
            /\ Len([t EXCEPT ![i] = Damaged]) = Len(t)
        BY <2>0, ExceptSeq
      <4> QED
        BY <2>0, <3>1, <4>1 DEF TypeOK, Files
    <3>2. CASE /\ i = Len(staging.tensors)
               /\ staging' = [staging EXCEPT !.tensors = SubSeq(@, 1, i - 1),
                                             !.synced = IF @ = i THEN i - 1 ELSE @, !.tail = TRUE]
      <4>0. i - 1 \in 0..Len(t)
        BY <2>0
      <4>1. /\ SubSeq(t, 1, i - 1) \in Seq(Plan \cup {Damaged})
            /\ Len(SubSeq(t, 1, i - 1)) = i - 1
        BY <2>0, <4>0
      <4> DEFINE n == IF staging.synced = i THEN i - 1 ELSE staging.synced
      <4>2. n \in Nat /\ n <= i - 1
        BY <2>0, <3>2
      <4>3. staging' = [exists |-> staging.exists, tensors |-> SubSeq(t, 1, i - 1),
                        synced |-> n, tail |-> TRUE]
        BY <3>2 DEF TypeOK, Files
      <4>4. staging.exists \in BOOLEAN
        BY DEF TypeOK, Files
      <4>5. staging' \in Files
        BY <4>1, <4>2, <4>3, <4>4, RecordsAreTyped
      <4> QED
        BY <4>1, <4>2, <4>3, <4>5
    <3> QED
      BY <2>1, <3>1, <3>2
  <2>3. staging.exists
    BY <2>1 DEF FilesInv, NoFile
  <2>7. faults < MaxFaults /\ faults' = faults + 1
    BY <1>3 DEF Damage
  <2>8. faults \in 0..MaxFaults
    BY DEF TypeOK
  <2>6. faults' \in 0..MaxFaults
    BY <2>7, <2>8
  <2>4. TypeOK'
    BY <1>3, <2>2, <2>6 DEF Damage, TypeOK
  <2>5. FilesInv'
    BY <1>3, <2>2, <2>3 DEF Damage, FilesInv
  <2> QED
    BY <1>3, <2>4, <2>5 DEF Damage, CommittedIsSynced, PhaseInv, At
<1> QED
  BY <1>1, <1>2, <1>3

\* Every step keeps the invariant.
LEMMA StepInv == WriterInv /\ [Next]_vars => WriterInv'
<1> SUFFICES ASSUME WriterInv, [Next]_vars PROVE WriterInv'
  OBVIOUS
<1>1. CASE UNCHANGED vars
  BY <1>1 DEF vars, WriterInv, TypeOK, FilesInv, CommittedIsSynced, PhaseInv, At
<1>2. ASSUME NEW p \in Plan, Begin(p) PROVE WriterInv'
  BY <1>2, BeginStep
<1>3. CASE (\E p \in Plan : BeginDirect(p)) \/ LinkDirect
  BY <1>3, DirectStep
<1>4. CASE Work
  BY <1>4, ManifestStep, ResumeStep, TensorStep, PublishStep, DiscardStep DEF Work
<1>5. CASE Raise \/ Discard \/ Die \/ Damage
  BY <1>5, FaultStep, DiscardStep
<1> QED
  BY <1>1, <1>2, <1>3, <1>4, <1>5 DEF Next

\* The inductive invariant holds in every behaviour.
THEOREM WriterInvariant == Spec => []WriterInv
<1>1. Init => WriterInv
  BY InitInv
<1>2. WriterInv /\ [Next]_vars => WriterInv'
  BY StepInv
<1> QED
  BY <1>1, <1>2, PTL DEF Spec
-----------------------------------------------------------------------------
(* The promise of the output path *)

\* Every step publishes one whole model at an absent destination, or leaves it alone.
LEMMA StepPromise == WriterInv /\ [Next]_vars => [Promise!Publish]_output
<1> SUFFICES ASSUME WriterInv, [Next]_vars PROVE [Promise!Publish]_output
  OBVIOUS
<1>1. CASE Link
  BY <1>1, LinkIsWhole DEF Promise!Publish
<1>2. CASE (\E p \in Plan : BeginDirect(p)) \/ LinkDirect
  BY <1>2, DirectStep DEF Promise!Publish
<1>3. CASE UNCHANGED output
  BY <1>3
<1> QED
  BY <1>1, <1>2, <1>3 DEF Next, Work, vars, Begin, SyncHeader, CommitManifest, Resume,
     WriteTensor, LastChunk, SyncTensor, UnlinkStaging, UnlinkManifest, Discard,
     DiscardManifest, DiscardTemporary, Raise, Die, Damage

\* The destination is absent until a whole model of one identity appears, whoever
\* publishes it, and that model stays.
THEOREM OutputPromiseKept == Spec => PublishesWhole
<1>1. Init => Promise!Init
  BY DEF Init, Promise!Init
<1> QED
  BY <1>1, WriterInvariant, StepPromise, PTL DEF Spec, PublishesWhole, Promise!Spec
-----------------------------------------------------------------------------
(* Committed tensors *)

\* What a step may do to the manifest: nothing, remove it, create it, or add a tensor.
LEMMA StepCommitted ==
  WriterInv /\ [Next]_vars =>
    [manifest # NoManifest /\ manifest' # NoManifest =>
       /\ manifest'.id = manifest.id
       /\ Len(manifest.committed) <= Len(manifest'.committed)
       /\ SubSeq(manifest'.committed, 1, Len(manifest.committed)) = manifest.committed]_vars
<1> SUFFICES ASSUME WriterInv, [Next]_vars, manifest # NoManifest, manifest' # NoManifest
             PROVE  /\ manifest'.id = manifest.id
                    /\ Len(manifest.committed) <= Len(manifest'.committed)
                    /\ SubSeq(manifest'.committed, 1, Len(manifest.committed)) = manifest.committed
  OBVIOUS
<1>1. manifest.committed \in Seq(Plan)
  BY DEF WriterInv, TypeOK, Manifests
<1>2. CASE CommitManifest
  <2>1. /\ manifest.id = Identity[writer.plan] /\ writer.plan \in Plan
        /\ writer.committed = Append(manifest.committed, writer.plan)
    BY <1>2 DEF CommitManifest, WriterInv, CommittedIsSynced, At
  <2>2. manifest' = [id |-> Identity[writer.plan], committed |-> writer.committed]
    BY <1>2 DEF CommitManifest
  <2> QED
    BY <1>1, <2>1, <2>2, PrefixOfAppend
<1>3. CASE UNCHANGED manifest
  BY <1>1, <1>3, PrefixOfItself
<1> QED
  BY <1>2, <1>3 DEF Next, Work, vars, Begin, SyncHeader, Resume, WriteTensor, LastChunk,
     SyncTensor, Link, UnlinkStaging, UnlinkManifest, Discard, DiscardManifest,
     DiscardTemporary, Raise, Die, Damage, BeginDirect, LinkDirect

\* Until it is discarded, an export only gains committed tensors.
THEOREM CommittedTensorsStay == Spec => CommittedStays
<1> QED
  BY WriterInvariant, StepCommitted, PTL DEF Spec, CommittedStays

-----------------------------------------------------------------------------
(* The artifact registry *)

\* The closed session and the empty catalog.
LEMMA NothingIsCatalogued ==
  /\ NoCatalog \in Catalogs
  /\ Closed \in [pc : {"closed"}, catalog : {NoCatalog}, digest : {NoDigest},
                 marked : {FALSE}, todo : {{}}]
  /\ NoCatalog.artifacts = {}
  /\ Protected(NoCatalog) = {}
  BY DEF NoCatalog, Catalogs, Closed, Protected

LEMMA RegistryInitHolds ==
  ASSUME RegistryInit
  PROVE  RegistryInv
<1>1. session \in [pc : {"closed"}, catalog : {NoCatalog}, digest : {NoDigest},
                   marked : {FALSE}, todo : {{}}]
  BY NothingIsCatalogued DEF RegistryInit
<1>2. RegistryTypeOK
  <2>1. session \in [pc : {"closed", "open", "publish", "collect", "remove"},
                     catalog : Catalogs, digest : Digest \cup {NoDigest},
                     marked : BOOLEAN, todo : SUBSET Digest]
    BY <1>1, NothingIsCatalogued
  <2>2. 0 \in 0..MaxDeaths
    BY RegistryAssumption
  <2> QED BY <2>1, <2>2, NothingIsCatalogued DEF RegistryInit, RegistryTypeOK
<1>3. CatalogIsBacked /\ NothingDangles /\ SessionAgrees
  BY <1>1, NothingIsCatalogued DEF RegistryInit, CatalogIsBacked,
     NothingDangles, SessionAgrees, SessionAt
<1> QED BY <1>2, <1>3 DEF RegistryInv

\* What the operations on a catalog do to what it protects.
LEMMA ProtectedAfter ==
  ASSUME NEW c \in Catalogs
  PROVE  /\ \A n \in Name, d \in Digest \cup {NoDigest} :
              /\ [c EXCEPT !.names[n] = d] \in Catalogs
              /\ Protected([c EXCEPT !.names[n] = d])
                   \subseteq Protected(c) \cup ({d} \ {NoDigest})
         /\ \A owner, d \in Digest :
              /\ [c EXCEPT !.references = @ \cup {<<owner, d>>}] \in Catalogs
              /\ Protected([c EXCEPT !.references = @ \cup {<<owner, d>>}])
                   \subseteq Protected(c) \cup {d}
         /\ \A A \in SUBSET c.artifacts :
              /\ [c EXCEPT !.artifacts = A] \in Catalogs
              /\ Protected([c EXCEPT !.artifacts = A]) \subseteq Protected(c)
         /\ Protected(c) \subseteq Digest
<1>1. ASSUME NEW n \in Name, NEW d \in Digest \cup {NoDigest}
      PROVE  /\ [c EXCEPT !.names[n] = d] \in Catalogs
             /\ Protected([c EXCEPT !.names[n] = d])
                   \subseteq Protected(c) \cup ({d} \ {NoDigest})
  <2> DEFINE e == [c EXCEPT !.names[n] = d]
  <2>1. /\ e \in Catalogs /\ e.artifacts = c.artifacts /\ e.marked = c.marked
        /\ e.references = c.references
        /\ \A m \in Name : e.names[m] = IF m = n THEN d ELSE c.names[m]
    BY DEF Catalogs
  <2> HIDE DEF e
  <2>2. Protected(e) \subseteq Protected(c) \cup ({d} \ {NoDigest})
    BY <2>1 DEF Protected
  <2> QED BY <2>1, <2>2 DEF e
<1>2. ASSUME NEW owner \in Digest, NEW d \in Digest
      PROVE  /\ [c EXCEPT !.references = @ \cup {<<owner, d>>}] \in Catalogs
             /\ Protected([c EXCEPT !.references = @ \cup {<<owner, d>>}])
                  \subseteq Protected(c) \cup {d}
  <2> DEFINE e == [c EXCEPT !.references = @ \cup {<<owner, d>>}]
  <2>1. /\ e \in Catalogs /\ e.artifacts = c.artifacts /\ e.marked = c.marked
        /\ e.names = c.names /\ e.references = c.references \cup {<<owner, d>>}
    BY DEF Catalogs
  <2> HIDE DEF e
  <2>2. Protected(e) \subseteq Protected(c) \cup {d}
    BY <2>1 DEF Protected
  <2> QED BY <2>1, <2>2 DEF e
<1>3. ASSUME NEW A \in SUBSET c.artifacts
      PROVE  /\ [c EXCEPT !.artifacts = A] \in Catalogs
             /\ Protected([c EXCEPT !.artifacts = A]) \subseteq Protected(c)
  <2> DEFINE e == [c EXCEPT !.artifacts = A]
  <2>1. /\ e \in Catalogs /\ e.artifacts = A /\ e.marked = c.marked
        /\ e.names = c.names /\ e.references = c.references
    BY DEF Catalogs
  <2> HIDE DEF e
  <2>2. Protected(e) \subseteq Protected(c)
    BY <2>1 DEF Protected
  <2> QED BY <2>1, <2>2 DEF e
<1>4. Protected(c) \subseteq Digest
  BY DEF Protected, Catalogs
<1> QED BY <1>1, <1>2, <1>3, <1>4

LEMMA ProtectedAfterAdding ==
  ASSUME NEW c \in Catalogs, NEW d \in Digest,
         NEW M \in {c.marked, c.marked \cup {d}}
  PROVE  /\ [c EXCEPT !.artifacts = @ \cup {d}, !.marked = M] \in Catalogs
         /\ Protected([c EXCEPT !.artifacts = @ \cup {d}, !.marked = M])
              \subseteq Protected(c) \cup {d}
<1> DEFINE added == [c EXCEPT !.artifacts = @ \cup {d}, !.marked = M]
<1>1. /\ added \in Catalogs /\ added.artifacts = c.artifacts \cup {d}
      /\ added.marked \subseteq c.marked \cup {d}
      /\ added.names = c.names /\ added.references = c.references
  BY DEF Catalogs
<1> HIDE DEF added
<1>2. Protected(added) \subseteq Protected(c) \cup {d}
  BY <1>1 DEF Protected
<1> QED BY <1>1, <1>2 DEF added

\* A catalog that an operation saves, with its artifacts in place.
LEMMA Saved ==
  ASSUME RegistryInv, NEW c \in Catalogs, Save(c),
         Protected(c) \subseteq c.artifacts, session.todo = {},
         \A d \in c.artifacts : objects[d] = "whole" \/ d \in lost,
         UNCHANGED <<objects, lost, deaths>>
  PROVE  RegistryInv'
<1>1. /\ disk' = c /\ session' \in [pc : {"open"}, catalog : {c}, digest : {session.digest},
                                     marked : {session.marked}, todo : {{}}]
      /\ session.digest \in Digest \cup {NoDigest} /\ session.marked \in BOOLEAN
  BY DEF Save, RegistryInv, RegistryTypeOK
<1>2. session'.pc = "open" /\ session'.catalog = c /\ session'.todo = {}
  BY <1>1
<1>3. RegistryTypeOK'
  <2>1. session' \in [pc : {"closed", "open", "publish", "collect", "remove"},
                      catalog : Catalogs, digest : Digest \cup {NoDigest},
                      marked : BOOLEAN, todo : SUBSET Digest]
    BY <1>1
  <2> QED BY <1>1, <2>1 DEF RegistryInv, RegistryTypeOK
<1>4. CatalogIsBacked'
  BY <1>1 DEF CatalogIsBacked
<1>5. NothingDangles'
  BY <1>1 DEF NothingDangles, Protected
<1>6. SessionAgrees'
  <2>1. c = [c EXCEPT !.artifacts = c.artifacts]
    BY DEF Catalogs
  <2> QED BY <1>1, <1>2, <2>1
          DEF SessionAgrees, SessionAt, Protected
<1> QED BY <1>3, <1>4, <1>5, <1>6 DEF RegistryInv

\* An open session has the saved catalog, and what that lists is there or lost.
LEMMA OpenSession ==
  ASSUME RegistryInv, SessionAt("open") \/ SessionAt("publish")
  PROVE  /\ session.catalog = disk /\ disk \in Catalogs /\ session.todo = {}
         /\ \A d \in disk.artifacts : objects[d] = "whole" \/ d \in lost
         /\ Protected(disk) \subseteq disk.artifacts
  BY DEF RegistryInv, RegistryTypeOK, SessionAgrees,
     CatalogIsBacked, Going, SessionAt, NothingDangles

LEMMA GiveNameHolds ==
  ASSUME RegistryInv, NEW n \in Name, NEW d \in Digest,
         GiveName(n, d)
  PROVE  RegistryInv'
<1> DEFINE c == [disk EXCEPT !.names[n] = d]
<1>1. /\ session.catalog = disk /\ disk \in Catalogs /\ session.todo = {}
      /\ \A e \in disk.artifacts : objects[e] = "whole" \/ e \in lost
      /\ Protected(disk) \subseteq disk.artifacts
      /\ d \in disk.artifacts
  BY OpenSession DEF GiveName, Known
<1>2. Save(c) /\ UNCHANGED <<objects, lost, deaths>>
  BY <1>1 DEF GiveName
<1>3. c \in Catalogs /\ Protected(c) \subseteq Protected(disk) \cup {d}
  BY <1>1, ProtectedAfter
<1>4. c.artifacts = disk.artifacts
  BY <1>1 DEF Catalogs
<1> HIDE DEF c
<1> QED BY <1>1, <1>2, <1>3, <1>4, Saved

LEMMA DropNameHolds ==
  ASSUME RegistryInv, NEW n \in Name, DropName(n)
  PROVE  RegistryInv'
<1> DEFINE c == [disk EXCEPT !.names[n] = NoDigest]
<1>1. /\ session.catalog = disk /\ disk \in Catalogs /\ session.todo = {}
      /\ \A e \in disk.artifacts : objects[e] = "whole" \/ e \in lost
      /\ Protected(disk) \subseteq disk.artifacts
  BY OpenSession DEF DropName
<1>2. Save(c) /\ UNCHANGED <<objects, lost, deaths>>
  BY <1>1 DEF DropName
<1>3. c \in Catalogs /\ Protected(c) \subseteq Protected(disk)
  BY <1>1, ProtectedAfter
<1>4. c.artifacts = disk.artifacts
  BY <1>1 DEF Catalogs
<1> HIDE DEF c
<1> QED BY <1>1, <1>2, <1>3, <1>4, Saved

LEMMA AddReferenceHolds ==
  ASSUME RegistryInv, NEW owner \in Digest, NEW d \in Digest,
         AddReference(owner, d)
  PROVE  RegistryInv'
<1> DEFINE c == [disk EXCEPT !.references = @ \cup {<<owner, d>>}]
<1>1. /\ session.catalog = disk /\ disk \in Catalogs /\ session.todo = {}
      /\ \A e \in disk.artifacts : objects[e] = "whole" \/ e \in lost
      /\ Protected(disk) \subseteq disk.artifacts
      /\ d \in disk.artifacts
  BY OpenSession DEF AddReference, Known
<1>2. Save(c) /\ UNCHANGED <<objects, lost, deaths>>
  BY <1>1 DEF AddReference
<1>3. c \in Catalogs /\ Protected(c) \subseteq Protected(disk) \cup {d}
  BY <1>1, ProtectedAfter
<1>4. c.artifacts = disk.artifacts
  BY <1>1 DEF Catalogs
<1> HIDE DEF c
<1> QED BY <1>1, <1>2, <1>3, <1>4, Saved

LEMMA CatalogueHolds ==
  ASSUME RegistryInv, Catalogue
  PROVE  RegistryInv'
<1> DEFINE d == session.digest
           M == IF session.marked THEN disk.marked \cup {d} ELSE disk.marked
           c == [disk EXCEPT !.artifacts = @ \cup {d}, !.marked = M]
<1>1. /\ session.catalog = disk /\ disk \in Catalogs /\ session.todo = {}
      /\ \A e \in disk.artifacts : objects[e] = "whole" \/ e \in lost
      /\ Protected(disk) \subseteq disk.artifacts
      /\ SessionAt("publish")
  BY OpenSession DEF Catalogue
<1>2. d \in Digest /\ objects[d] = "whole" /\ session.marked \in BOOLEAN
  BY <1>1 DEF RegistryInv, RegistryTypeOK, SessionAgrees
<1>3. CASE d \in disk.artifacts
  <2>1. Save(disk) /\ UNCHANGED <<objects, lost, deaths>>
    BY <1>1, <1>3 DEF Catalogue, Known, Save,
       RegistryInv, RegistryTypeOK
  <2> QED BY <1>1, <2>1, Saved
<1>4. CASE d \notin disk.artifacts
  <2>1. Save(c) /\ UNCHANGED <<objects, lost, deaths>>
    BY <1>1, <1>4 DEF Catalogue, Known
  <2>2. M \in {disk.marked, disk.marked \cup {d}}
    OBVIOUS
  <2>3. c.artifacts = disk.artifacts \cup {d}
    BY <1>1 DEF Catalogs
  <2> HIDE DEF M, d
  <2>4. /\ c \in Catalogs
        /\ Protected(c) \subseteq Protected(disk) \cup {d}
    BY <1>1, <1>2, <2>2, ProtectedAfterAdding
  <2> HIDE DEF c
  <2> QED BY <1>1, <1>2, <2>1, <2>3, <2>4, Saved
<1> QED BY <1>3, <1>4

LEMMA EndCollectHolds ==
  ASSUME RegistryInv, EndCollect
  PROVE  RegistryInv'
<1> DEFINE A == session.catalog.artifacts
           c == [disk EXCEPT !.artifacts = A]
<1>1. /\ SessionAt("collect") /\ session.todo = {} /\ Save(session.catalog)
      /\ UNCHANGED <<objects, lost, deaths>>
  BY DEF EndCollect
<1>2. /\ session.catalog = c /\ A \in SUBSET disk.artifacts /\ disk \in Catalogs
      /\ Protected(disk) \subseteq A
  BY <1>1 DEF RegistryInv, RegistryTypeOK, SessionAgrees, SessionAt
<1>3. \A d \in A : objects[d] = "whole" \/ d \in lost
  BY <1>1, <1>2 DEF RegistryInv, CatalogIsBacked, Going, SessionAt
<1>4. /\ c \in Catalogs /\ c.artifacts = A
      /\ Protected(c) \subseteq Protected(disk)
  <2> HIDE DEF A
  <2> QED BY <1>2, ProtectedAfter DEF Catalogs
<1> HIDE DEF c, A
<1> QED BY <1>1, <1>2, <1>3, <1>4, Saved

\* The steps that leave the saved catalog alone.
LEMMA OpenHolds ==
  ASSUME RegistryInv, Open
  PROVE  RegistryInv'
<1>1. /\ session = Closed /\ disk \in Catalogs
      /\ Protected(disk) \subseteq disk.artifacts
      /\ \A d \in disk.artifacts : objects[d] = "whole" \/ d \in lost
  BY DEF Open, RegistryInv, RegistryTypeOK, SessionAgrees,
     NothingDangles, CatalogIsBacked, Going, SessionAt
<1>2. /\ session' \in [pc : {"open"}, catalog : {disk}, digest : {NoDigest}, marked : {FALSE},
                       todo : {{}}]
      /\ UNCHANGED <<objects, disk, lost, deaths>>
  BY <1>1, NothingIsCatalogued DEF Open
<1>3. RegistryTypeOK'
  <2>1. session' \in [pc : {"closed", "open", "publish", "collect", "remove"},
                      catalog : Catalogs, digest : Digest \cup {NoDigest},
                      marked : BOOLEAN, todo : SUBSET Digest]
    BY <1>1, <1>2
  <2> QED BY <1>2, <2>1 DEF RegistryInv, RegistryTypeOK
<1>4. disk = [disk EXCEPT !.artifacts = disk.artifacts]
  BY <1>1 DEF Catalogs
<1>5. CatalogIsBacked' /\ NothingDangles' /\ SessionAgrees'
  BY <1>1, <1>2, <1>4 DEF CatalogIsBacked, NothingDangles,
     SessionAgrees, SessionAt, Protected
<1> QED BY <1>3, <1>5 DEF RegistryInv

LEMMA CloseHolds ==
  ASSUME RegistryInv, Close
  PROVE  RegistryInv'
<1>1. /\ \A d \in disk.artifacts : objects[d] = "whole" \/ d \in lost
      /\ Protected(disk) \subseteq disk.artifacts
  BY OpenSession DEF Close
<1>2. /\ session' = Closed /\ session'.pc = "closed" /\ session'.todo = {}
      /\ UNCHANGED <<objects, disk, lost, deaths>>
  BY NothingIsCatalogued DEF Close
<1>3. RegistryTypeOK'
  <2>1. session' \in [pc : {"closed", "open", "publish", "collect", "remove"},
                      catalog : Catalogs, digest : Digest \cup {NoDigest},
                      marked : BOOLEAN, todo : SUBSET Digest]
    BY <1>2, NothingIsCatalogued
  <2> QED BY <1>2, <2>1 DEF RegistryInv, RegistryTypeOK
<1>4. SessionAgrees'
  BY <1>2, NothingIsCatalogued DEF SessionAgrees, SessionAt, Closed,
     NoCatalog
<1>5. CatalogIsBacked' /\ NothingDangles'
  BY <1>1, <1>2 DEF CatalogIsBacked, NothingDangles, Protected
<1> QED BY <1>3, <1>4, <1>5 DEF RegistryInv

LEMMA DieHolds ==
  ASSUME RegistryInv, SessionDies
  PROVE  RegistryInv'
<1>1. /\ session' = Closed /\ session'.pc = "closed" /\ session'.todo = {}
      /\ UNCHANGED <<objects, disk>> /\ deaths' \in 0..MaxDeaths
      /\ lost' = lost \cup Going
  <2>1. deaths \in 0..MaxDeaths /\ session.pc \in {"open", "publish", "collect", "remove"}
    BY DEF SessionDies, RegistryInv, RegistryTypeOK, SessionAt
  <2>2. deaths' \in 0..MaxDeaths
    BY <2>1, RegistryAssumption DEF SessionDies
  <2>3. lost' = lost \cup Going
    BY <2>1 DEF SessionDies, Going, SessionAt, Known,
       RegistryInv, SessionAgrees
  <2> QED BY <2>2, <2>3, NothingIsCatalogued DEF SessionDies
<1>2. Going \subseteq Digest
  BY DEF Going, RegistryInv, RegistryTypeOK, Catalogs,
     SessionAgrees, SessionAt
<1>3. RegistryTypeOK'
  <2>1. session' \in [pc : {"closed", "open", "publish", "collect", "remove"},
                      catalog : Catalogs, digest : Digest \cup {NoDigest},
                      marked : BOOLEAN, todo : SUBSET Digest]
    BY <1>1, NothingIsCatalogued
  <2> QED BY <1>1, <1>2, <2>1 DEF RegistryInv, RegistryTypeOK
<1>4. SessionAgrees'
  BY <1>1, NothingIsCatalogued DEF SessionAgrees, SessionAt, Closed,
     NoCatalog
<1>5. CatalogIsBacked' /\ NothingDangles'
  BY <1>1 DEF CatalogIsBacked, NothingDangles, Protected,
     RegistryInv
<1> QED BY <1>3, <1>4, <1>5 DEF RegistryInv

LEMMA RegistryStays ==
  ASSUME RegistryInv, UNCHANGED registryVars
  PROVE  RegistryInv'
BY DEF RegistryInv, RegistryTypeOK, CatalogIsBacked, Going,
   NothingDangles, Protected, SessionAgrees, SessionAt,
   registryVars

LEMMA PutHolds ==
  ASSUME RegistryInv, NEW d \in Digest, NEW m \in BOOLEAN, Put(d, m)
  PROVE  RegistryInv'
<1>1. /\ session.catalog = disk /\ disk \in Catalogs /\ session.todo = {}
      /\ \A e \in disk.artifacts : objects[e] = "whole" \/ e \in lost
      /\ Protected(disk) \subseteq disk.artifacts
  BY OpenSession DEF Put
<1>2. CASE objects[d] = "torn"
  BY <1>2, RegistryStays DEF Put, registryVars
<1>3. CASE objects[d] # "torn"
  <2>1. /\ objects' = [objects EXCEPT ![d] = "whole"] /\ lost' = lost \ {d}
        /\ session' = [session EXCEPT !.pc = "publish", !.digest = d, !.marked = m]
        /\ UNCHANGED <<disk, deaths>>
    BY <1>3 DEF Put
  <2>2. objects' \in [Digest -> {"absent", "whole", "torn"}] /\ objects'[d] = "whole"
        /\ \A e \in Digest \ {d} : objects'[e] = objects[e]
    BY <2>1 DEF RegistryInv, RegistryTypeOK
  <2>3. session' \in [pc : {"publish"}, catalog : {disk}, digest : {d}, marked : {m},
                      todo : {{}}]
    BY <1>1, <2>1 DEF RegistryInv, RegistryTypeOK
  <2>4. RegistryTypeOK'
    <3>1. session' \in [pc : {"closed", "open", "publish", "collect", "remove"},
                        catalog : Catalogs, digest : Digest \cup {NoDigest},
                        marked : BOOLEAN, todo : SUBSET Digest]
      BY <1>1, <2>3
    <3> QED BY <2>1, <2>2, <3>1 DEF RegistryInv, RegistryTypeOK
  <2>5. CatalogIsBacked'
    <3>1. disk.artifacts \subseteq Digest
      BY <1>1 DEF Catalogs
    <3> QED BY <1>1, <2>1, <2>2, <3>1 DEF CatalogIsBacked
  <2>6. disk = [disk EXCEPT !.artifacts = disk.artifacts] /\ d # NoDigest
    BY <1>1, RegistryAssumption DEF Catalogs
  <2>7. NothingDangles' /\ SessionAgrees'
    BY <1>1, <2>1, <2>2, <2>3, <2>6 DEF NothingDangles, SessionAgrees,
       SessionAt, Protected
  <2> QED BY <2>4, <2>5, <2>7 DEF RegistryInv
<1> QED BY <1>2, <1>3

LEMMA CollectHolds ==
  ASSUME RegistryInv, Collect
  PROVE  RegistryInv'
<1> DEFINE T == disk.artifacts \ Protected(disk)
<1>1. /\ session.catalog = disk /\ disk \in Catalogs /\ session.todo = {}
      /\ \A e \in disk.artifacts : objects[e] = "whole" \/ e \in lost
      /\ Protected(disk) \subseteq disk.artifacts
      /\ session.digest \in Digest \cup {NoDigest} /\ session.marked \in BOOLEAN
  BY OpenSession DEF Collect, RegistryInv, RegistryTypeOK
<1>2. /\ session' = [session EXCEPT !.pc = "collect", !.todo = T]
      /\ UNCHANGED <<objects, disk, lost, deaths>>
  BY <1>1 DEF Collect
<1>3. T \in SUBSET Digest /\ disk = [disk EXCEPT !.artifacts = disk.artifacts]
  BY <1>1 DEF Catalogs
<1>4. session' \in [pc : {"collect"}, catalog : {disk}, digest : {session.digest},
                    marked : {session.marked}, todo : {T}]
  BY <1>1, <1>2 DEF RegistryInv, RegistryTypeOK
<1> HIDE DEF T
<1>5. RegistryTypeOK'
  <2>1. session' \in [pc : {"closed", "open", "publish", "collect", "remove"},
                      catalog : Catalogs, digest : Digest \cup {NoDigest},
                      marked : BOOLEAN, todo : SUBSET Digest]
    BY <1>1, <1>3, <1>4
  <2> QED BY <1>2, <2>1 DEF RegistryInv, RegistryTypeOK
<1>6. CatalogIsBacked' /\ NothingDangles'
  BY <1>1, <1>2 DEF CatalogIsBacked, NothingDangles, Protected
<1>7. SessionAgrees'
  <2>1. /\ session'.pc = "collect" /\ session'.catalog = disk' /\ session'.todo = T
        /\ disk' = disk
    BY <1>2, <1>4
  <2>2. Protected(disk)' = Protected(disk)
    BY <2>1 DEF Protected
  <2> QED BY <1>1, <1>3, <2>1, <2>2 DEF SessionAgrees, SessionAt, T
<1> QED BY <1>5, <1>6, <1>7 DEF RegistryInv

LEMMA CollectNextHolds ==
  ASSUME RegistryInv, NEW d \in Digest, CollectNext(d)
  PROVE  RegistryInv'
<1> DEFINE T == session.todo \ {d}
<1>1. /\ RegistryTypeOK /\ session.pc = "collect" /\ d \in session.todo
      /\ session.catalog = [disk EXCEPT !.artifacts = session.catalog.artifacts]
      /\ Protected(disk) \subseteq session.catalog.artifacts
      /\ session.catalog.artifacts \subseteq disk.artifacts
      /\ session.todo \subseteq disk.artifacts \ Protected(disk)
      /\ UNCHANGED <<disk, lost, deaths>>
  BY DEF CollectNext, RegistryInv, SessionAgrees, SessionAt
<1>2. Protected(disk)' = Protected(disk)
  BY <1>1 DEF Protected
<1>3. NothingDangles'
  BY <1>1, <1>2 DEF RegistryInv, NothingDangles
<1>4. /\ T \in SUBSET Digest /\ T \subseteq disk.artifacts \ Protected(disk)
      /\ d \in disk.artifacts \ Protected(disk)
      /\ session.catalog \in Catalogs /\ session.digest \in Digest \cup {NoDigest}
      /\ session.marked \in BOOLEAN
  BY <1>1 DEF RegistryTypeOK
<1>5. \A e \in disk.artifacts :
        objects[e] = "whole" \/ e \in lost \/ e \in disk.artifacts \ session.catalog.artifacts
  BY <1>1 DEF RegistryInv, CatalogIsBacked, Going, SessionAt
<1>6. CASE objects[d] = "whole"
  <2>1. /\ objects' = [objects EXCEPT ![d] = "torn"]
        /\ session' = [session EXCEPT !.pc = "remove", !.digest = d, !.todo = T]
    BY <1>6 DEF CollectNext
  <2>2. /\ objects' \in [Digest -> {"absent", "whole", "torn"}]
        /\ \A e \in Digest \ {d} : objects'[e] = objects[e]
    BY <1>1, <2>1 DEF RegistryTypeOK
  <2>3. session' \in [pc : {"remove"}, catalog : {session.catalog}, digest : {d},
                      marked : {session.marked}, todo : {T}]
    BY <1>1, <2>1 DEF RegistryTypeOK
  <2> HIDE DEF T
  <2>4. RegistryTypeOK'
    <3>1. session' \in [pc : {"closed", "open", "publish", "collect", "remove"},
                        catalog : Catalogs, digest : Digest \cup {NoDigest},
                        marked : BOOLEAN, todo : SUBSET Digest]
      BY <1>4, <2>3
    <3> QED BY <1>1, <2>2, <3>1 DEF RegistryTypeOK
  <2>5. CatalogIsBacked'
    <3>1. disk.artifacts \subseteq Digest
      BY <1>1 DEF RegistryTypeOK, Catalogs
    <3> QED BY <1>1, <1>5, <2>2, <2>3, <3>1
            DEF CatalogIsBacked, Going, SessionAt
  <2>6. SessionAgrees'
    BY <1>1, <1>2, <1>4, <2>3 DEF SessionAgrees, SessionAt
  <2> QED BY <1>3, <2>4, <2>5, <2>6 DEF RegistryInv
<1>7. CASE objects[d] # "whole"
  <2>1. objects' = objects /\ session' = [session EXCEPT !.todo = T]
    BY <1>7 DEF CollectNext
  <2>2. session' \in [pc : {"collect"}, catalog : {session.catalog},
                      digest : {session.digest}, marked : {session.marked}, todo : {T}]
    BY <1>1, <2>1 DEF RegistryTypeOK
  <2> HIDE DEF T
  <2>3. RegistryTypeOK'
    <3>1. session' \in [pc : {"closed", "open", "publish", "collect", "remove"},
                        catalog : Catalogs, digest : Digest \cup {NoDigest},
                        marked : BOOLEAN, todo : SUBSET Digest]
      BY <1>4, <2>2
    <3> QED BY <1>1, <2>1, <3>1 DEF RegistryTypeOK
  <2>4. CatalogIsBacked'
    BY <1>1, <1>5, <2>1, <2>2 DEF CatalogIsBacked, Going, SessionAt
  <2>5. SessionAgrees'
    BY <1>1, <1>2, <1>4, <2>2 DEF SessionAgrees, SessionAt
  <2> QED BY <1>3, <2>3, <2>4, <2>5 DEF RegistryInv
<1> QED BY <1>6, <1>7

LEMMA RemoveDirectoryHolds ==
  ASSUME RegistryInv, RemoveDirectory
  PROVE  RegistryInv'
<1> DEFINE d == session.digest
           A == session.catalog.artifacts \ {d}
           c == [disk EXCEPT !.artifacts = A]
<1>1. /\ RegistryTypeOK /\ session.pc = "remove"
      /\ session.catalog = [disk EXCEPT !.artifacts = session.catalog.artifacts]
      /\ Protected(disk) \subseteq session.catalog.artifacts
      /\ session.catalog.artifacts \subseteq disk.artifacts
      /\ session.todo \subseteq disk.artifacts \ Protected(disk)
      /\ d \in disk.artifacts \ Protected(disk)
      /\ UNCHANGED <<disk, lost, deaths>>
  BY DEF RemoveDirectory, RegistryInv, SessionAgrees, SessionAt
<1>2. Protected(disk)' = Protected(disk)
  BY <1>1 DEF Protected
<1>3. NothingDangles'
  BY <1>1, <1>2 DEF RegistryInv, NothingDangles
<1>4. /\ disk \in Catalogs /\ d \in Digest /\ A \in SUBSET disk.artifacts
      /\ session.marked \in BOOLEAN /\ session.todo \in SUBSET Digest
  BY <1>1 DEF RegistryTypeOK, Catalogs
<1>5. c \in Catalogs /\ c.artifacts = A
  BY <1>4 DEF Catalogs
<1>6. \A e \in disk.artifacts :
        objects[e] = "whole" \/ e \in lost \/ e \in disk.artifacts \ A
  BY <1>1 DEF RegistryInv, CatalogIsBacked, Going, SessionAt
<1>7. /\ objects' = [objects EXCEPT ![d] = "absent"]
      /\ session' = [session EXCEPT !.pc = "collect", !.catalog.artifacts = A]
  BY DEF RemoveDirectory
<1>8. /\ objects' \in [Digest -> {"absent", "whole", "torn"}]
      /\ \A e \in Digest \ {d} : objects'[e] = objects[e]
  BY <1>1, <1>4, <1>7 DEF RegistryTypeOK
<1>9. session' \in [pc : {"collect"}, catalog : {c}, digest : {d},
                    marked : {session.marked}, todo : {session.todo}]
  <2>1. [session.catalog EXCEPT !.artifacts = A] = c
    BY <1>1, <1>4 DEF Catalogs
  <2> HIDE DEF c, A
  <2> QED BY <1>1, <1>7, <2>1 DEF RegistryTypeOK
<1> HIDE DEF c, d
<1>10. RegistryTypeOK'
  <2>1. session' \in [pc : {"closed", "open", "publish", "collect", "remove"},
                      catalog : Catalogs, digest : Digest \cup {NoDigest},
                      marked : BOOLEAN, todo : SUBSET Digest]
    BY <1>4, <1>5, <1>9
  <2> QED BY <1>1, <1>8, <2>1 DEF RegistryTypeOK
<1>11. CatalogIsBacked'
  <2>1. disk.artifacts \subseteq Digest /\ d \notin A
    BY <1>4 DEF Catalogs
  <2> QED BY <1>1, <1>5, <1>6, <1>8, <1>9, <2>1
          DEF CatalogIsBacked, Going, SessionAt
<1>12. SessionAgrees'
  BY <1>1, <1>2, <1>4, <1>5, <1>9 DEF SessionAgrees, SessionAt, c
<1> QED BY <1>3, <1>10, <1>11, <1>12 DEF RegistryInv

LEMMA RegistryStepHolds ==
  ASSUME RegistryInv, [RegistryNext]_registryVars
  PROVE  RegistryInv'
<1>1. Alias \subseteq Name /\ LeaseId \subseteq Name
  BY DEF Name
<1>2. CASE \E d \in Digest :
             \/ \E marked \in BOOLEAN : Put(d, marked)
             \/ \E a \in Alias : SetAlias(a, d)
             \/ \E l \in LeaseId : Lease(l, d)
             \/ \E owner \in Digest : AddReference(owner, d)
             \/ CollectNext(d)
  BY <1>1, <1>2, PutHolds, GiveNameHolds, AddReferenceHolds, CollectNextHolds
     DEF SetAlias, Lease
<1>3. CASE \/ \E a \in Alias : RemoveAlias(a)
           \/ \E l \in LeaseId : ReleaseLease(l)
  BY <1>1, <1>3, DropNameHolds DEF RemoveAlias, ReleaseLease
<1>4. CASE UNCHANGED registryVars
  BY <1>4, RegistryStays
<1> QED BY <1>2, <1>3, <1>4, OpenHolds, CloseHolds, CatalogueHolds, CollectHolds,
           RemoveDirectoryHolds, EndCollectHolds, DieHolds DEF RegistryNext

\* In every reachable state of LocalArtifactRegistry, for any digests, names and deaths
\* of the process: what the saved catalog lists can be read, but for what a collection
\* is taking apart or took apart when it died; and no alias, lease or reference of it is
\* left without its artifact.
THEOREM CatalogBacked ==
  RegistrySpec => []RegistryInv
<1>1. RegistryInit => RegistryInv
  BY RegistryInitHolds
<1>2. RegistryInv /\ [RegistryNext]_registryVars => RegistryInv'
  BY RegistryStepHolds
<1> QED BY <1>1, <1>2, PTL DEF RegistrySpec

LEMMA ProtectedStays ==
  ASSUME RegistryInv, [RegistryNext]_registryVars,
         NEW d \in Digest, objects[d] = "whole", objects'[d] # "whole"
  PROVE  d \notin Protected(disk)
<1>1. \/ \E e \in Digest, m \in BOOLEAN : Put(e, m)
      \/ \E e \in Digest : CollectNext(e)
      \/ RemoveDirectory
  BY DEF RegistryNext, registryVars, Open, Close, Catalogue,
     SetAlias, Lease, GiveName, RemoveAlias,
     ReleaseLease, DropName, AddReference, Collect,
     EndCollect, SessionDies
<1>2. objects \in [Digest -> {"absent", "whole", "torn"}]
  BY DEF RegistryInv, RegistryTypeOK
<1>3. ASSUME NEW e \in Digest, NEW m \in BOOLEAN, Put(e, m) PROVE FALSE
  BY <1>2, <1>3 DEF Put
<1>4. ASSUME NEW e \in Digest, CollectNext(e)
      PROVE  d \notin Protected(disk)
  <2>1. e = d /\ e \in session.todo
    BY <1>2, <1>4 DEF CollectNext
  <2> QED BY <2>1 DEF RegistryInv, SessionAgrees
<1>5. ASSUME RemoveDirectory PROVE d \notin Protected(disk)
  <2>1. session.digest = d /\ SessionAt("remove")
    BY <1>2, <1>5 DEF RemoveDirectory
  <2> QED BY <2>1 DEF RegistryInv, SessionAgrees
<1> QED BY <1>1, <1>3, <1>4, <1>5

\* No step of a session, and no death in the middle of one, takes the object of an
\* artifact that the saved catalog protects.
THEOREM ProtectedObjectsStay ==
  RegistrySpec => NothingProtectedIsRemoved
<1>1. RegistryInv /\ [RegistryNext]_registryVars
        => [\A d \in Digest : objects[d] = "whole" /\ objects'[d] # "whole"
                                => d \notin Protected(disk)]_registryVars
  BY ProtectedStays
<1> QED BY <1>1, CatalogBacked, PTL DEF RegistrySpec, NothingProtectedIsRemoved
==================================================================================

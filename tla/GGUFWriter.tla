-------------------------------- MODULE GGUFWriter --------------------------------
(***************************************************************************)
(* write_gguf_resumably and discard_resumable_gguf of                      *)
(* adapters/gguf/resume.py, and write_gguf_transactionally of              *)
(* adapters/gguf/writer.py, on one destination.                            *)
(*                                                                         *)
(* A resumable write fills a staging file tensor by tensor, and after each *)
(* tensor that is synchronized replaces a manifest with what is committed. *)
(* It may fail or die between any two of these steps; a later call goes on *)
(* behind the committed tensors, and the whole file is published by a hard *)
(* link.  The transactional writer fills a private file and publishes it   *)
(* at the same path.                                                       *)
(*                                                                         *)
(* Abstracted: the bytes of a tensor to the surgery plan they were made    *)
(* for, so a file is the sequence of the plans of its whole tensors and a  *)
(* flag for bytes behind them; a digest to what it digests; the header,    *)
(* which depends on the identity alone.  The identity a manifest records   *)
(* is that of the input file and of the output layout.                     *)
(*                                                                         *)
(* One resumable writer at a time, as the guide has it, and directory      *)
(* operations that survive a power loss in their order, are assumed.       *)
(***************************************************************************)
EXTENDS Naturals, Sequences

CONSTANTS Plan,        \* surgery plans an export is run for
          Identity,    \* [Plan -> identity of their input and output layout]
          Tensors,     \* tensors of the output
          Damaged,     \* the content of a tensor that was damaged on disk
          None,
          MaxFaults    \* bound: failures, deaths, damages and discards

Id == {Identity[p] : p \in Plan}

ASSUME WriterAssumption ==
  /\ Tensors \in Nat \ {0} /\ MaxFaults \in Nat
  /\ Damaged \notin Plan /\ None \notin Plan /\ None \notin Id

VARIABLES
  staging,    \* the staging file: its whole tensors, how many are synchronized, ...
  manifest,   \* the manifest: identity and committed tensors
  temporary,  \* is there a temporary manifest?
  output,     \* the destination: << >> while it is absent
  writer,     \* the resumable call: where it stands, its plan, the manifest it holds
  direct,     \* the plan of a transactional call that is about to publish
  faults

vars == <<staging, manifest, temporary, output, writer, direct, faults>>

NoFile == [exists |-> FALSE, tensors |-> << >>, synced |-> 0, tail |-> FALSE]
Empty == [NoFile EXCEPT !.exists = TRUE]
NoManifest == [id |-> None, committed |-> << >>]
Idle == [pc |-> "idle", plan |-> None, committed |-> << >>]

Init ==
  /\ staging = NoFile /\ manifest = NoManifest /\ temporary = FALSE
  /\ output = << >> /\ writer = Idle /\ direct = None /\ faults = 0

\* The staging file and the manifest exist only together, or the call is refused.
Torn == staging.exists # (manifest # NoManifest)

At(pc) == writer.pc = pc
Goto(pc) == writer' = [writer EXCEPT !.pc = pc]
-----------------------------------------------------------------------------
(* write_gguf_resumably *)

\* The destination must be absent.  A temporary manifest is removed; then a new
\* staging file is created, or the one that is there will be resumed.
Begin(p) ==
  /\ At("idle") /\ output = << >>
  /\ temporary' = FALSE
  /\ UNCHANGED <<manifest, output, direct, faults>>
  /\ \/ Torn /\ UNCHANGED <<staging, writer>>
     \/ /\ ~Torn /\ staging.exists
        /\ writer' = [pc |-> "resume", plan |-> p, committed |-> << >>]
        /\ UNCHANGED staging
     \/ /\ ~Torn /\ ~staging.exists
        /\ staging' = Empty
        /\ writer' = [pc |-> "header", plan |-> p, committed |-> << >>]

\* A manifest is written beside the old one and synchronized ...
SyncHeader ==
  /\ At("header") /\ Goto("commit") /\ temporary' = TRUE
  /\ UNCHANGED <<staging, manifest, output, direct, faults>>

\* ... and replaces it.
CommitManifest ==
  /\ At("commit")
  /\ manifest' = [id |-> Identity[writer.plan], committed |-> writer.committed]
  /\ temporary' = FALSE /\ Goto("tensors")
  /\ UNCHANGED <<staging, output, direct, faults>>

\* Mistake: the sizes are checked, and not what the tensors hold.
Intact_SizeOnly == Len(staging.tensors) >= Len(manifest.committed)

\* The staging file holds what the manifest says is committed.
Intact ==
  /\ Len(staging.tensors) >= Len(manifest.committed)
  /\ SubSeq(staging.tensors, 1, Len(manifest.committed)) = manifest.committed

\* Mistake: a resumed call starts with an empty file.
Resume_FromStart ==
  /\ At("resume")
  /\ IF manifest.id = Identity[writer.plan] /\ Intact
     THEN staging' = Empty /\ writer' = [writer EXCEPT !.pc = "tensors"]
     ELSE writer' = Idle /\ UNCHANGED staging
  /\ UNCHANGED <<manifest, temporary, output, direct, faults>>

\* Mistake: what is behind the committed tensors is not cut off.
Resume_KeepsTail ==
  /\ At("resume")
  /\ IF manifest.id = Identity[writer.plan] /\ Intact
     THEN writer' = [writer EXCEPT !.pc = "tensors", !.committed = manifest.committed]
     ELSE writer' = Idle
  /\ UNCHANGED <<staging, manifest, temporary, output, direct, faults>>

\* Bytes behind the committed tensors are cut off.
Resume ==
  /\ At("resume")
  /\ IF manifest.id = Identity[writer.plan] /\ Intact
     THEN /\ LET n == Len(manifest.committed)
             IN staging' = [Empty EXCEPT !.tensors = SubSeq(staging.tensors, 1, n), !.synced = n]
          /\ writer' = [writer EXCEPT !.pc = "tensors", !.committed = manifest.committed]
     ELSE writer' = Idle /\ UNCHANGED staging
  /\ UNCHANGED <<manifest, temporary, output, direct, faults>>

\* The chunks of the next tensor are appended ...
WriteTensor ==
  /\ At("tensors") /\ Len(writer.committed) < Tensors
  /\ staging' = [staging EXCEPT !.tail = TRUE]
  /\ Goto("chunks")
  /\ UNCHANGED <<manifest, temporary, output, direct, faults>>

LastChunk ==
  /\ At("chunks")
  /\ staging' = [staging EXCEPT !.tensors = Append(@, writer.plan), !.tail = FALSE]
  /\ Goto("sync")
  /\ UNCHANGED <<manifest, temporary, output, direct, faults>>

\* Mistake: the manifest is written before the tensor is synchronized.
SyncTensor_NotYet ==
  /\ At("sync")
  /\ writer' = [writer EXCEPT !.pc = "commit", !.committed = Append(@, writer.plan)]
  /\ temporary' = TRUE
  /\ UNCHANGED <<staging, manifest, output, direct, faults>>

\* ... and synchronized before the manifest that tells of them is written.
SyncTensor ==
  /\ At("sync")
  /\ staging' = [staging EXCEPT !.synced = Len(staging.tensors)]
  /\ writer' = [writer EXCEPT !.pc = "commit", !.committed = Append(@, writer.plan)]
  /\ temporary' = TRUE
  /\ UNCHANGED <<manifest, output, direct, faults>>

\* The last checks look at sizes and at the structure, not at what the tensors hold.
Link ==
  /\ At("tensors") /\ Len(writer.committed) = Tensors
  /\ IF /\ Len(staging.tensors) = Tensors /\ ~staging.tail
        /\ output = << >>
     THEN output' = staging.tensors /\ Goto("unlink")
     ELSE writer' = Idle /\ UNCHANGED output
  /\ UNCHANGED <<staging, manifest, temporary, direct, faults>>

UnlinkStaging ==
  /\ At("unlink") /\ staging' = NoFile /\ Goto("unlink_manifest")
  /\ UNCHANGED <<manifest, temporary, output, direct, faults>>

UnlinkManifest ==
  /\ At("unlink_manifest") /\ manifest' = NoManifest /\ writer' = Idle
  /\ UNCHANGED <<staging, temporary, output, direct, faults>>

\* The source of a tensor, the checkpoint hook or the disk monitor raises, and
\* the call ends with its files in place.
Raise ==
  /\ writer.pc \in {"tensors", "chunks"} /\ faults < MaxFaults
  /\ writer' = Idle /\ faults' = faults + 1
  /\ UNCHANGED <<staging, manifest, temporary, output, direct>>
-----------------------------------------------------------------------------
(* discard_resumable_gguf unlinks the three files one after the other. *)

Discard ==
  /\ At("idle") /\ faults < MaxFaults
  /\ staging.exists \/ manifest # NoManifest \/ temporary
  /\ staging' = NoFile /\ Goto("discard_manifest") /\ faults' = faults + 1
  /\ UNCHANGED <<manifest, temporary, output, direct>>

DiscardManifest ==
  /\ At("discard_manifest") /\ manifest' = NoManifest /\ Goto("discard_temporary")
  /\ UNCHANGED <<staging, temporary, output, direct, faults>>

DiscardTemporary ==
  /\ At("discard_temporary") /\ temporary' = FALSE /\ Goto("idle")
  /\ UNCHANGED <<staging, manifest, output, direct, faults>>
-----------------------------------------------------------------------------
(* write_gguf_transactionally: the private file is whole when it is linked,  *)
(* and is removed whether or not the destination was free.                   *)

BeginDirect(p) ==
  /\ direct = None /\ output = << >> /\ direct' = p
  /\ UNCHANGED <<staging, manifest, temporary, output, writer, faults>>

LinkDirect ==
  /\ direct # None /\ direct' = None
  /\ output' = IF output = << >> THEN [i \in 1..Tensors |-> direct] ELSE output
  /\ UNCHANGED <<staging, manifest, temporary, writer, faults>>
-----------------------------------------------------------------------------
(* The environment *)

\* What a death or a power loss may leave of a file: nothing that was
\* synchronized is lost, and of the rest any part.
Survivor(f, n, tail) ==
  IF f.exists THEN [f EXCEPT !.tensors = SubSeq(@, 1, n), !.tail = tail] ELSE f

Die ==
  /\ faults < MaxFaults /\ faults' = faults + 1
  /\ \E n \in staging.synced..Len(staging.tensors), tail \in BOOLEAN :
       staging' = Survivor(staging, n, tail)
  /\ writer' = Idle /\ direct' = None
  /\ UNCHANGED <<manifest, temporary, output>>

\* The staging file is changed while no call is at work on it.
Damage ==
  /\ At("idle") /\ faults < MaxFaults /\ faults' = faults + 1
  /\ \E i \in 1..Len(staging.tensors) :
       \/ staging' = [staging EXCEPT !.tensors = [@ EXCEPT ![i] = Damaged]]
       \/ /\ i = Len(staging.tensors)
          /\ staging' = [staging EXCEPT !.tensors = SubSeq(@, 1, i - 1),
                                        !.synced = IF @ = i THEN i - 1 ELSE @, !.tail = TRUE]
  /\ UNCHANGED <<manifest, temporary, output, writer, direct>>
-----------------------------------------------------------------------------
Work ==
  \/ SyncHeader \/ CommitManifest \/ Resume \/ WriteTensor \/ LastChunk \/ SyncTensor
  \/ Link \/ UnlinkStaging \/ UnlinkManifest
  \/ DiscardManifest \/ DiscardTemporary

Next ==
  \/ \E p \in Plan : Begin(p) \/ BeginDirect(p)
  \/ Work \/ LinkDirect
  \/ Raise \/ Discard \/ Die \/ Damage

Spec == Init /\ [][Next]_vars

\* A call that runs goes on, and an interrupted export is run again, as the
\* guide says; faults and discards come to an end (MaxFaults).
FairSpec == Spec /\ WF_vars(Work) /\ \A p \in Plan : SF_vars(Begin(p))
-----------------------------------------------------------------------------
(***************************************************************************)
(* The inductive invariant                                                 *)
(***************************************************************************)

Pc == {"idle", "header", "commit", "resume", "tensors", "chunks", "sync", "unlink",
       "unlink_manifest", "discard_manifest", "discard_temporary"}

\* Files whose tensors all belong to one export, as far as the code can tell.
Whole == {s \in [1..Tensors -> Plan] : \A i, j \in 1..Tensors : Identity[s[i]] = Identity[s[j]]}

Files == [exists : BOOLEAN, tensors : Seq(Plan \cup {Damaged}), synced : Nat, tail : BOOLEAN]
Manifests == [id : Id \cup {None}, committed : Seq(Plan)]
Calls == [pc : Pc, plan : Plan \cup {None}, committed : Seq(Plan)]

TypeOK ==
  /\ staging \in Files
  /\ manifest \in Manifests
  /\ temporary \in BOOLEAN
  /\ output \in Whole \cup {<< >>}
  /\ writer \in Calls
  /\ direct \in Plan \cup {None}
  /\ faults \in 0..MaxFaults

\* Tensors of one identity, and not more than there are.
OfOne(id, s) == Len(s) <= Tensors /\ \A i \in 1..Len(s) : Identity[s[i]] = id

FilesInv ==
  /\ staging.synced <= Len(staging.tensors)
  /\ ~staging.exists => staging = NoFile
  /\ manifest.id = None => manifest.committed = << >>
  /\ manifest.id # None => OfOne(manifest.id, manifest.committed)

\* While a call is at work, what its manifest commits is in the staging file and
\* synchronized: a power loss at any moment costs one tensor at most.
CommittedIsSynced ==
  /\ writer.pc \in {"tensors", "chunks", "sync", "commit", "unlink"} =>
       /\ staging.exists /\ writer.plan \in Plan
       /\ OfOne(Identity[writer.plan], writer.committed)
       /\ staging.synced = Len(writer.committed)
       /\ staging.tensors = IF At("sync") THEN Append(writer.committed, writer.plan)
                                         ELSE writer.committed
       /\ staging.tail = At("chunks")
  /\ writer.pc \in {"tensors", "chunks", "sync", "unlink"} =>
       manifest = [id |-> Identity[writer.plan], committed |-> writer.committed]
  /\ writer.pc \in {"chunks", "sync"} => Len(writer.committed) < Tensors
  /\ At("commit") =>
       \/ manifest = NoManifest /\ writer.committed = << >>
       \/ /\ manifest.id = Identity[writer.plan]
          /\ writer.committed = Append(manifest.committed, writer.plan)

PhaseInv ==
  /\ At("header") => /\ staging = Empty /\ manifest = NoManifest /\ writer.plan \in Plan
                     /\ writer.committed = << >>
  /\ At("resume") => staging.exists /\ manifest # NoManifest /\ writer.plan \in Plan
  /\ writer.pc \in {"unlink", "unlink_manifest"} => output # << >>
  /\ writer.pc \in {"unlink_manifest", "discard_manifest"} => staging = NoFile

\* The state of an export at every step of its writer: what the files hold and
\* how they agree with each other.
WriterInv == TypeOK /\ FilesInv /\ CommittedIsSynced /\ PhaseInv
-----------------------------------------------------------------------------
(***************************************************************************)
(* Properties                                                              *)
(***************************************************************************)
Promise == INSTANCE OutputPromise WITH Absent <- << >>

\* However the writers fail, die, race and are resumed, and whatever damage the
\* staging file took between two calls, the destination is absent until a whole
\* model of one identity appears, and then it never changes.
PublishesWhole == Promise!Spec

\* A tensor that was committed is not written again: until it is discarded, an
\* export only gains tensors, and it stays the export of one identity.
CommittedStays ==
  [][manifest # NoManifest /\ manifest' # NoManifest =>
       /\ manifest'.id = manifest.id
       /\ Len(manifest.committed) <= Len(manifest'.committed)
       /\ SubSeq(manifest'.committed, 1, Len(manifest.committed)) = manifest.committed]_vars

\* An export that is run again after each fault ends with a published model,
\* unless a death tore its two files apart or its committed bytes were damaged.
ExportEnds == <>[](output # << >> \/ Torn \/ ~Intact)

\* What docs/user-guides/native-gguf.md says of a resumed write: the plan is
\* verified, so that what is published was made for one plan.
PublishedIsOfOnePlan ==
  output # << >> => \E p \in Plan : output = [i \in 1..Tensors |-> p]
===================================================================================

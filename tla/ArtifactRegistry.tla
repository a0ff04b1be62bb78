----------------------------- MODULE ArtifactRegistry -----------------------------
(***************************************************************************)
(* LocalArtifactRegistry of registry.py over the content-addressed objects *)
(* of experiments/artifacts.py.                                            *)
(*                                                                         *)
(* A session loads the catalog, changes it in memory and saves it whole    *)
(* after each operation.  Objects come and go beside the catalog: they are *)
(* renamed into place before the catalog lists them, and a collection      *)
(* deletes them file by file before the catalog forgets them.  A process   *)
(* may die anywhere between.                                               *)
(*                                                                         *)
(* Abstracted: an artifact to its digest and to whether one of the flags   *)
(* source, accepted and externally_unresolved is set; tags, kinds, bundles *)
(* and signatures.  import_bundle publishes what it has verified.          *)
(*                                                                         *)
(* One session at a time is assumed: the code has no lock, and of two that *)
(* overlap the one that saves last undoes what the other saved.  An error  *)
(* of the file system while a catalog is saved ends the session like a     *)
(* death, as it ends a command.                                            *)
(***************************************************************************)
EXTENDS Naturals

CONSTANTS Digest, Alias, LeaseId, NoDigest,
          MaxDeaths   \* bound: deaths of the process

Name == Alias \cup LeaseId

ASSUME RegistryAssumption ==
  Alias \cap LeaseId = {} /\ NoDigest \notin Digest /\ MaxDeaths \in Nat

VARIABLES
  objects,   \* [Digest -> the state of its directory]
  disk,      \* the saved catalog
  session,   \* where the session stands, and its catalog in memory
  lost,      \* catalogued digests whose objects a dead collection took apart
  deaths

registryVars == <<objects, disk, session, lost, deaths>>

NoCatalog == [artifacts |-> {}, marked |-> {}, names |-> [n \in Name |-> NoDigest],
              references |-> {}]
Closed == [pc |-> "closed", catalog |-> NoCatalog, digest |-> NoDigest, marked |-> FALSE,
           todo |-> {}]

RegistryInit ==
  /\ objects = [d \in Digest |-> "absent"]
  /\ disk = NoCatalog /\ session = Closed /\ lost = {} /\ deaths = 0

SessionAt(pc) == session.pc = pc
Known(d) == d \in session.catalog.artifacts

\* A changed catalog replaces the old one in memory and on disk.
Save(catalog) ==
  /\ disk' = catalog
  /\ session' = [session EXCEPT !.pc = "open", !.catalog = catalog]

\* What a collection leaves alone.
Protected(catalog) ==
  {d \in catalog.artifacts : d \in catalog.marked}
    \cup {catalog.names[n] : n \in {m \in Name : catalog.names[m] # NoDigest}}
    \cup {r[2] : r \in catalog.references}
-----------------------------------------------------------------------------
(* Sessions *)

Open ==
  /\ SessionAt("closed") /\ session' = [session EXCEPT !.pc = "open", !.catalog = disk]
  /\ UNCHANGED <<objects, disk, lost, deaths>>

Close ==
  /\ SessionAt("open") /\ session' = Closed
  /\ UNCHANGED <<objects, disk, lost, deaths>>
-----------------------------------------------------------------------------
(* Publication *)

\* The object is staged and renamed into place, or the one that is there is
\* verified; one that is not whole is refused.
Put(d, marked) ==
  /\ SessionAt("open")
  /\ IF objects[d] = "torn"
     THEN UNCHANGED <<objects, session, lost>>
     ELSE /\ objects' = [objects EXCEPT ![d] = "whole"]
          /\ session' = [session EXCEPT !.pc = "publish", !.digest = d, !.marked = marked]
          /\ lost' = lost \ {d}
  /\ UNCHANGED <<disk, deaths>>

\* An artifact that the catalog has keeps the record it has there.
Catalogue ==
  /\ SessionAt("publish")
  /\ LET d == session.digest
         added == [session.catalog EXCEPT !.artifacts = @ \cup {d},
                                          !.marked = IF session.marked THEN @ \cup {d} ELSE @]
     IN  IF Known(d) THEN session' = [session EXCEPT !.pc = "open"] /\ UNCHANGED disk
                     ELSE Save(added)
  /\ UNCHANGED <<objects, lost, deaths>>
-----------------------------------------------------------------------------
(* Names and references *)

\* A name that is taken cannot be given to another artifact.
GiveName(n, d) ==
  /\ SessionAt("open") /\ Known(d) /\ session.catalog.names[n] \in {NoDigest, d}
  /\ Save([session.catalog EXCEPT !.names[n] = d])
  /\ UNCHANGED <<objects, lost, deaths>>

DropName(n) ==
  /\ SessionAt("open") /\ session.catalog.names[n] # NoDigest
  /\ Save([session.catalog EXCEPT !.names[n] = NoDigest])
  /\ UNCHANGED <<objects, lost, deaths>>

SetAlias(a, d)   == GiveName(a, d)
RemoveAlias(a)   == DropName(a)
Lease(l, d)      == GiveName(l, d)
ReleaseLease(l)  == DropName(l)

\* References are never taken back, not even when their owner is collected.
AddReference(owner, child) ==
  /\ SessionAt("open") /\ Known(owner) /\ Known(child)
  /\ Save([session.catalog EXCEPT !.references = @ \cup {<<owner, child>>}])
  /\ UNCHANGED <<objects, lost, deaths>>
-----------------------------------------------------------------------------
(* collect_garbage *)

\* Mistake: a collection does not look at the references between artifacts.
Collect_NoReferences ==
  /\ SessionAt("open")
  /\ session' = [session EXCEPT !.pc = "collect",
                   !.todo = session.catalog.artifacts \
                             Protected([session.catalog EXCEPT !.references = {}])]
  /\ UNCHANGED <<objects, disk, lost, deaths>>

Collect ==
  /\ SessionAt("open")
  /\ session' = [session EXCEPT !.pc = "collect",
                   !.todo = session.catalog.artifacts \ Protected(session.catalog)]
  /\ UNCHANGED <<objects, disk, lost, deaths>>

\* An object that is whole is deleted, file by file; any other is passed over.
CollectNext(d) ==
  /\ SessionAt("collect") /\ d \in session.todo
  /\ IF objects[d] = "whole"
     THEN /\ objects' = [objects EXCEPT ![d] = "torn"]
          /\ session' = [session EXCEPT !.pc = "remove", !.digest = d, !.todo = @ \ {d}]
     ELSE session' = [session EXCEPT !.todo = @ \ {d}] /\ UNCHANGED objects
  /\ UNCHANGED <<disk, lost, deaths>>

RemoveDirectory ==
  /\ SessionAt("remove")
  /\ objects' = [objects EXCEPT ![session.digest] = "absent"]
  /\ session' = [session EXCEPT !.pc = "collect", !.catalog.artifacts = @ \ {session.digest}]
  /\ UNCHANGED <<disk, lost, deaths>>

\* Mistake: the catalog is not saved after a collection.
EndCollect_NoSave ==
  /\ SessionAt("collect") /\ session.todo = {} /\ session' = [session EXCEPT !.pc = "open"]
  /\ UNCHANGED <<objects, disk, lost, deaths>>

EndCollect ==
  /\ SessionAt("collect") /\ session.todo = {} /\ Save(session.catalog)
  /\ UNCHANGED <<objects, lost, deaths>>

\* The process dies; what its collection took apart stays in the catalog.
SessionDies ==
  /\ ~SessionAt("closed") /\ deaths < MaxDeaths /\ deaths' = deaths + 1
  /\ session' = Closed
  /\ lost' = lost \cup (IF session.pc \in {"collect", "remove"}
                        THEN {d \in disk.artifacts : ~Known(d) \/ (SessionAt("remove") /\ d = session.digest)}
                        ELSE {})
  /\ UNCHANGED <<objects, disk>>
-----------------------------------------------------------------------------
RegistryNext ==
  \/ Open \/ Close \/ Catalogue
  \/ \E d \in Digest :
       \/ \E marked \in BOOLEAN : Put(d, marked)
       \/ \E a \in Alias : SetAlias(a, d)
       \/ \E l \in LeaseId : Lease(l, d)
       \/ \E owner \in Digest : AddReference(owner, d)
       \/ CollectNext(d)
  \/ \E a \in Alias : RemoveAlias(a)
  \/ \E l \in LeaseId : ReleaseLease(l)
  \/ Collect \/ RemoveDirectory \/ EndCollect
  \/ SessionDies

RegistrySpec == RegistryInit /\ [][RegistryNext]_registryVars
-----------------------------------------------------------------------------
(***************************************************************************)
(* Properties                                                              *)
(***************************************************************************)
Catalogs ==
  [artifacts : SUBSET Digest, marked : SUBSET Digest, names : [Name -> Digest \cup {NoDigest}],
   references : SUBSET (Digest \X Digest)]

RegistryTypeOK ==
  /\ objects \in [Digest -> {"absent", "whole", "torn"}]
  /\ disk \in Catalogs
  /\ session \in [pc : {"closed", "open", "publish", "collect", "remove"}, catalog : Catalogs,
                  digest : Digest \cup {NoDigest}, marked : BOOLEAN, todo : SUBSET Digest]
  /\ lost \subseteq Digest
  /\ deaths \in 0..MaxDeaths

\* The artifacts that the collection at work has taken apart.
Going ==
  CASE SessionAt("collect") -> disk.artifacts \ session.catalog.artifacts
    [] SessionAt("remove") -> (disk.artifacts \ session.catalog.artifacts) \cup {session.digest}
    [] OTHER -> {}

\* What the catalog lists can be read, but for what a collection is taking apart
\* or took apart when it died.
CatalogIsBacked ==
  \A d \in disk.artifacts : objects[d] = "whole" \/ d \in lost \/ d \in Going

\* No alias, lease or reference of the saved catalog is left without its artifact.
NothingDangles == Protected(disk) \subseteq disk.artifacts

\* The catalog in memory is the saved one, less what a collection has taken apart;
\* what it has still to take apart is listed and not protected.
SessionAgrees ==
  /\ SessionAt("closed") => session = Closed
  /\ ~SessionAt("closed") =>
       /\ session.catalog = [disk EXCEPT !.artifacts = session.catalog.artifacts]
       /\ Protected(disk) \subseteq session.catalog.artifacts
       /\ session.catalog.artifacts \subseteq disk.artifacts
  /\ SessionAt("open") \/ SessionAt("publish") => session.catalog = disk /\ session.todo = {}
  /\ SessionAt("publish") => session.digest # NoDigest /\ objects[session.digest] = "whole"
  /\ SessionAt("remove") => session.digest \in disk.artifacts \ Protected(disk)
  /\ session.todo \subseteq disk.artifacts \ Protected(disk)

\* The inductive invariant.
RegistryInv == RegistryTypeOK /\ CatalogIsBacked /\ NothingDangles /\ SessionAgrees

\* Whatever dies in between: no artifact that the saved catalog protects, by a
\* flag, an alias, a lease or a reference, loses its object.
NothingProtectedIsRemoved ==
  [][\A d \in Digest : objects[d] = "whole" /\ objects'[d] # "whole" => d \notin Protected(disk)]_registryVars
===================================================================================

--------------------------- MODULE LargeTransfer ---------------------------
(***************************************************************************)
(* A LargeTransfer (storage2/cloudfs/__init__.py): a file is uploaded in   *)
(* chunks that are written to a small tmpfs and removed from it when they  *)
(* are in the cloud, with a manifest after them; or the manifest and the   *)
(* chunks it names are downloaded, and a restorer thread puts the file     *)
(* together again.  A FileTransfer moves them: each of its steps below is  *)
(* one of FileTransfer's together with what LargeTransfer's listeners and  *)
(* generators do at that point.                                            *)
(***************************************************************************)
EXTENDS FileTransfer

ASSUME LargeAssumption == NumJobs > 1   \* a manifest and at least one chunk

VARIABLES
  up,          \* self._up
  task,        \* new, running, leaving (the result is known), ended
  killed,      \* self._killed; what kill interrupts, it interrupts for good
  killer,      \* the caller of kill: idle, deleting, done
  ready,       \* self._manifest_ready is set
  known,       \* self.files is there: the manifest has been read
  downloaded,  \* the chunks whose event "downloaded" is set
  processed,   \* the chunks whose event "processed" is set
  restorer,    \* none, wait, read, done, dead
  next,        \* the chunk the restorer is at
  disk,        \* what is on the tmpfs
  cloud,       \* what the upload has put to the cloud
  result       \* what run returns: none, manifest, nothing, lists

largeVars == <<transferVars, up, task, killed, killer, ready, known, downloaded,
               processed, restorer, next, disk, cloud, result>>

(* The manifest is uploaded last and downloaded first. *)
ManifestJob == IF up THEN NumJobs ELSE 1
Chunks == Jobs \ {ManifestJob}
FirstChunk == 2
Job(w) == worker[w].at.job

(* The chunks that self.manifest names. *)
Listed == Chunks \cap (1..produced)

LargeInit ==
  /\ TransferInit
  /\ up \in BOOLEAN
  /\ task = "new"
  /\ killed = FALSE
  /\ killer = "idle"
  /\ ready = FALSE
  /\ known = FALSE
  /\ downloaded = {}
  /\ processed = {}
  /\ restorer = "none"
  /\ next = FirstChunk
  /\ disk = {}
  /\ cloud = {}
  /\ result = "none"

-----------------------------------------------------------------------------
(* The task and its caller. *)

(* run: the tmpfs is made before the transfer runs. *)
Start ==
  /\ task = "new"
  /\ task' = "running"
  /\ UNCHANGED <<transferVars, up, killed, killer, ready, known, downloaded,
                 processed, restorer, next, disk, cloud, result>>

TransferRuns ==
  /\ task = "running"
  /\ RunStart \/ RunEnd
  /\ UNCHANGED <<up, task, killed, killer, ready, known, downloaded, processed,
                 restorer, next, disk, cloud, result>>

RestorerOver == restorer \in {"none", "done", "dead"}

(* Mutant: an upload that failed is taken for a good one. *)
SpoiltOnlyByKill == killed

(* Mutant: an upload that was killed is taken for a good one. *)
SpoiltOnlyByFailure == failed # {}

Spoilt == failed # {} \/ killed

Finish ==
  /\ task = "running"
  /\ run = "ended"
  /\ task' = "leaving"
  /\ \/ /\ ~up
        /\ RestorerOver
        /\ result' = "lists"
        /\ UNCHANGED cloud
     \/ /\ up
        /\ Spoilt
        /\ result' = "nothing"
        /\ cloud' = cloud \ Listed
     \/ /\ up
        /\ ~Spoilt
        /\ result' = "manifest"
        /\ UNCHANGED cloud
  /\ UNCHANGED <<transferVars, up, killed, killer, ready, known, downloaded,
                 processed, restorer, next, disk>>

(* The tmpfs is destroyed; from here on kill does nothing. *)
Leave ==
  /\ task = "leaving"
  /\ task' = "ended"
  /\ disk' = {}
  /\ UNCHANGED <<transferVars, up, killed, killer, ready, known, downloaded,
                 processed, restorer, next, cloud, result>>

(* kill, as the caller sees it: once. *)
Kill ==
  /\ task \in {"running", "leaving"}
  /\ killer = "idle"
  /\ StopAll
  /\ killed' = TRUE
  /\ killer' = IF up THEN "deleting" ELSE "done"
  /\ UNCHANGED <<up, task, ready, known, downloaded, processed, restorer, next,
                 disk, cloud, result>>

(* Manifest.delete, without the manifest's own object. *)
KillDeletes ==
  /\ killer = "deleting"
  /\ killer' = "done"
  /\ cloud' = cloud \ Listed
  /\ UNCHANGED <<transferVars, up, task, killed, ready, known, downloaded,
                 processed, restorer, next, disk, result>>

-----------------------------------------------------------------------------
(* The workers. *)

(* kill interrupts the wait for the manifest; a little later there is no    *)
(* list of files to go on with.                                             *)
SourceInterrupted(w) == ~up /\ produced = 1 /\ killed /\ SourceRaises(w)

(* _src_generator breaks off: what an upload reads cannot be read, or       *)
(* written to the tmpfs; the manifest of a download cannot be parsed.  The  *)
(* URLs that follow it are at hand.                                         *)
SourceBreaks(w) == (up \/ (produced = 1 /\ ready /\ ~killed)) /\ SourceRaises(w)

(* Steps that no listener takes part in, and in which the source yields     *)
(* nothing.                                                                 *)
PlainStep(w) ==
  /\ TakeRetry(w) \/ FindNoRetry(w) \/ SourceEnds(w) \/ SourceInterrupted(w)
       \/ SourceBreaks(w) \/ Reject(w) \/ Check(w) \/ (up /\ ErrorReported(w))
  /\ UNCHANGED <<up, task, killed, killer, ready, known, downloaded, processed,
                 restorer, next, disk, cloud, result>>

(* _src_generator: the next chunk is split off, or, with the last, the      *)
(* manifest written; or the next URL is looked up in the manifest, for      *)
(* which the first asker waits, and starts the restorer.                    *)
AskSource(w) ==
  /\ Fetch(w)
  /\ ~up /\ produced = 1 => ready /\ ~killed
  /\ IF ~up /\ produced = 1
     THEN /\ known' = TRUE
          /\ restorer' = "wait"
          /\ disk' = (disk \ {ManifestJob}) \cup {FirstChunk}
     ELSE /\ disk' = disk \cup {produced + 1}
          /\ UNCHANGED <<known, restorer>>
  /\ UNCHANGED <<up, task, killed, killer, ready, downloaded, processed, next,
                 cloud, result>>

(* wait_chunk begins by telling the restorer. *)
Transferred(w) ==
  /\ Succeed(w)
  /\ IF up
     THEN /\ cloud' = cloud \cup {Job(w)}
          /\ UNCHANGED downloaded
     ELSE /\ downloaded' = downloaded \cup ({Job(w)} \cap Chunks)
          /\ UNCHANGED cloud
  /\ UNCHANGED <<up, task, killed, killer, ready, known, processed, restorer, next,
                 disk, result>>

(* Mutant: uploaded chunks stay on the tmpfs. *)
UploadReportedAndKept(w) ==
  /\ up
  /\ Reported(w)
  /\ UNCHANGED <<disk, ready>>

(* delete_uploaded_chunk *)
UploadReported(w) ==
  /\ up
  /\ Reported(w)
  /\ disk' = disk \ {Job(w)}
  /\ UNCHANGED ready

(* wait_manifest *)
ManifestReported(w) ==
  /\ ~up
  /\ Job(w) = ManifestJob
  /\ Reported(w)
  /\ ready' = TRUE
  /\ UNCHANGED disk

(* Mutant: the chunk goes without the restorer having been waited for. *)
ChunkReportedAtOnce(w) ==
  /\ ~up
  /\ Job(w) # ManifestJob
  /\ Reported(w)
  /\ disk' = disk \ {Job(w)}
  /\ UNCHANGED ready

(* wait_chunk, once the restorer is done with the chunk *)
ChunkReported(w) ==
  /\ ~up
  /\ Job(w) # ManifestJob
  /\ Job(w) \in processed
  /\ ~killed
  /\ Reported(w)
  /\ disk' = disk \ {Job(w)}
  /\ UNCHANGED ready

ListenersReturn(w) ==
  /\ UploadReported(w) \/ ManifestReported(w) \/ ChunkReported(w)
  /\ UNCHANGED <<up, task, killed, killer, known, downloaded, processed, restorer,
                 next, cloud, result>>

(* The driver raised; or a listener did: the caller's or                    *)
(* delete_uploaded_chunk in an upload, in a download only wait_chunk, when  *)
(* kill interrupts it.                                                      *)
Raised(w) ==
  /\ Retry(w) \/ GiveUp(w)
  /\ At(w, "report") /\ ~up => killed /\ Job(w) # ManifestJob
  /\ UNCHANGED <<up, task, killed, killer, ready, known, downloaded, processed,
                 restorer, next, disk, cloud, result>>

(* on_transfer_error: a download that cannot be completed is killed. *)
WorkerKills(w) ==
  /\ ~up
  /\ At(w, "error")
  /\ ~killed
  /\ StopAll
  /\ killed' = TRUE
  /\ UNCHANGED <<up, task, killer, ready, known, downloaded, processed, restorer,
                 next, disk, cloud, result>>

WorkerHasKilled(w) ==
  /\ ~up
  /\ killed
  /\ ErrorReported(w)
  /\ UNCHANGED <<up, task, killed, killer, ready, known, downloaded, processed,
                 restorer, next, disk, cloud, result>>

LargeWorkerStep(w) ==
  \/ PlainStep(w) \/ AskSource(w) \/ Transferred(w) \/ ListenersReturn(w)
  \/ Raised(w) \/ WorkerKills(w) \/ WorkerHasKilled(w)

-----------------------------------------------------------------------------
(* The restorer, _dl_restorer. *)

restorerFrame == <<up, task, killer, ready, known, downloaded, disk, cloud, result>>

(* Mutant: the restorer does not wait for the download. *)
ReadChunkUnasked ==
  /\ restorer = "wait"
  /\ ~killed
  /\ restorer' = "read"
  /\ UNCHANGED <<transferVars, restorerFrame, killed, processed, next>>

ReadChunk ==
  /\ restorer = "wait"
  /\ next \in downloaded
  /\ ~killed
  /\ restorer' = "read"
  /\ UNCHANGED <<transferVars, restorerFrame, killed, processed, next>>

(* Mutant: the restorer stops one chunk early. *)
RestoresOneLess == next + 1 = NumJobs

(* Mutant: the restorer goes on past the last chunk. *)
IsNeverLast == FALSE

IsLast == next = NumJobs

Restore ==
  /\ restorer = "read"
  /\ processed' = processed \cup {next}
  /\ IF IsLast
     THEN restorer' = "done" /\ UNCHANGED next
     ELSE restorer' = "wait" /\ next' = next + 1
  /\ UNCHANGED <<transferVars, restorerFrame, killed>>

(* Mutant: kill leaves the events alone. *)
RestorerUninterrupted == FALSE

(* A wait that kill interrupts raises. *)
RestorerInterrupted ==
  /\ restorer = "wait"
  /\ killed
  /\ restorer' = "dead"
  /\ UNCHANGED <<transferVars, restorerFrame, killed, processed, next>>

(* stream.write raised: the restorer kills the transfer. *)
RestorerKills ==
  /\ restorer = "read"
  /\ StopAll
  /\ killed' = TRUE
  /\ restorer' = "dead"
  /\ UNCHANGED <<restorerFrame, processed, next>>

(* It dies silently: the target or a chunk cannot be opened, a filter not   *)
(* started; or a write raised and there is no cmd to read an error from.    *)
RestorerDies ==
  /\ restorer \in {"wait", "read"}
  /\ ~killed
  /\ restorer' = "dead"
  /\ UNCHANGED <<transferVars, restorerFrame, killed, processed, next>>

RestorerStep == ReadChunk \/ Restore \/ RestorerInterrupted \/ RestorerKills \/ RestorerDies

LargeNext ==
  \/ Start \/ TransferRuns \/ Finish \/ Leave \/ Kill \/ KillDeletes
  \/ RestorerStep
  \/ \E w \in Workers : LargeWorkerStep(w)

(* Threads run, and the calls of a driver, of a listener and of a pipe      *)
(* return or raise.  Nothing else has to fail: the source need not break    *)
(* off nor the restorer die, least of all while they wait for others; and   *)
(* nobody has to kill a transfer.                                           *)
LargeFairness ==
  /\ WF_largeVars(Start \/ TransferRuns \/ Finish \/ Leave)
  /\ WF_largeVars(KillDeletes)
  /\ WF_largeVars(ReadChunk \/ Restore \/ RestorerInterrupted)
  /\ \A w \in Workers : WF_largeVars(LargeWorkerStep(w) /\ ~SourceBreaks(w))

LargeSpec == LargeInit /\ [][LargeNext]_largeVars /\ LargeFairness

-----------------------------------------------------------------------------
LargeTypeOK ==
  /\ up \in BOOLEAN /\ killed \in BOOLEAN /\ ready \in BOOLEAN /\ known \in BOOLEAN
  /\ task \in {"new", "running", "leaving", "ended"}
  /\ killer \in {"idle", "deleting", "done"}
  /\ restorer \in {"none", "wait", "read", "done", "dead"}
  /\ result \in {"none", "manifest", "nothing", "lists"}
  /\ next \in FirstChunk..NumJobs
  /\ downloaded \subseteq Chunks /\ processed \subseteq downloaded
  /\ disk \subseteq Jobs /\ cloud \subseteq Jobs

SourceRaised == \E w \in Workers : At(w, "dead")

(* An upload that returns its manifest, and is not killed while it returns, *)
(* has in the cloud what its source yielded, but for a job that failed an   *)
(* assertion; and its source yielded everything, unless it broke off.       *)
(* res["failed"] tells of neither: the manifest is returned all the same.   *)
UploadResultTrue ==
  result = "manifest" /\ killer = "idle" =>
    /\ 1..produced \subseteq cloud \cup rejected
    /\ produced = NumJobs \/ SourceRaised

(* No chunk of an upload that failed or was killed stays in the cloud,      *)
(* whatever the workers were putting there while the chunks were deleted.   *)
KillCleans ==
  task = "ended" /\ up /\ (killed \/ failed # {}) /\ killer # "deleting" =>
    cloud \cap Chunks = {}

(* The same for everything below the transfer's path, its manifest too.     *)
PathCleaned ==
  task = "ended" /\ up /\ killed /\ killer # "deleting" => cloud = {}

(* A download that returns and was not killed, by its caller or by one of   *)
(* its own threads, has put every chunk back, or none at all: when the      *)
(* source broke off, as the manifest could not be parsed, run returns its   *)
(* lists, with nothing in "failed", all the same.                           *)
DownloadResultTrue ==
  result = "lists" /\ ~killed =>
    processed = Chunks \/ (SourceRaised /\ ~known /\ processed = {})

(* The chunk that the restorer reads is on the tmpfs, and nobody is writing *)
(* it.  (Once killed, a worker may still take the retry of an interrupted   *)
(* one and write the chunk again.)                                          *)
ReadsWholeChunk ==
  restorer = "read" /\ ~killed =>
    /\ next \in disk
    /\ \A w \in Workers : ~(At(w, "transfer") /\ Job(w) = next)

(* What takes room on the tmpfs is on the queue or in a worker's hands, or  *)
(* was given up.  With AtMostOneEach: it needs room for a chunk per worker. *)
TransitVolumeFits ==
  \A c \in disk \cap Chunks :
    c \in failed \cup rejected \cup {a.job : a \in Unsettled}

(* A transfer ends if it is killed, whatever has become of its threads.     *)
KilledEnds == killed ~> task = "ended"

(* A transfer ends, unless its restorer dies without killing it: then its   *)
(* workers wait for the restorer.                                           *)
TransferEnds == task = "running" ~> (task = "ended" \/ (restorer = "dead" /\ ~killed))
=============================================================================

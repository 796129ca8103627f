-------------------------- MODULE MCStorageClients --------------------------
(* The two clients of the registry, downloads of packs and uploads of blobs. *)
(* They share no state: a behaviour is about one of them.                    *)
EXTENDS PackDownloads, RegistryUpload

CONSTANTS a, b, blob

VARIABLE client

File(k, n, part) == [key |-> k, size |-> n, part |-> part]

\* Either pack fits and not both. Pack a is also asked for as a whole and with
\* another size.
MCFiles == {File(a, 2, TRUE), File(a, 1, FALSE), File(b, 3, TRUE)}
MCChunks == [x \in Blobs |-> 1]

MCInit == DownloadInit /\ UploadInit /\ client \in {"download", "upload"}

\* Every read returned and the bound on reads is reached.
Served == clock = MaxClock /\ \A r \in Readers : reader[r].pc = "idle"

MCNext ==
  /\ UNCHANGED client
  /\ \/ client = "download" /\ DownloadNext /\ UNCHANGED uploadVars
     \/ client = "download" /\ Served /\ UNCHANGED <<downloadVars, uploadVars>>
     \/ client = "upload" /\ UploadNext /\ UNCHANGED downloadVars

\* In the client that does not run nothing is enabled.
MCSpec ==
  /\ MCInit /\ [][MCNext]_<<client, downloadVars, uploadVars>>
  /\ DownloadFairness /\ UploadFairness
=============================================================================

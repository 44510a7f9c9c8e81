-------------------------------- MODULE Upload --------------------------------
(***************************************************************************)
(* The web client's UploadFiles: every file of the form is posted to the   *)
(* file client, which stores it, and after an OK its record is added       *)
(* through the business server; users download files by the guids of the   *)
(* records.  Three processes, and a failure between any two steps.         *)
(*                                                                         *)
(* A file is named by its guid, which is new for every file of every form. *)
(* The result of Add is what Rpc.tla and CacheServer.tla promise.          *)
(* Sources: v2 Client.Web/HomeController.cs, Client.File/                  *)
(* UploadFilesController.cs and HomeController.cs.                         *)
(***************************************************************************)
EXTENDS Integers, FiniteSets

CONSTANTS
    Requests,   \* forms that are posted to the web client
    PerRequest, \* bound: files of a form
    MaxChunks,  \* bound: pieces a file is copied in
    Readers     \* downloads

ASSUME BoundAssumption == PerRequest \in Nat /\ MaxChunks \in Nat

Files == Requests \X (1..PerRequest)
Absent == -1

VARIABLES
    platform,   \* of the file client; its path is written with backslashes
    size,       \* pieces of each file
    \* the web client
    wpc, at,    \* where UploadFiles is, at which file of the form
    told,       \* the response in the list for each file
    \* the file client
    upload,     \* where the request that stores a file is
    stored,     \* pieces under the path it is stored at
    reply,      \* the body of its response
    \* the business server and the servers behind it
    records,    \* files that have a record
    late,       \* files whose record may still be added, nobody waiting for it
    \* downloads
    target,     \* the file each asks for
    pos, got

webVars == <<wpc, at, told>>
fileVars == <<upload, stored, reply>>
recordVars == <<records, late>>
readerVars == <<target, pos, got>>
vars == <<platform, size, webVars, fileVars, recordVars, readerVars>>

Nobody == <<>>

Init ==
    /\ platform \in {"Windows", "Linux"}
    /\ size \in [Files -> 0..MaxChunks]
    /\ wpc = [r \in Requests |-> "next"] /\ at = [r \in Requests |-> 1]
    /\ told = [f \in Files |-> "nothing"]
    /\ upload = [f \in Files |-> "none"] /\ stored = [f \in Files |-> Absent]
    /\ reply = [f \in Files |-> "none"]
    /\ records = {} /\ late = {}
    /\ target = [d \in Readers |-> Nobody] /\ pos = [d \in Readers |-> 0]
    /\ got = [d \in Readers |-> "nothing"]

Current(r) == <<r, at[r]>>
WebAt(r, label) == wpc[r] = label
GotoWeb(r, label) == wpc' = [wpc EXCEPT ![r] = label]

-----------------------------------------------------------------------------
(* The web client: UploadFiles and SaveFile.                               *)

\* Empty files are skipped; the others are posted under a new guid.
NextFile(r) ==
    /\ WebAt(r, "next") /\ at[r] <= PerRequest
    /\ IF size[Current(r)] = 0
       THEN at' = [at EXCEPT ![r] = @ + 1] /\ UNCHANGED <<wpc, upload>>
       ELSE /\ GotoWeb(r, "posting")
            /\ upload' = [upload EXCEPT ![Current(r)] = "received"]
            /\ UNCHANGED at
    /\ UNCHANGED <<platform, size, told, stored, reply, recordVars, readerVars>>

\* The view dereferences every response: one null makes it an error page.
ShowPage(r) ==
    /\ WebAt(r, "next") /\ at[r] > PerRequest
    /\ GotoWeb(r, IF \E i \in 1..PerRequest : told[<<r, i>>] = "null" THEN "error" ELSE "page")
    /\ UNCHANGED <<platform, size, at, told, fileVars, recordVars, readerVars>>

\* The file's line on the page, and the next file.
Tell(r, what) ==
    /\ told' = [told EXCEPT ![Current(r)] = what]
    /\ at' = [at EXCEPT ![r] = @ + 1]
    /\ GotoWeb(r, "next")

\* webServerResponse.Contains("OK"): of a page that tells of an error, whatever its
\* status, no more is asked than of the list of the stored files.
Passes(f) == reply[f] \in {"OK", "errorWithOK"}

\* Mutant: the body of the response is not looked at.
AddAnyway(r) ==
    /\ WebAt(r, "posting") /\ reply[Current(r)] # "none"
    /\ GotoWeb(r, "adding")
    /\ UNCHANGED <<platform, size, at, told, fileVars, recordVars, readerVars>>

\* Mutant: the first file that fails ends the loop.
StopAtFailure(r) ==
    /\ WebAt(r, "posting") /\ reply[Current(r)] # "none"
    /\ GotoWeb(r, IF Passes(Current(r)) THEN "adding" ELSE "page")
    /\ UNCHANGED <<platform, size, at, told, fileVars, recordVars, readerVars>>

\* Mutant: a file that fails is posted again.
PostAgain(r) ==
    /\ WebAt(r, "posting") /\ reply[Current(r)] # "none"
    /\ GotoWeb(r, IF Passes(Current(r)) THEN "adding" ELSE "next")
    /\ UNCHANGED <<platform, size, at, told, fileVars, recordVars, readerVars>>

PostReturns(r) ==
    /\ WebAt(r, "posting") /\ reply[Current(r)] # "none"
    /\ IF Passes(Current(r))
       THEN GotoWeb(r, "adding") /\ UNCHANGED <<at, told>>
       ELSE Tell(r, "failed")
    /\ UNCHANGED <<platform, size, fileVars, recordVars, readerVars>>

\* PostAsync throws (no connection, 100 seconds): the whole form ends in an error page,
\* while the file client may go on.
PostThrows(r) ==
    /\ WebAt(r, "posting")
    /\ GotoWeb(r, "error")
    /\ UNCHANGED <<platform, size, at, told, fileVars, recordVars, readerVars>>

\* client.Add: an answer, OK or not; the fallback; or null.  One that is not OK may
\* have stored the record (the connection to the database broke around the commit),
\* and null says nothing.
AddReturns(r) ==
    LET f == Current(r) IN
    /\ WebAt(r, "adding")
    /\ \/ records' = records \cup {f} /\ late' = late /\ Tell(r, "ok")
       \/ records' \in {records, records \cup {f}} /\ late' = late /\ Tell(r, "failed")
       \/ records' = records /\ late' = late \cup {f} /\ Tell(r, "null")
    /\ UNCHANGED <<platform, size, fileVars, readerVars>>

\* A channel that is not connected throws.
AddThrows(r) ==
    /\ WebAt(r, "adding")
    /\ GotoWeb(r, "error")
    /\ late' \in {late, late \cup {Current(r)}}
    /\ UNCHANGED <<platform, size, at, told, fileVars, records, readerVars>>

RecordLate(f) ==
    /\ f \in late
    /\ late' = late \ {f}
    /\ records' = records \cup {f}
    /\ UNCHANGED <<platform, size, webVars, fileVars, readerVars>>

-----------------------------------------------------------------------------
(* The file client.                                                        *)

OpenUpload(f) ==
    /\ upload[f] = "received"
    /\ upload' = [upload EXCEPT ![f] = "writing"]
    /\ stored' = [stored EXCEPT ![f] = 0]
    /\ UNCHANGED <<platform, size, webVars, reply, recordVars, readerVars>>

CopyChunk(f) ==
    /\ upload[f] = "writing" /\ stored[f] < size[f]
    /\ stored' = [stored EXCEPT ![f] = @ + 1]
    /\ UNCHANGED <<platform, size, webVars, upload, reply, recordVars, readerVars>>

\* Mutant: the copy is not awaited.
AnswerBeforeCopy(f) ==
    /\ upload[f] = "writing"
    /\ reply' = [reply EXCEPT ![f] = "OK"]
    /\ upload' = [upload EXCEPT ![f] = IF stored[f] = size[f] THEN "stored" ELSE @]
    /\ UNCHANGED <<platform, size, webVars, stored, recordVars, readerVars>>

\* The stream is closed before the response is sent.
CloseUpload(f) ==
    /\ upload[f] = "writing" /\ stored[f] = size[f]
    /\ upload' = [upload EXCEPT ![f] = "stored"]
    /\ reply' = [reply EXCEPT ![f] = "OK"]
    /\ UNCHANGED <<platform, size, webVars, stored, recordVars, readerVars>>

\* The file cannot be opened or written: an error page, and what was written stays.  The
\* page may hold the letters OK: the developer's shows the lines around the one that
\* threw, with Status = "OK" among them, the other a request's identifier.
UploadThrows(f) ==
    /\ upload[f] \in {"received", "writing"}
    /\ upload' = [upload EXCEPT ![f] = "failed"]
    /\ \E page \in {"error", "errorWithOK"} : reply' = [reply EXCEPT ![f] = page]
    /\ UNCHANGED <<platform, size, webVars, stored, recordVars, readerVars>>

\* Uploads are stored as ContentRootPath + "\Files\" + name and looked for with
\* Path.Combine: only on Windows are the two the same file.
Exists(f) == stored[f] # Absent /\ platform = "Windows"

Reading(d) == target[d] # Nobody /\ got[d] = "nothing"

\* Download.  FileStream(path, Open) asks for writing too and shares reading only:
\* on Windows it throws while anybody else has the file open.
OpenDownload(d, f) ==
    /\ target[d] = Nobody /\ f \in records
    /\ target' = [target EXCEPT ![d] = f]
    /\ got' = [got EXCEPT ![d] =
           IF ~Exists(f) THEN "notFound"
           ELSE IF upload[f] = "writing" THEN "refusedByUpload"
           ELSE IF \E e \in Readers : Reading(e) /\ target[e] = f THEN "refusedByDownload"
           ELSE @]
    /\ UNCHANGED <<platform, size, webVars, fileVars, recordVars, pos>>

ReadChunk(d) ==
    /\ Reading(d) /\ pos[d] < stored[target[d]]
    /\ pos' = [pos EXCEPT ![d] = @ + 1]
    /\ UNCHANGED <<platform, size, webVars, fileVars, recordVars, target, got>>

CloseDownload(d) ==
    /\ Reading(d) /\ pos[d] = stored[target[d]]
    /\ got' = [got EXCEPT ![d] = IF pos[d] = size[target[d]] THEN "whole" ELSE "torn"]
    /\ UNCHANGED <<platform, size, webVars, fileVars, recordVars, target, pos>>

-----------------------------------------------------------------------------
Web(r) == NextFile(r) \/ ShowPage(r) \/ PostReturns(r) \/ AddReturns(r)
FileClient(f) == OpenUpload(f) \/ CopyChunk(f) \/ CloseUpload(f)

Next ==
    \/ \E r \in Requests : Web(r) \/ PostThrows(r) \/ AddThrows(r)
    \/ \E f \in Files : FileClient(f) \/ UploadThrows(f) \/ RecordLate(f)
    \/ \E d \in Readers : ReadChunk(d) \/ CloseDownload(d) \/ \E f \in Files : OpenDownload(d, f)

Spec == Init /\ [][Next]_vars

\* Both web servers run their requests.  Nothing makes an Add come back: a client that
\* no handler serves waits for ever (Unserved in Relay).
Fairness ==
    /\ \A r \in Requests : WF_vars(NextFile(r) \/ ShowPage(r) \/ PostReturns(r))
    /\ \A f \in Files : WF_vars(FileClient(f))

FairSpec == Spec /\ Fairness

-----------------------------------------------------------------------------
TypeOK ==
    /\ platform \in {"Windows", "Linux"} /\ size \in [Files -> 0..MaxChunks]
    /\ wpc \in [Requests -> {"next", "posting", "adding", "page", "error"}]
    /\ at \in [Requests -> 1..PerRequest + 1]
    /\ told \in [Files -> {"nothing", "ok", "failed", "null"}]
    /\ upload \in [Files -> {"none", "received", "writing", "stored", "failed"}]
    /\ stored \in [Files -> Absent..MaxChunks]
    /\ \A f \in Files : stored[f] <= size[f]
    /\ reply \in [Files -> {"none", "OK", "error", "errorWithOK"}]
    /\ records \subseteq Files /\ late \subseteq Files
    /\ target \in [Readers -> Files \cup {Nobody}] /\ pos \in [Readers -> 0..MaxChunks]
    /\ got \in [Readers ->
         {"nothing", "notFound", "refusedByUpload", "refusedByDownload", "whole", "torn"}]

\* The one failure that the web client takes for a stored file.
Misread(f) == reply[f] = "errorWithOK"

\* A file that has a record, or may still get one, is stored whole and no longer
\* written to, whichever of the three processes failed and when; but for one whose
\* error page had the letters OK in it.
RecordHasFile == \A f \in records \cup late :
    (upload[f] = "stored" /\ stored[f] = size[f]) \/ Misread(f)

\* A download by a record's guid never meets the upload that is still writing, and what
\* it gives is the whole file; one that is found is torn, and one that is not found on
\* Windows is missing, only if the web client has misread the answer to its upload.
DownloadsWhole == \A d \in Readers :
    /\ got[d] # "refusedByUpload"
    /\ got[d] = "torn" => Misread(target[d])
    /\ got[d] = "notFound" => platform = "Linux" \/ Misread(target[d])

\* A page, once shown, has a line for every file that is not empty, and is final: a file
\* it calls failed is one the file client refused or one whose Add was not confirmed, and
\* of none can a record still appear.
PageIsComplete == \A f \in Files :
    wpc[f[1]] = "page" =>
        /\ told[f] \in {"ok", "failed"} <=> size[f] # 0
        /\ told[f] = "ok" => f \in records
        /\ told[f] = "failed" => upload[f] = "failed" \/ reply[f] = "OK"
        /\ f \notin late

\* Every form of which the Adds come back ends in a page or an error page, whatever
\* happens to its files.
AddsReturn(r) == wpc[r] = "adding" ~> wpc[r] # "adding"
FormEnds == \A r \in Requests :
    AddsReturn(r) => (wpc[r] = "next" ~> wpc[r] \in {"page", "error"})

=============================================================================

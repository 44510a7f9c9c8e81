----------------------------- MODULE UploadProofs -----------------------------
(***************************************************************************)
(* For any number of forms, files, pieces and downloads: a record has its  *)
(* whole file, downloads are whole, and pages are complete; but for a file *)
(* whose error page was taken for an OK.  The                              *)
(* invariant relates the three processes file by file: what the file client*)
(* has answered says what it has stored, and what the web client is about  *)
(* to do says what has been answered.                                      *)
(***************************************************************************)
EXTENDS Upload, TLAPS

\* The file client: its answer, once given, is final.
FileInv == \A f \in Files :
    /\ upload[f] = "stored" => stored[f] = size[f]
    /\ reply[f] = "OK" => upload[f] = "stored"
    /\ reply[f] \in {"error", "errorWithOK"} => upload[f] = "failed"

RecordInv == \A f \in records \cup late : Passes(f)

\* The files of a form behind the current one, the current one, and those to come.
Told(f) ==
    /\ told[f] = "nothing" <=> size[f] = 0
    /\ told[f] = "ok" => f \in records
    /\ told[f] = "failed" => upload[f] = "failed" \/ reply[f] = "OK"
    /\ told[f] # "null" => f \notin late

FormInv == \A r \in Requests :
    /\ wpc[r] \in {"posting", "adding"} => at[r] <= PerRequest /\ size[<<r, at[r]>>] # 0
    /\ wpc[r] = "adding" => Passes(<<r, at[r]>>)
    /\ wpc[r] = "page" => at[r] > PerRequest /\ \A i \in 1..PerRequest : told[<<r, i>>] # "null"
    /\ \A i \in 1..PerRequest :
         /\ i < at[r] => Told(<<r, i>>)
         /\ i >= at[r] => told[<<r, i>>] = "nothing"
         /\ i > at[r] => upload[<<r, i>>] = "none"
         /\ i = at[r] /\ wpc[r] = "next" => upload[<<r, i>>] = "none"
         /\ i >= at[r] /\ wpc[r] # "error" => <<r, i>> \notin late

DownloadInv == \A d \in Readers :
    /\ target[d] # Nobody => Passes(target[d])
    /\ got[d] # "nothing" => target[d] # Nobody
    /\ got[d] # "refusedByUpload"
    /\ got[d] = "torn" => Misread(target[d])
    /\ got[d] = "notFound" => platform = "Linux" \/ Misread(target[d])

Inv == TypeOK /\ FileInv /\ RecordInv /\ FormInv /\ DownloadInv

LEMMA Bounds == PerRequest \in Nat /\ MaxChunks \in Nat /\ Absent = 0 - 1
  BY BoundAssumption DEF Absent

LEMMA FilesArePairs ==
    ASSUME NEW r \in Requests, NEW i \in 1..PerRequest
    PROVE  <<r, i>> \in Files
  BY DEF Files

LEMMA CurrentIsFile ==
    ASSUME TypeOK, NEW r \in Requests, at[r] <= PerRequest
    PROVE  Current(r) \in Files /\ at[r] \in 1..PerRequest
  <1>1. at[r] \in 1..PerRequest
    BY Bounds DEF TypeOK
  <1>. QED  BY <1>1, FilesArePairs DEF Current

LEMMA InitInv == Init => Inv
  <1>. SUFFICES ASSUME Init PROVE Inv
    OBVIOUS
  <1>1. TypeOK
    <2>1. 1 \in 1..(PerRequest + 1) /\ 0 \in 0..MaxChunks /\ Absent \in Absent..MaxChunks
      BY Bounds
    <2>2. \A f \in Files : size[f] \in 0..MaxChunks
      BY DEF Init
    <2>3. \A f \in Files : stored[f] <= size[f]
      BY <2>2, Bounds DEF Init
    <2>4. /\ wpc \in [Requests -> {"next", "posting", "adding", "page", "error"}]
          /\ at \in [Requests -> 1..PerRequest + 1]
          /\ told \in [Files -> {"nothing", "ok", "failed", "null"}]
          /\ upload \in [Files -> {"none", "received", "writing", "stored", "failed"}]
          /\ stored \in [Files -> Absent..MaxChunks]
          /\ reply \in [Files -> {"none", "OK", "error", "errorWithOK"}]
          /\ target \in [Readers -> Files \cup {Nobody}] /\ pos \in [Readers -> 0..MaxChunks]
          /\ got \in [Readers ->
               {"nothing", "notFound", "refusedByUpload", "refusedByDownload", "whole", "torn"}]
      BY <2>1 DEF Init
    <2>. QED  BY <2>3, <2>4 DEF Init, TypeOK
  <1>2. FileInv /\ RecordInv /\ DownloadInv
    BY DEF Init, FileInv, RecordInv, DownloadInv
  <1>3. FormInv
    <2>. SUFFICES ASSUME NEW r \in Requests
                  PROVE  /\ wpc[r] = "next" /\ at[r] = 1
                         /\ \A i \in 1..PerRequest :
                              /\ told[<<r, i>>] = "nothing" /\ upload[<<r, i>>] = "none"
                              /\ <<r, i>> \notin late /\ ~(i < at[r])
      BY Zenon DEF FormInv
    <2>. QED  BY FilesArePairs, Bounds DEF Init
  <1>. QED  BY <1>1, <1>2, <1>3 DEF Inv

-----------------------------------------------------------------------------
(* The file client.                                                        *)

\* A step of the file client at a file it has not answered for.
LEMMA FileStep ==
    ASSUME Inv, NEW f \in Files, upload[f] \in {"received", "writing"},
           NEW u \in {"writing", "stored", "failed"}, NEW s \in Absent..MaxChunks,
           NEW p \in {"none", "OK", "error", "errorWithOK"},
           s <= size[f], u = "stored" => s = size[f],
           p = "OK" => u = "stored", p \in {"error", "errorWithOK"} => u = "failed",
           upload' = [upload EXCEPT ![f] = u],
           stored' = [stored EXCEPT ![f] = s],
           reply' = [reply EXCEPT ![f] = p],
           UNCHANGED <<platform, size, webVars, recordVars, readerVars>>
    PROVE  Inv'
  <1>t. TypeOK /\ FileInv /\ RecordInv /\ FormInv /\ DownloadInv
    BY DEF Inv
  <1>1. /\ platform' = platform /\ size' = size /\ wpc' = wpc /\ at' = at /\ told' = told
        /\ records' = records /\ late' = late /\ target' = target /\ pos' = pos /\ got' = got
    BY DEF webVars, recordVars, readerVars
  <1>2. /\ upload \in [Files -> {"none", "received", "writing", "stored", "failed"}]
        /\ stored \in [Files -> Absent..MaxChunks] /\ reply \in [Files -> {"none", "OK", "error", "errorWithOK"}]
    BY <1>t DEF TypeOK
  <1>3. /\ upload'[f] = u /\ stored'[f] = s /\ reply'[f] = p
        /\ \A g \in Files : g # f =>
             upload'[g] = upload[g] /\ stored'[g] = stored[g] /\ reply'[g] = reply[g]
    BY <1>2
  <1>4. /\ reply[f] = "none"
        /\ \A g \in Files : Passes(g) => g # f /\ reply'[g] = reply[g]
    <2>1. reply[f] = "none"
      BY <1>2, <1>t DEF FileInv
    <2>. QED  BY <2>1, <1>3 DEF Passes
  <1>5. TypeOK'
    <2>1. /\ upload' \in [Files -> {"none", "received", "writing", "stored", "failed"}]
          /\ stored' \in [Files -> Absent..MaxChunks] /\ reply' \in [Files -> {"none", "OK", "error", "errorWithOK"}]
      BY <1>2
    <2>2. \A g \in Files : stored'[g] <= size[g]
      BY <1>3, <1>t DEF TypeOK
    <2>. QED  BY <1>1, <2>1, <2>2, <1>t DEF TypeOK
  <1>6. FileInv'
    BY <1>1, <1>3, <1>t DEF FileInv
  <1>7. RecordInv'
    BY <1>1, <1>4, <1>t DEF RecordInv, TypeOK, Passes
  <1>8. FormInv'
    <2>. SUFFICES ASSUME NEW r \in Requests
                  PROVE  /\ wpc[r] \in {"posting", "adding"} => at[r] <= PerRequest /\ size[<<r, at[r]>>] # 0
                         /\ wpc[r] = "adding" => Passes(<<r, at[r]>>)'
                         /\ wpc[r] = "page" =>
                              at[r] > PerRequest /\ \A i \in 1..PerRequest : told[<<r, i>>] # "null"
                         /\ \A i \in 1..PerRequest :
                              /\ i < at[r] => Told(<<r, i>>)'
                              /\ i >= at[r] => told[<<r, i>>] = "nothing"
                              /\ i > at[r] => upload'[<<r, i>>] = "none"
                              /\ i = at[r] /\ wpc[r] = "next" => upload'[<<r, i>>] = "none"
                              /\ i >= at[r] /\ wpc[r] # "error" => <<r, i>> \notin late
      BY <1>1 DEF FormInv, Told
    <2>1. wpc[r] = "adding" => Passes(<<r, at[r]>>)'
      <3>. SUFFICES ASSUME wpc[r] = "adding" PROVE Passes(<<r, at[r]>>)'
        OBVIOUS
      <3>1. at[r] <= PerRequest /\ Passes(<<r, at[r]>>)
        BY <1>t DEF FormInv
      <3>2. <<r, at[r]>> \in Files
        BY <3>1, <1>t, CurrentIsFile DEF Current
      <3>. QED  BY <3>1, <3>2, <1>1, <1>4 DEF Passes
    <2>2. ASSUME NEW i \in 1..PerRequest
          PROVE  /\ i < at[r] => Told(<<r, i>>)'
                 /\ upload[<<r, i>>] = "none" => upload'[<<r, i>>] = "none"
      <3>1. <<r, i>> \in Files
        BY FilesArePairs
      <3>2. upload[<<r, i>>] \in {"none", "failed"} \/ reply[<<r, i>>] = "OK" => <<r, i>> # f
        BY <1>4
      <3>3. i < at[r] => Told(<<r, i>>)
        BY <1>t DEF FormInv
      <3>. QED  BY <3>1, <3>2, <3>3, <1>1, <1>3 DEF Told
    <2>. QED  BY <2>1, <2>2, <1>t DEF FormInv
  <1>9. DownloadInv'
    <2>. SUFFICES ASSUME NEW d \in Readers
                  PROVE  /\ target[d] # Nobody => reply'[target[d]] = reply[target[d]]
                         /\ target[d] # Nobody => Passes(target[d])
      BY <1>1, <1>t DEF DownloadInv, Passes, Misread
    <2>1. target[d] # Nobody => target[d] \in Files /\ Passes(target[d])
      BY <1>t DEF TypeOK, DownloadInv
    <2>. QED  BY <2>1, <1>4
  <1>. QED  BY <1>5, <1>6, <1>7, <1>8, <1>9 DEF Inv

LEMMA FileClientKeeps ==
    ASSUME Inv, NEW f \in Files, FileClient(f) \/ UploadThrows(f)
    PROVE  Inv'
  <1>t. TypeOK /\ FileInv
    BY DEF Inv
  <1>1. /\ upload \in [Files -> {"none", "received", "writing", "stored", "failed"}]
        /\ stored \in [Files -> Absent..MaxChunks] /\ reply \in [Files -> {"none", "OK", "error", "errorWithOK"}]
        /\ size[f] \in 0..MaxChunks /\ stored[f] <= size[f]
    BY <1>t DEF TypeOK
  <1>2. /\ upload = [upload EXCEPT ![f] = upload[f]] /\ stored = [stored EXCEPT ![f] = stored[f]]
        /\ reply = [reply EXCEPT ![f] = reply[f]]
    BY <1>1
  <1>3. upload[f] \in {"received", "writing"} => reply[f] = "none"
    BY <1>1, <1>t DEF FileInv
  <1>4. CASE OpenUpload(f)
    <2>1. 0 \in Absent..MaxChunks /\ 0 <= size[f]
      BY <1>1, Bounds
    <2>2. /\ upload[f] = "received" /\ upload' = [upload EXCEPT ![f] = "writing"]
          /\ stored' = [stored EXCEPT ![f] = 0] /\ reply' = [reply EXCEPT ![f] = "none"]
          /\ UNCHANGED <<platform, size, webVars, recordVars, readerVars>>
      BY <1>2, <1>3, <1>4 DEF OpenUpload
    <2>. QED  BY <2>1, <2>2, FileStep
  <1>5. CASE CopyChunk(f)
    <2>1. stored[f] < size[f] /\ stored[f] \in Absent..MaxChunks
      BY <1>1, <1>5 DEF CopyChunk
    <2>2. stored[f] + 1 \in Absent..MaxChunks /\ stored[f] + 1 <= size[f]
      BY <2>1, <1>1, Bounds
    <2>3. /\ upload[f] = "writing" /\ upload' = [upload EXCEPT ![f] = "writing"]
          /\ stored' = [stored EXCEPT ![f] = stored[f] + 1] /\ reply' = [reply EXCEPT ![f] = "none"]
          /\ UNCHANGED <<platform, size, webVars, recordVars, readerVars>>
      BY <1>2, <1>3, <1>5 DEF CopyChunk
    <2>. QED  BY <2>2, <2>3, FileStep
  <1>6. CASE CloseUpload(f)
    <2>1. /\ upload[f] = "writing" /\ upload' = [upload EXCEPT ![f] = "stored"]
          /\ stored' = [stored EXCEPT ![f] = stored[f]] /\ reply' = [reply EXCEPT ![f] = "OK"]
          /\ stored[f] = size[f] /\ stored[f] \in Absent..MaxChunks
          /\ UNCHANGED <<platform, size, webVars, recordVars, readerVars>>
      BY <1>1, <1>2, <1>6 DEF CloseUpload
    <2>. QED  BY <2>1, <1>1, FileStep
  <1>7. CASE UploadThrows(f)
    <2>1. PICK page \in {"error", "errorWithOK"} : reply' = [reply EXCEPT ![f] = page]
      BY <1>7 DEF UploadThrows
    <2>2. /\ upload[f] \in {"received", "writing"} /\ upload' = [upload EXCEPT ![f] = "failed"]
          /\ stored' = [stored EXCEPT ![f] = stored[f]] /\ stored[f] \in Absent..MaxChunks
          /\ UNCHANGED <<platform, size, webVars, recordVars, readerVars>>
      BY <1>1, <1>2, <1>7 DEF UploadThrows
    <2>. QED  BY <2>1, <2>2, <1>1, FileStep
  <1>. QED  BY <1>4, <1>5, <1>6, <1>7 DEF FileClient

-----------------------------------------------------------------------------
(* The web client.                                                         *)

\* A step of a form that stays at its file: it goes on to add, to the page or to an
\* error, and an Add that threw may still be on its way.
LEMMA GotoKeeps ==
    ASSUME Inv, NEW r \in Requests, NEW w \in {"adding", "page", "error"}, GotoWeb(r, w),
           wpc[r] # "error",
           w = "adding" => /\ at[r] <= PerRequest /\ size[<<r, at[r]>>] # 0
                           /\ Passes(<<r, at[r]>>),
           w = "page" => at[r] > PerRequest /\ \A i \in 1..PerRequest : told[<<r, i>>] # "null",
           late' \subseteq Files, \A f \in late' : f \notin late => Passes(f),
           \A f \in late' : f \notin late => f = Current(r) /\ w = "error",
           UNCHANGED <<platform, size, at, told, fileVars, records, readerVars>>
    PROVE  Inv'
  <1>t. TypeOK /\ FileInv /\ RecordInv /\ FormInv /\ DownloadInv
    BY DEF Inv
  <1>1. /\ platform' = platform /\ size' = size /\ at' = at /\ told' = told
        /\ upload' = upload /\ stored' = stored /\ reply' = reply
        /\ records' = records /\ target' = target /\ pos' = pos /\ got' = got
    BY DEF fileVars, readerVars
  <1>2. wpc' = [wpc EXCEPT ![r] = w]
    BY DEF GotoWeb
  <1>3. wpc \in [Requests -> {"next", "posting", "adding", "page", "error"}]
    BY <1>t DEF TypeOK
  <1>4. wpc' \in [Requests -> {"next", "posting", "adding", "page", "error"}] /\ wpc'[r] = w
        /\ \A q \in Requests : q # r => wpc'[q] = wpc[q]
    BY <1>2, <1>3
  <1>5. TypeOK'
    BY <1>1, <1>4, <1>t DEF TypeOK
  <1>6. FileInv' /\ RecordInv' /\ DownloadInv'
    BY <1>1, <1>t DEF FileInv, RecordInv, DownloadInv, Passes, Misread
  <1>7. FormInv'
    <2>. SUFFICES ASSUME NEW q \in Requests
                  PROVE  /\ wpc'[q] \in {"posting", "adding"} => at[q] <= PerRequest /\ size[<<q, at[q]>>] # 0
                         /\ wpc'[q] = "adding" => Passes(<<q, at[q]>>)
                         /\ wpc'[q] = "page" =>
                              at[q] > PerRequest /\ \A i \in 1..PerRequest : told[<<q, i>>] # "null"
                         /\ \A i \in 1..PerRequest :
                              /\ i < at[q] => Told(<<q, i>>)'
                              /\ i >= at[q] => told[<<q, i>>] = "nothing"
                              /\ i > at[q] => upload[<<q, i>>] = "none"
                              /\ i = at[q] /\ wpc'[q] = "next" => upload[<<q, i>>] = "none"
                              /\ i >= at[q] /\ wpc'[q] # "error" => <<q, i>> \notin late'
      BY <1>1 DEF FormInv, Passes
    <2>1. ASSUME NEW i \in 1..PerRequest
          PROVE  /\ i < at[q] => Told(<<q, i>>)'
                 /\ i >= at[q] /\ wpc'[q] # "error" => <<q, i>> \notin late'
      <3>1. <<q, i>> \in late' /\ <<q, i>> \notin late => q = r /\ i = at[r] /\ w = "error"
        BY DEF Current
      <3>2. i < at[q] => i # at[q]
        BY <1>t DEF TypeOK
      <3>3. i < at[q] => Told(<<q, i>>)
        BY <1>t DEF FormInv
      <3>4. i >= at[q] /\ wpc[q] # "error" => <<q, i>> \notin late
        BY <1>t DEF FormInv
      <3>5. wpc[q] = "error" => q # r
        OBVIOUS
      <3>6. i < at[q] => Told(<<q, i>>)'
        BY <3>1, <3>2, <3>3, <1>1 DEF Told
      <3>7. i >= at[q] /\ wpc'[q] # "error" => <<q, i>> \notin late'
        BY <3>1, <3>4, <3>5, <1>4
      <3>. QED  BY <3>6, <3>7
    <2>2. CASE q = r
      BY <2>1, <2>2, <1>4, <1>t DEF FormInv
    <2>3. CASE q # r
      BY <2>1, <2>3, <1>4, <1>t DEF FormInv
    <2>. QED  BY <2>2, <2>3
  <1>. QED  BY <1>5, <1>6, <1>7 DEF Inv

\* A step of a form that settles its file and goes to the next one.
LEMMA TellKeeps ==
    ASSUME Inv, NEW r \in Requests, wpc[r] \in {"posting", "adding"},
           NEW what \in {"ok", "failed", "null"}, Tell(r, what),
           records' \subseteq Files, late' \subseteq Files, records \subseteq records',
           \A f \in records' \cup late' : f \in records \cup late \/ Passes(f),
           what = "ok" => Current(r) \in records',
           what = "failed" => upload[Current(r)] = "failed" \/ reply[Current(r)] = "OK",
           \A f \in late' : f \notin late => f = Current(r) /\ what = "null",
           UNCHANGED <<platform, size, fileVars, readerVars>>
    PROVE  Inv'
  <1>k. PICK a, f : a = at[r] /\ f = <<r, a>>
    OBVIOUS
  <1>. USE <1>k
  <1>t. TypeOK /\ FileInv /\ RecordInv /\ FormInv /\ DownloadInv
    BY DEF Inv
  <1>1. /\ platform' = platform /\ size' = size
        /\ upload' = upload /\ stored' = stored /\ reply' = reply
        /\ target' = target /\ pos' = pos /\ got' = got
    BY DEF fileVars, readerVars
  <1>2. a <= PerRequest /\ size[f] # 0
    BY <1>t DEF FormInv
  <1>3. f \in Files /\ a \in 1..PerRequest /\ Current(r) = f
    BY <1>2, <1>t, CurrentIsFile DEF Current
  <1>4. /\ wpc' = [wpc EXCEPT ![r] = "next"] /\ at' = [at EXCEPT ![r] = a + 1]
        /\ told' = [told EXCEPT ![f] = what]
    BY <1>3 DEF Tell, GotoWeb
  <1>5. /\ wpc \in [Requests -> {"next", "posting", "adding", "page", "error"}]
        /\ at \in [Requests -> 1..PerRequest + 1] /\ told \in [Files -> {"nothing", "ok", "failed", "null"}]
    BY <1>t DEF TypeOK
  <1>6. a + 1 \in 1..(PerRequest + 1)
    BY <1>3, Bounds
  <1>7. /\ wpc'[r] = "next" /\ at'[r] = a + 1 /\ told'[f] = what
        /\ \A q \in Requests : q # r => wpc'[q] = wpc[q] /\ at'[q] = at[q]
        /\ \A g \in Files : g # f => told'[g] = told[g]
    BY <1>3, <1>4, <1>5, <1>6
  <1>8. TypeOK'
    <2>1. /\ wpc' \in [Requests -> {"next", "posting", "adding", "page", "error"}]
          /\ at' \in [Requests -> 1..(PerRequest + 1)] /\ told' \in [Files -> {"nothing", "ok", "failed", "null"}]
      BY <1>4, <1>5, <1>6
    <2>. QED  BY <2>1, <1>1, <1>t DEF TypeOK
  <1>9. FileInv' /\ RecordInv' /\ DownloadInv'
    BY <1>1, <1>t DEF FileInv, RecordInv, DownloadInv, Passes, Misread
  <1>10. FormInv'
    <2>. SUFFICES ASSUME NEW q \in Requests
                  PROVE  /\ wpc'[q] \in {"posting", "adding"} => at'[q] <= PerRequest /\ size[<<q, at'[q]>>] # 0
                         /\ wpc'[q] = "adding" => Passes(<<q, at'[q]>>)
                         /\ wpc'[q] = "page" =>
                              at'[q] > PerRequest /\ \A i \in 1..PerRequest : told'[<<q, i>>] # "null"
                         /\ \A i \in 1..PerRequest :
                              /\ i < at'[q] => Told(<<q, i>>)'
                              /\ i >= at'[q] => told'[<<q, i>>] = "nothing"
                              /\ i > at'[q] => upload[<<q, i>>] = "none"
                              /\ i = at'[q] /\ wpc'[q] = "next" => upload[<<q, i>>] = "none"
                              /\ i >= at'[q] /\ wpc'[q] # "error" => <<q, i>> \notin late'
      BY <1>1 DEF FormInv, Passes
    <2>1. ASSUME NEW i \in 1..PerRequest, <<q, i>> # f
          PROVE  /\ told'[<<q, i>>] = told[<<q, i>>]
                 /\ Told(<<q, i>>) => Told(<<q, i>>)'
                 /\ <<q, i>> \notin late => <<q, i>> \notin late'
      <3>1. told'[<<q, i>>] = told[<<q, i>>]
        BY <2>1, <1>7, FilesArePairs
      <3>2. <<q, i>> \notin late => <<q, i>> \notin late'
        BY <2>1, <1>3
      <3>. QED  BY <3>1, <3>2, <1>1 DEF Told
    <2>2. CASE q # r
      <3>1. \A i \in 1..PerRequest : <<q, i>> # f
        BY <2>2
      <3>. QED  BY <2>1, <2>2, <3>1, <1>7, <1>t DEF FormInv
    <2>3. CASE q = r
      <3>1. Told(f)'
        <4>1. f \notin late
          BY <1>3, <1>t DEF FormInv
        <4>. QED  BY <4>1, <1>1, <1>2, <1>3, <1>7 DEF Told
      <3>2. ASSUME NEW i \in 1..PerRequest
            PROVE  /\ i < a + 1 => Told(<<q, i>>)'
                   /\ i >= a + 1 => /\ told'[<<q, i>>] = "nothing" /\ upload[<<q, i>>] = "none"
                                    /\ <<q, i>> \notin late'
        <4>1. CASE i = a
          BY <4>1, <2>3, <3>1, <1>3
        <4>2. CASE i # a
          <5>1. <<q, i>> # f
            BY <4>2
          <5>2. (i < a + 1 => i < at[r]) /\ (i >= a + 1 => i >= at[r] /\ i > at[r])
            BY <4>2, <1>3
          <5>. QED  BY <5>1, <5>2, <2>1, <2>3, <1>t DEF FormInv
        <4>. QED  BY <4>1, <4>2
      <3>3. \A i \in 1..PerRequest : i > a + 1 => i >= a + 1
        BY <1>3
      <3>. QED  BY <2>3, <3>2, <3>3, <1>7, <1>3
    <2>. QED  BY <2>2, <2>3
  <1>. QED  BY <1>8, <1>9, <1>10 DEF Inv

LEMMA NextFileKeeps ==
    ASSUME Inv, NEW r \in Requests, NextFile(r)
    PROVE  Inv'
  <1>k. PICK a, f : a = at[r] /\ f = <<r, a>>
    OBVIOUS
  <1>. USE <1>k
  <1>t. TypeOK /\ FileInv /\ RecordInv /\ FormInv /\ DownloadInv
    BY DEF Inv
  <1>1. /\ platform' = platform /\ size' = size /\ told' = told /\ stored' = stored /\ reply' = reply
        /\ records' = records /\ late' = late /\ target' = target /\ pos' = pos /\ got' = got
        /\ wpc[r] = "next" /\ a <= PerRequest
    BY DEF NextFile, recordVars, readerVars, WebAt
  <1>2. f \in Files /\ a \in 1..PerRequest /\ Current(r) = f
    BY <1>1, <1>t, CurrentIsFile DEF Current
  <1>3. told[f] = "nothing" /\ upload[f] = "none"
    BY <1>1, <1>2, <1>t DEF FormInv
  <1>4. /\ wpc \in [Requests -> {"next", "posting", "adding", "page", "error"}]
        /\ at \in [Requests -> 1..PerRequest + 1]
        /\ upload \in [Files -> {"none", "received", "writing", "stored", "failed"}]
        /\ a + 1 \in 1..(PerRequest + 1)
    BY <1>2, <1>t, Bounds DEF TypeOK
  <1>5. CASE size[f] = 0
    <2>1. at' = [at EXCEPT ![r] = a + 1] /\ wpc' = wpc /\ upload' = upload
      BY <1>2, <1>5 DEF NextFile
    <2>2. /\ at' \in [Requests -> 1..(PerRequest + 1)] /\ at'[r] = a + 1
          /\ \A q \in Requests : q # r => at'[q] = at[q]
      BY <2>1, <1>4
    <2>3. TypeOK' /\ FileInv' /\ RecordInv' /\ DownloadInv'
      BY <2>1, <2>2, <1>1, <1>t DEF TypeOK, FileInv, RecordInv, DownloadInv, Passes, Misread
    <2>4. FormInv'
      <3>. SUFFICES ASSUME NEW q \in Requests
                    PROVE  /\ wpc[q] \in {"posting", "adding"} => at'[q] <= PerRequest /\ size[<<q, at'[q]>>] # 0
                           /\ wpc[q] = "adding" => Passes(<<q, at'[q]>>)
                           /\ wpc[q] = "page" =>
                                at'[q] > PerRequest /\ \A i \in 1..PerRequest : told[<<q, i>>] # "null"
                           /\ \A i \in 1..PerRequest :
                                /\ i < at'[q] => Told(<<q, i>>)
                                /\ i >= at'[q] => told[<<q, i>>] = "nothing"
                                /\ i > at'[q] => upload[<<q, i>>] = "none"
                                /\ i = at'[q] /\ wpc[q] = "next" => upload[<<q, i>>] = "none"
                                /\ i >= at'[q] /\ wpc[q] # "error" => <<q, i>> \notin late
        BY <2>1, <1>1 DEF FormInv, Told, Passes
      <3>1. CASE q # r
        BY <3>1, <2>2, <1>t DEF FormInv
      <3>2. CASE q = r
        <4>1. Told(f)
          <5>1. f \notin late
            BY <1>1, <1>2, <1>t DEF FormInv
          <5>. QED  BY <5>1, <1>3, <1>5 DEF Told
        <4>2. ASSUME NEW i \in 1..PerRequest
              PROVE  /\ i < a + 1 => Told(<<q, i>>)
                     /\ i >= a + 1 => /\ told[<<q, i>>] = "nothing" /\ upload[<<q, i>>] = "none"
                                      /\ <<q, i>> \notin late
          <5>1. CASE i = a
            BY <5>1, <3>2, <4>1, <1>2
          <5>2. CASE i # a
            <6>1. (i < a + 1 => i < at[r]) /\ (i >= a + 1 => i >= at[r] /\ i > at[r])
              BY <5>2, <1>2
            <6>. QED  BY <6>1, <3>2, <1>1, <1>t DEF FormInv
          <5>. QED  BY <5>1, <5>2
        <4>3. \A i \in 1..PerRequest : i > a + 1 => i >= a + 1
          BY <1>2
        <4>. QED  BY <3>2, <4>2, <4>3, <2>2, <1>1
      <3>. QED  BY <3>1, <3>2
    <2>. QED  BY <2>3, <2>4 DEF Inv
  <1>6. CASE size[f] # 0
    <2>1. /\ wpc' = [wpc EXCEPT ![r] = "posting"] /\ upload' = [upload EXCEPT ![f] = "received"]
          /\ at' = at
      BY <1>2, <1>6 DEF NextFile, GotoWeb
    <2>2. /\ wpc'[r] = "posting" /\ \A q \in Requests : q # r => wpc'[q] = wpc[q]
          /\ upload'[f] = "received" /\ \A g \in Files : g # f => upload'[g] = upload[g]
      BY <2>1, <1>2, <1>4
    <2>3. TypeOK'
      <3>1. /\ wpc' \in [Requests -> {"next", "posting", "adding", "page", "error"}]
            /\ upload' \in [Files -> {"none", "received", "writing", "stored", "failed"}]
        BY <2>1, <1>4
      <3>. QED  BY <2>1, <3>1, <1>1, <1>t DEF TypeOK
    <2>4. FileInv' /\ RecordInv'
      BY <2>2, <1>1, <1>3, <1>t DEF FileInv, RecordInv, Passes
    <2>5. DownloadInv'
      BY <1>1, <1>t DEF DownloadInv, Passes, Misread
    <2>6. FormInv'
      <3>. SUFFICES ASSUME NEW q \in Requests
                    PROVE  /\ wpc'[q] \in {"posting", "adding"} => at[q] <= PerRequest /\ size[<<q, at[q]>>] # 0
                           /\ wpc'[q] = "adding" => Passes(<<q, at[q]>>)
                           /\ wpc'[q] = "page" =>
                                at[q] > PerRequest /\ \A i \in 1..PerRequest : told[<<q, i>>] # "null"
                           /\ \A i \in 1..PerRequest :
                                /\ i < at[q] => Told(<<q, i>>)'
                                /\ i >= at[q] => told[<<q, i>>] = "nothing"
                                /\ i > at[q] => upload'[<<q, i>>] = "none"
                                /\ i = at[q] /\ wpc'[q] = "next" => upload'[<<q, i>>] = "none"
                                /\ i >= at[q] /\ wpc'[q] # "error" => <<q, i>> \notin late
        BY <2>1, <1>1 DEF FormInv, Passes
      <3>1. ASSUME NEW i \in 1..PerRequest, i < at[q]
            PROVE  Told(<<q, i>>)'
        <4>1. Told(<<q, i>>)
          BY <3>1, <1>t DEF FormInv
        <4>2. <<q, i>> \in Files /\ (upload[<<q, i>>] = "failed" => <<q, i>> # f)
          BY <1>3, FilesArePairs
        <4>. QED  BY <4>1, <4>2, <2>2, <1>1 DEF Told
      <3>2. CASE q # r
        <4>1. \A i \in 1..PerRequest : <<q, i>> # f /\ <<q, i>> \in Files
          BY <3>2, FilesArePairs
        <4>. QED  BY <3>1, <3>2, <4>1, <2>2, <1>t DEF FormInv
      <3>3. CASE q = r
        <4>1. \A i \in 1..PerRequest : i > a => <<q, i>> # f /\ <<q, i>> \in Files
          BY <1>2, FilesArePairs
        <4>. QED  BY <3>1, <3>3, <4>1, <2>2, <1>1, <1>6, <1>t DEF FormInv
      <3>. QED  BY <3>2, <3>3
    <2>. QED  BY <2>3, <2>4, <2>5, <2>6 DEF Inv
  <1>. QED  BY <1>5, <1>6

LEMMA WebKeeps ==
    ASSUME Inv, NEW r \in Requests, Web(r) \/ PostThrows(r) \/ AddThrows(r)
    PROVE  Inv'
  <1>t. TypeOK /\ FileInv /\ RecordInv /\ FormInv
    BY DEF Inv
  <1>1. records \subseteq Files /\ late \subseteq Files
    BY <1>t DEF TypeOK
  <1>2. wpc[r] \in {"posting", "adding"} =>
            at[r] <= PerRequest /\ size[<<r, at[r]>>] # 0 /\ Current(r) \in Files
    BY <1>t, CurrentIsFile DEF FormInv
  <1>3. wpc[r] = "adding" =>
            Passes(Current(r)) /\ (upload[Current(r)] = "failed" \/ reply[Current(r)] = "OK")
    BY <1>2, <1>t DEF FormInv, FileInv, Current, Passes
  <1>4. CASE NextFile(r)
    BY <1>4, NextFileKeeps
  <1>5. CASE ShowPage(r)
    <2>1. /\ wpc[r] = "next" /\ at[r] > PerRequest /\ late' = late
          /\ UNCHANGED <<platform, size, at, told, fileVars, records, readerVars>>
      BY <1>5 DEF ShowPage, WebAt, recordVars
    <2>2. CASE \E i \in 1..PerRequest : told[<<r, i>>] = "null"
      <3>1. GotoWeb(r, "error")
        BY <1>5, <2>2 DEF ShowPage
      <3>. QED  BY <3>1, <2>1, <1>1, GotoKeeps
    <2>3. CASE ~\E i \in 1..PerRequest : told[<<r, i>>] = "null"
      <3>1. GotoWeb(r, "page")
        BY <1>5, <2>3 DEF ShowPage
      <3>. QED  BY <3>1, <2>1, <2>3, <1>1, GotoKeeps
    <2>. QED  BY <2>2, <2>3
  <1>6. CASE PostReturns(r)
    <2>1. /\ wpc[r] = "posting" /\ reply[Current(r)] # "none"
          /\ records' = records /\ late' = late /\ UNCHANGED <<platform, size, fileVars, readerVars>>
      BY <1>6 DEF PostReturns, WebAt, recordVars
    <2>2. CASE Passes(Current(r))
      <3>1. GotoWeb(r, "adding") /\ UNCHANGED <<at, told>>
        BY <1>6, <2>2 DEF PostReturns
      <3>. QED  BY <2>1, <2>2, <3>1, <1>1, <1>2, GotoKeeps DEF Current
    <2>3. CASE ~Passes(Current(r))
      <3>1. Tell(r, "failed")
        BY <1>6, <2>3 DEF PostReturns
      <3>2. upload[Current(r)] = "failed"
        BY <2>1, <2>3, <1>2, <1>t DEF TypeOK, FileInv, Passes
      <3>. QED  BY <2>1, <3>1, <3>2, <1>1, TellKeeps
    <2>. QED  BY <2>2, <2>3
  <1>7. CASE AddReturns(r)
    <2>1. wpc[r] = "adding" /\ UNCHANGED <<platform, size, fileVars, readerVars>>
      BY <1>7 DEF AddReturns, WebAt
    <2>2. /\ records' \subseteq records \cup {Current(r)} /\ records \subseteq records'
          /\ \/ late' = late /\ Tell(r, "ok") /\ Current(r) \in records'
             \/ late' = late /\ Tell(r, "failed")
             \/ late' = late \cup {Current(r)} /\ Tell(r, "null")
      BY <1>7 DEF AddReturns
    <2>3. records' \subseteq Files /\ late' \subseteq Files
          /\ \A f \in records' \cup late' : f \in records \cup late \/ Passes(f)
      BY <2>1, <2>2, <1>1, <1>2, <1>3
    <2>4. CASE late' = late /\ Tell(r, "ok") /\ Current(r) \in records'
      BY <2>1, <2>2, <2>3, <2>4, TellKeeps
    <2>5. CASE late' = late /\ Tell(r, "failed")
      BY <2>1, <2>2, <2>3, <2>5, <1>3, TellKeeps
    <2>6. CASE late' = late \cup {Current(r)} /\ Tell(r, "null")
      BY <2>1, <2>2, <2>3, <2>6, TellKeeps
    <2>. QED  BY <2>2, <2>4, <2>5, <2>6
  <1>8. CASE PostThrows(r)
    BY <1>1, <1>8, GotoKeeps DEF PostThrows, WebAt, recordVars
  <1>9. CASE AddThrows(r)
    <2>1. /\ wpc[r] = "adding" /\ GotoWeb(r, "error") /\ late' \subseteq late \cup {Current(r)}
          /\ UNCHANGED <<platform, size, at, told, fileVars, records, readerVars>>
      BY <1>9 DEF AddThrows, WebAt
    <2>2. late' \subseteq Files /\ \A f \in late' : f \notin late => Passes(f)
      BY <2>1, <1>1, <1>2, <1>3
    <2>. QED  BY <2>1, <2>2, GotoKeeps
  <1>. QED  BY <1>4, <1>5, <1>6, <1>7, <1>8, <1>9 DEF Web

LEMMA RecordLateKeeps ==
    ASSUME Inv, NEW f \in Files, RecordLate(f)
    PROVE  Inv'
  <1>t. TypeOK /\ FileInv /\ RecordInv /\ FormInv /\ DownloadInv
    BY DEF Inv
  <1>1. /\ platform' = platform /\ size' = size /\ wpc' = wpc /\ at' = at /\ told' = told
        /\ upload' = upload /\ stored' = stored /\ reply' = reply
        /\ target' = target /\ pos' = pos /\ got' = got
    BY DEF RecordLate, webVars, fileVars, readerVars
  <1>2. f \in late /\ records' = records \cup {f} /\ late' = late \ {f}
    BY DEF RecordLate
  <1>3. TypeOK' /\ FileInv' /\ RecordInv' /\ DownloadInv'
    BY <1>1, <1>2, <1>t DEF TypeOK, FileInv, RecordInv, DownloadInv, Passes, Misread
  <1>4. \A g : (Told(g) => Told(g)') /\ (g \notin late => g \notin late')
    BY <1>1, <1>2 DEF Told
  <1>5. FormInv'
    <2>. SUFFICES ASSUME NEW q \in Requests, NEW i \in 1..PerRequest
                  PROVE  /\ i < at[q] => Told(<<q, i>>)'
                         /\ i >= at[q] /\ wpc[q] # "error" => <<q, i>> \notin late'
      BY <1>1, <1>t DEF FormInv, Passes
    <2>. QED  BY <1>4, <1>t DEF FormInv
  <1>. QED  BY <1>3, <1>5 DEF Inv

-----------------------------------------------------------------------------
(* Downloads.                                                              *)

LEMMA DownloadFrame ==
    ASSUME Inv, UNCHANGED <<platform, size, webVars, fileVars, recordVars>>,
           target' \in [Readers -> Files \cup {Nobody}], pos' \in [Readers -> 0..MaxChunks],
           got' \in [Readers ->
             {"nothing", "notFound", "refusedByUpload", "refusedByDownload", "whole", "torn"}],
           DownloadInv'
    PROVE  Inv'
  <1>t. TypeOK /\ FileInv /\ RecordInv /\ FormInv
    BY DEF Inv
  <1>1. /\ platform' = platform /\ size' = size /\ wpc' = wpc /\ at' = at /\ told' = told
        /\ upload' = upload /\ stored' = stored /\ reply' = reply /\ records' = records /\ late' = late
    BY DEF webVars, fileVars, recordVars
  <1>2. TypeOK' /\ FileInv' /\ RecordInv'
    BY <1>1, <1>t DEF TypeOK, FileInv, RecordInv, Passes
  <1>3. FormInv'
    BY <1>1, <1>t DEF FormInv, Told, Passes
  <1>. QED  BY <1>2, <1>3 DEF Inv

\* A file whose upload was answered with an OK, true or misread, is not written to; if
\* it is not misread it is there, whole.
LEMMA PassedFile ==
    ASSUME Inv, NEW f \in Files, Passes(f)
    PROVE  /\ upload[f] # "writing"
           /\ ~Misread(f) => stored[f] = size[f] /\ stored[f] # Absent
           /\ ~Misread(f) /\ platform # "Linux" => Exists(f)
  <1>1. upload[f] # "writing" /\ (~Misread(f) => stored[f] = size[f])
    BY DEF Inv, FileInv, Passes, Misread
  <1>2. size[f] # Absent /\ platform \in {"Windows", "Linux"}
    BY Bounds DEF Inv, TypeOK
  <1>. QED  BY <1>1, <1>2 DEF Exists

LEMMA OpenDownloadKeeps ==
    ASSUME Inv, NEW d \in Readers, NEW f \in Files, OpenDownload(d, f)
    PROVE  Inv'
  <1>t. TypeOK /\ RecordInv /\ DownloadInv
    BY DEF Inv
  <1>1. /\ target[d] = Nobody /\ Passes(f)
        /\ UNCHANGED <<platform, size, webVars, fileVars, recordVars>> /\ pos' = pos
        /\ target' = [target EXCEPT ![d] = f]
    BY <1>t DEF OpenDownload, RecordInv
  <1>2. platform' = platform /\ reply' = reply
    BY <1>1 DEF fileVars
  <1>3. PICK what : /\ got' = [got EXCEPT ![d] = what]
                    /\ what \in {"nothing", "notFound", "refusedByDownload"}
                    /\ what = "notFound" => platform = "Linux" \/ Misread(f)
    <2>1. got[d] = "nothing"
      BY <1>1, <1>t DEF DownloadInv
    <2>2. upload[f] # "writing" /\ (~Exists(f) => platform = "Linux" \/ Misread(f))
      BY <1>1, PassedFile
    <2>3. CASE ~Exists(f)
      <3>1. got' = [got EXCEPT ![d] = "notFound"]
        BY <2>3 DEF OpenDownload
      <3>. QED  BY <2>2, <2>3, <3>1
    <2>4. CASE Exists(f)
      <3>1. CASE \E e \in Readers : Reading(e) /\ target[e] = f
        BY <2>2, <2>4, <3>1 DEF OpenDownload
      <3>2. CASE ~\E e \in Readers : Reading(e) /\ target[e] = f
        <4>1. got' = [got EXCEPT ![d] = got[d]]
          BY <2>2, <2>4, <3>2 DEF OpenDownload
        <4>. QED  BY <2>1, <4>1
      <3>. QED  BY <3>1, <3>2
    <2>. QED  BY <2>3, <2>4
  <1>4. /\ target \in [Readers -> Files \cup {Nobody}] /\ pos \in [Readers -> 0..MaxChunks]
        /\ got \in [Readers ->
             {"nothing", "notFound", "refusedByUpload", "refusedByDownload", "whole", "torn"}]
    BY <1>t DEF TypeOK
  <1>5. /\ target' \in [Readers -> Files \cup {Nobody}] /\ target'[d] = f
        /\ got' \in [Readers ->
             {"nothing", "notFound", "refusedByUpload", "refusedByDownload", "whole", "torn"}]
        /\ got'[d] = what
        /\ \A e \in Readers : e # d => target'[e] = target[e] /\ got'[e] = got[e]
    BY <1>1, <1>3, <1>4
  <1>6. f # Nobody
    BY DEF Files, Nobody
  <1>7. DownloadInv'
    <2>. SUFFICES ASSUME NEW e \in Readers
                  PROVE  /\ target'[e] # Nobody => Passes(target'[e])
                         /\ got'[e] # "nothing" => target'[e] # Nobody
                         /\ got'[e] # "refusedByUpload"
                         /\ got'[e] = "torn" => Misread(target'[e])
                         /\ got'[e] = "notFound" => platform = "Linux" \/ Misread(target'[e])
      BY <1>2 DEF DownloadInv, Passes, Misread
    <2>1. CASE e = d
      BY <2>1, <1>1, <1>3, <1>5, <1>6
    <2>2. CASE e # d
      BY <2>2, <1>5, <1>t DEF DownloadInv
    <2>. QED  BY <2>1, <2>2
  <1>. QED  BY <1>1, <1>4, <1>5, <1>7, DownloadFrame

LEMMA ReaderKeeps ==
    ASSUME Inv, NEW d \in Readers, ReadChunk(d) \/ CloseDownload(d)
    PROVE  Inv'
  <1>k. PICK f : f = target[d]
    OBVIOUS
  <1>. USE <1>k
  <1>t. TypeOK /\ DownloadInv
    BY DEF Inv
  <1>1. /\ Reading(d) /\ UNCHANGED <<platform, size, webVars, fileVars, recordVars, target>>
    BY DEF ReadChunk, CloseDownload
  <1>2. platform' = platform /\ reply' = reply
    BY <1>1 DEF fileVars
  <1>3. /\ target \in [Readers -> Files \cup {Nobody}] /\ pos \in [Readers -> 0..MaxChunks]
        /\ got \in [Readers ->
             {"nothing", "notFound", "refusedByUpload", "refusedByDownload", "whole", "torn"}]
    BY <1>t DEF TypeOK
  <1>4. f \in Files /\ Passes(f) /\ f # Nobody
    BY <1>1, <1>3, <1>t DEF DownloadInv, Reading
  <1>5. stored[f] \in Absent..MaxChunks
    BY <1>4, <1>t DEF TypeOK
  <1>6. CASE ReadChunk(d)
    <2>1. pos[d] < stored[f] /\ pos' = [pos EXCEPT ![d] = pos[d] + 1] /\ got' = got
      BY <1>6 DEF ReadChunk
    <2>2. pos[d] + 1 \in 0..MaxChunks
      BY <1>3, <1>5, <2>1, Bounds
    <2>3. pos' \in [Readers -> 0..MaxChunks]
      BY <1>3, <2>1, <2>2
    <2>4. DownloadInv'
      BY <1>1, <1>2, <2>1, <1>t DEF DownloadInv, Passes, Misread
    <2>. QED  BY <1>1, <1>3, <2>1, <2>3, <2>4, DownloadFrame
  <1>7. CASE CloseDownload(d)
    <2>1. PICK what \in {"whole", "torn"} :
              /\ got' = [got EXCEPT ![d] = what] /\ pos' = pos
              /\ what = "torn" => stored[f] # size[f]
      BY <1>7 DEF CloseDownload
    <2>2. what = "torn" => Misread(f)
      BY <2>1, <1>4, PassedFile
    <2>3. /\ got' \in [Readers ->
               {"nothing", "notFound", "refusedByUpload", "refusedByDownload", "whole", "torn"}]
          /\ got'[d] = what
          /\ \A e \in Readers : e # d => got'[e] = got[e]
      BY <1>3, <2>1
    <2>4. DownloadInv'
      <3>. SUFFICES ASSUME NEW e \in Readers
                    PROVE  /\ target[e] # Nobody => Passes(target[e])
                           /\ got'[e] # "nothing" => target[e] # Nobody
                           /\ got'[e] # "refusedByUpload"
                           /\ got'[e] = "torn" => Misread(target[e])
                           /\ got'[e] = "notFound" => platform = "Linux" \/ Misread(target[e])
        BY <1>1, <1>2 DEF DownloadInv, Passes, Misread
      <3>1. CASE e = d
        BY <3>1, <1>4, <2>2, <2>3
      <3>2. CASE e # d
        BY <3>2, <2>3, <1>t DEF DownloadInv
      <3>. QED  BY <3>1, <3>2
    <2>. QED  BY <1>1, <1>3, <2>1, <2>3, <2>4, DownloadFrame
  <1>. QED  BY <1>6, <1>7

-----------------------------------------------------------------------------
(* The theorems.                                                           *)

LEMMA NextInv == Inv /\ [Next]_vars => Inv'
  <1>. SUFFICES ASSUME Inv, [Next]_vars PROVE Inv'
    OBVIOUS
  <1>1. CASE \E r \in Requests : Web(r) \/ PostThrows(r) \/ AddThrows(r)
    BY <1>1, WebKeeps
  <1>2. CASE \E f \in Files : FileClient(f) \/ UploadThrows(f)
    BY <1>2, FileClientKeeps
  <1>3. CASE \E f \in Files : RecordLate(f)
    BY <1>3, RecordLateKeeps
  <1>4. CASE \E d \in Readers : ReadChunk(d) \/ CloseDownload(d)
    BY <1>4, ReaderKeeps
  <1>5. CASE \E d \in Readers : \E f \in Files : OpenDownload(d, f)
    BY <1>5, OpenDownloadKeeps
  <1>6. CASE UNCHANGED vars
    <2>1. UNCHANGED <<platform, size, webVars, fileVars, recordVars>>
          /\ target' = target /\ pos' = pos /\ got' = got
      BY <1>6 DEF vars, readerVars
    <2>2. DownloadInv'
      BY <2>1 DEF Inv, DownloadInv, Passes, Misread, fileVars
    <2>. QED  BY <2>1, <2>2, DownloadFrame DEF Inv, TypeOK
  <1>. QED  BY <1>1, <1>2, <1>3, <1>4, <1>5, <1>6 DEF Next

LEMMA Always == Spec => []Inv
  <1>. QED  BY InitInv, NextInv, PTL DEF Spec

\* For any number of forms, files and pieces: UploadFiles never leaves its form, and no
\* file grows past what was posted.
THEOREM TypeCorrect == Spec => []TypeOK
  <1>1. Inv => TypeOK
    BY DEF Inv
  <1>. QED  BY <1>1, Always, PTL

\* A record, present or still on its way, has its whole file: the file client answers OK
\* after it has closed the file, and only then is the record added; or the answer was an
\* error page in which the web client found an OK.
THEOREM RecordsHaveFiles == Spec => []RecordHasFile
  <1>1. Inv => RecordHasFile
    <2>1. TypeOK => \A f \in records \cup late : f \in Files
      BY DEF TypeOK
    <2>. QED  BY <2>1 DEF Inv, RecordInv, FileInv, RecordHasFile, Passes, Misread
  <1>. QED  BY <1>1, Always, PTL

\* A download by a record's guid never meets the upload of its file, and only a misread
\* answer makes it torn, or missing on Windows.
THEOREM DownloadsAreWhole == Spec => []DownloadsWhole
  <1>1. Inv => DownloadsWhole
    BY DEF Inv, DownloadInv, DownloadsWhole
  <1>. QED  BY <1>1, Always, PTL

\* A page has the right line for every file of its form.
THEOREM PagesAreComplete == Spec => []PageIsComplete
  <1>1. Inv => PageIsComplete
    <2>. SUFFICES ASSUME Inv, NEW f \in Files, wpc[f[1]] = "page"
                  PROVE  Told(f) /\ told[f] \in {"nothing", "ok", "failed"}
      BY DEF PageIsComplete, Told
    <2>1. PICK r \in Requests, i \in 1..PerRequest : f = <<r, i>>
      BY DEF Files
    <2>2. wpc[r] = "page" /\ at[r] > PerRequest
      BY <2>1 DEF Inv, FormInv
    <2>3. i < at[r]
      BY <2>2, Bounds DEF Inv, TypeOK
    <2>4. told[f] # "null" /\ Told(f)
      BY <2>1, <2>2, <2>3 DEF Inv, FormInv
    <2>. QED  BY <2>4 DEF Inv, TypeOK
  <1>. QED  BY <1>1, Always, PTL

-----------------------------------------------------------------------------
(* No form waits in vain: what FormEnds rests on.                          *)

\* The file client is at work on a file from the post on, and ends with an answer.
WorkInv ==
    /\ \A f \in Files : /\ upload[f] \in {"stored", "failed"} => reply[f] # "none"
                        /\ upload[f] = "writing" => stored[f] # Absent
    /\ \A r \in Requests : WebAt(r, "posting") => upload[Current(r)] # "none"

\* A form that waits for the file client has its answer, or a file that the file client
\* has not opened yet, or one of which a piece, or the end, is still to be written.
FormIsOwed == \A r \in Requests : WebAt(r, "posting") =>
    LET f == Current(r) IN
    \/ reply[f] # "none"
    \/ upload[f] = "received"
    \/ upload[f] = "writing" /\ stored[f] \in 0..size[f]

\* A step that leaves the file client alone and lets no further form wait.
LEMMA WorkFrame ==
    ASSUME WorkInv, UNCHANGED fileVars, NEW r \in Requests,
           \A q \in Requests : q # r => wpc'[q] = wpc[q] /\ at'[q] = at[q],
           wpc'[r] # "posting"
    PROVE  WorkInv'
  <1>1. upload' = upload /\ stored' = stored /\ reply' = reply
    BY DEF fileVars
  <1>2. ASSUME NEW q \in Requests, wpc'[q] = "posting"
        PROVE  upload[<<q, at'[q]>>] # "none"
    BY <1>2 DEF WorkInv, WebAt, Current
  <1>. QED  BY <1>1, <1>2 DEF WorkInv, WebAt, Current

LEMMA NextWork == Inv /\ WorkInv /\ [Next]_vars => WorkInv'
  <1>. SUFFICES ASSUME Inv, WorkInv, [Next]_vars PROVE WorkInv'
    OBVIOUS
  <1>t. /\ wpc \in [Requests -> {"next", "posting", "adding", "page", "error"}]
        /\ at \in [Requests -> 1..PerRequest + 1]
        /\ upload \in [Files -> {"none", "received", "writing", "stored", "failed"}]
        /\ stored \in [Files -> Absent..MaxChunks] /\ reply \in [Files -> {"none", "OK", "error", "errorWithOK"}]
    BY DEF Inv, TypeOK
  <1>1. ASSUME NEW r \in Requests, NextFile(r)
        PROVE  WorkInv'
    <2>1. stored' = stored /\ reply' = reply /\ Current(r) \in Files /\ wpc[r] = "next"
      BY <1>1, CurrentIsFile DEF NextFile, WebAt, Inv
    <2>2. CASE size[Current(r)] = 0
      BY <1>1, <1>t, <2>1, <2>2, WorkFrame DEF NextFile, fileVars
    <2>3. CASE size[Current(r)] # 0
      <3>1. /\ at' = at /\ wpc' = [wpc EXCEPT ![r] = "posting"]
            /\ upload' = [upload EXCEPT ![Current(r)] = "received"]
        BY <1>1, <2>3 DEF NextFile, GotoWeb
      <3>2. upload'[Current(r)] = "received" /\ \A f \in Files : f # Current(r) => upload'[f] = upload[f]
        BY <3>1, <2>1, <1>t
      <3>3. \A f \in Files : /\ upload'[f] \in {"stored", "failed"} => reply[f] # "none"
                             /\ upload'[f] = "writing" => stored[f] # Absent
        BY <3>2 DEF WorkInv
      <3>4. ASSUME NEW q \in Requests, wpc'[q] = "posting"
            PROVE  upload'[<<q, at[q]>>] # "none"
        <4>1. CASE q = r
          BY <4>1, <3>2 DEF Current
        <4>2. CASE q # r
          <5>1. wpc[q] = "posting"
            BY <3>4, <4>2, <3>1, <1>t
          <5>2. Current(q) \in Files /\ upload[Current(q)] # "none"
            BY <5>1, CurrentIsFile DEF Inv, FormInv, WorkInv, WebAt
          <5>3. Current(q) # Current(r)
            BY <4>2 DEF Current
          <5>. QED  BY <5>2, <5>3, <3>2 DEF Current
        <4>. QED  BY <4>1, <4>2
      <3>. QED  BY <2>1, <3>1, <3>3, <3>4 DEF WorkInv, WebAt, Current
    <2>. QED  BY <2>2, <2>3
  <1>2. ASSUME NEW r \in Requests, ShowPage(r)
        PROVE  WorkInv'
    BY <1>2, <1>t, WorkFrame DEF ShowPage, GotoWeb
  <1>3. ASSUME NEW r \in Requests, PostReturns(r)
        PROVE  WorkInv'
    BY <1>3, <1>t, WorkFrame DEF PostReturns, GotoWeb, Tell
  <1>4. ASSUME NEW r \in Requests, PostThrows(r) \/ AddThrows(r)
        PROVE  WorkInv'
    BY <1>4, <1>t, WorkFrame DEF PostThrows, AddThrows, GotoWeb
  <1>5. ASSUME NEW r \in Requests, AddReturns(r)
        PROVE  WorkInv'
    BY <1>5, <1>t, WorkFrame DEF AddReturns, GotoWeb, Tell
  <1>6. ASSUME NEW f \in Files, FileClient(f) \/ UploadThrows(f)
        PROVE  WorkInv'
    <2>1. /\ wpc' = wpc /\ at' = at
          /\ \E u \in {"writing", "stored", "failed"} : upload' = [upload EXCEPT ![f] = u]
          /\ upload'[f] \in {"stored", "failed"} => reply'[f] # "none"
          /\ upload'[f] = "writing" => stored'[f] # Absent
      <3>1. CASE OpenUpload(f)
        BY <3>1, <1>t, Bounds DEF OpenUpload, webVars
      <3>2. CASE CopyChunk(f)
        <4>1. upload = [upload EXCEPT ![f] = "writing"]
          BY <3>2, <1>t DEF CopyChunk
        <4>2. stored'[f] = stored[f] + 1 /\ stored[f] \in Absent..MaxChunks
          BY <3>2, <1>t DEF CopyChunk
        <4>3. stored'[f] # Absent
          BY <4>2, Bounds
        <4>. QED  BY <3>2, <4>1, <4>3, <1>t DEF CopyChunk, webVars
      <3>3. CASE CloseUpload(f)
        BY <3>3, <1>t DEF CloseUpload, webVars
      <3>4. CASE UploadThrows(f)
        BY <3>4, <1>t DEF UploadThrows, webVars
      <3>. QED  BY <1>6, <3>1, <3>2, <3>3, <3>4 DEF FileClient
    <2>2. upload'[f] # "none"
      BY <2>1, <1>t
    <2>3. ASSUME NEW g \in Files, g # f
          PROVE  upload'[g] = upload[g] /\ stored'[g] = stored[g] /\ reply'[g] = reply[g]
      BY <1>6, <2>3, <1>t DEF FileClient, OpenUpload, CopyChunk, CloseUpload, UploadThrows
    <2>4. ASSUME NEW r \in Requests, wpc[r] = "posting"
          PROVE  upload'[<<r, at[r]>>] # "none"
      <3>1. Current(r) \in Files /\ upload[Current(r)] # "none"
        BY <2>4, CurrentIsFile DEF Inv, FormInv, WorkInv, WebAt
      <3>. QED  BY <3>1, <2>2, <2>3 DEF Current
    <2>5. \A g \in Files : /\ upload'[g] \in {"stored", "failed"} => reply'[g] # "none"
                           /\ upload'[g] = "writing" => stored'[g] # Absent
      BY <2>1, <2>3 DEF WorkInv
    <2>. QED  BY <2>1, <2>4, <2>5 DEF WorkInv, WebAt, Current
  <1>7. CASE UNCHANGED <<webVars, fileVars>>
    BY <1>7 DEF WorkInv, webVars, fileVars, WebAt, Current
  <1>8. CASE \E f \in Files : RecordLate(f)
    BY <1>7, <1>8 DEF RecordLate
  <1>9. CASE \E d \in Readers : ReadChunk(d) \/ CloseDownload(d) \/ \E f \in Files : OpenDownload(d, f)
    BY <1>7, <1>9 DEF ReadChunk, CloseDownload, OpenDownload
  <1>10. CASE UNCHANGED vars
    BY <1>7, <1>10 DEF vars
  <1>. QED  BY <1>1, <1>2, <1>3, <1>4, <1>5, <1>6, <1>8, <1>9, <1>10 DEF Next, Web

\* A form that has posted a file is never left waiting: the file client has answered, or
\* has a step to take that brings the answer nearer.  Of FormEnds this is the part that
\* holds in every state; the rest is that the two servers run.
THEOREM FormsAreOwed == Spec => []FormIsOwed
  <1>1. Init => WorkInv
    BY DEF Init, WorkInv, WebAt
  <1>2. Inv /\ WorkInv => FormIsOwed
    <2>. SUFFICES ASSUME Inv, WorkInv, NEW r \in Requests, WebAt(r, "posting"),
                         reply[Current(r)] = "none", upload[Current(r)] # "received"
                  PROVE  upload[Current(r)] = "writing" /\ stored[Current(r)] \in 0..size[Current(r)]
      BY DEF FormIsOwed
    <2>1. Current(r) \in Files
      BY CurrentIsFile DEF Inv, FormInv, WebAt
    <2>2. upload[Current(r)] \notin {"none", "stored", "failed"}
      BY <2>1 DEF WorkInv
    <2>3. upload[Current(r)] = "writing" /\ stored[Current(r)] # Absent
      BY <2>1, <2>2 DEF Inv, TypeOK, WorkInv
    <2>4. /\ stored[Current(r)] \in Absent..MaxChunks /\ stored[Current(r)] <= size[Current(r)]
          /\ size[Current(r)] \in 0..MaxChunks
      BY <2>1 DEF Inv, TypeOK
    <2>. QED  BY <2>3, <2>4, Bounds
  <1>. QED  BY <1>1, <1>2, NextWork, Always, PTL DEF Spec

=============================================================================

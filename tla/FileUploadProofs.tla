--------------------------- MODULE FileUploadProofs ---------------------------
(***************************************************************************)
(* Theorems about uploads, for any number of calls, names, files and       *)
(* retries.                                                                *)
(***************************************************************************)
EXTENDS FileUpload, TLAPS

USE DEF Finish, Keep

-----------------------------------------------------------------------------
(* What a step does to one file.                                           *)

\* Only acknowledged uploads are rolled back, and only by a call that fails; what
\* was sent once and not given up is not astray.
UndoInv(f, phase, a) ==
    /\ f.undo # "no" =>
          f.put = "acked" /\ phase \in {"rollback", "done"} /\ a # "success"
    /\ f.undo = "no" => f.deletes = 0
    /\ f.executed <= f.deletes
    /\ f.put # "failed" /\ f.puts = 1 => f.astray = 0

Placed(f) == f.put \in {"landed", "acked"}

\* What it needs to have been placed, and what of it a rollback has deleted.
Kept(f, g) ==
    /\ g.key = f.key /\ g.puts = f.puts /\ g.executed = f.executed
    /\ Placed(g) => Placed(f)

\* A call that goes on, or ends, keeps what holds of its other files.
LEMMA UndoLater ==
    ASSUME NEW f, NEW phase, NEW a, NEW phase2, NEW a2, UndoInv(f, phase, a),
           phase \in {"rollback", "done"} => phase2 \in {"rollback", "done"},
           a2 = "success" => a = "success" \/ phase \notin {"rollback", "done"}
    PROVE  UndoInv(f, phase2, a2)
  BY DEF UndoInv

LEMMA FileLands ==
    ASSUME NEW f \in File, NEW phase, NEW a, UndoInv(f, phase, a), f.put = "sent",
           NEW g, g = [f EXCEPT !.put = "landed"]
    PROVE  /\ g \in File /\ UndoInv(g, phase, a)
           /\ g.key = f.key /\ g.puts = f.puts /\ g.executed = f.executed
           /\ ~Deleted(f)
  BY DEF File, UndoInv, Deleted

LEMMA FileAcked ==
    ASSUME NEW f \in File, NEW phase, NEW a, UndoInv(f, phase, a), f.put = "landed",
           NEW g, g = [f EXCEPT !.put = "acked"]
    PROVE  /\ g \in File /\ UndoInv(g, phase, a) /\ Kept(f, g)
           /\ g.put = "acked" /\ f.undo = "no" /\ g.undo = "no"
  BY DEF File, UndoInv, Kept, Placed

LEMMA FileFails ==
    ASSUME NEW f \in File, NEW phase, NEW a, UndoInv(f, phase, a),
           f.put \in {"sent", "landed"},
           NEW g, g = GivenUp(f)
    PROVE  /\ g \in File /\ Kept(f, g) /\ g.undo = "no"
           /\ \A phase2, a2 : UndoInv(g, phase2, a2)
<1>1. AstrayAfter(f) \in Nat
  BY DEF AstrayAfter, File
<1>2. ASSUME NEW n \in Nat
      PROVE  [f EXCEPT !.put = "failed", !.astray = n] \in File
  BY DEF File
<1>3. /\ g.put = "failed" /\ g.undo = f.undo /\ g.deletes = f.deletes
      /\ g.executed = f.executed /\ g.key = f.key /\ g.puts = f.puts
  BY DEF File, GivenUp
<1>4. g \in File
  BY <1>1, <1>2 DEF GivenUp
<1>5. QED
  BY <1>3, <1>4 DEF UndoInv, Kept, Placed

LEMMA FileRetried ==
    ASSUME NEW f \in File, NEW phase, NEW a, UndoInv(f, phase, a),
           f.put \in {"sent", "landed"}, f.puts < MaxAttempts,
           NEW g, g = SentAgain(f)
    PROVE  /\ g \in File /\ UndoInv(g, phase, a)
           /\ g.key = f.key /\ g.executed = f.executed /\ ~Placed(g) /\ g.puts # 1
           /\ f.put # "acked"
<1>1. AstrayAfter(f) \in Nat
  BY DEF AstrayAfter, File
<1>2. f.puts + 1 \in 1 .. MaxAttempts /\ f.puts + 1 # 1
  BY MaxAttemptsPositive DEF File
<1>3. ASSUME NEW p \in 1 .. MaxAttempts, NEW n \in Nat
      PROVE  [f EXCEPT !.put = "sent", !.puts = p, !.astray = n] \in File
  BY DEF File
<1>4. g = [f EXCEPT !.put = "sent", !.puts = f.puts + 1, !.astray = AstrayAfter(f)]
  BY DEF File, SentAgain
<1>5. g \in File
  BY <1>1, <1>2, <1>3, <1>4
<1>6. /\ g.put = "sent" /\ g.undo = f.undo /\ g.deletes = f.deletes
      /\ g.executed = f.executed /\ g.key = f.key /\ g.puts = f.puts + 1
  BY <1>4 DEF File
<1>7. QED
  BY <1>2, <1>5, <1>6 DEF UndoInv, Placed

LEMMA FileStrays ==
    ASSUME NEW f \in File, NEW phase, NEW a, UndoInv(f, phase, a), f.astray > 0,
           NEW g, g = [f EXCEPT !.astray = @ - 1]
    PROVE  /\ g \in File /\ UndoInv(g, phase, a) /\ Kept(f, g) /\ g.put = f.put
           /\ ~(Deleted(f) /\ f.puts = 1)
<1>1. g \in File
  BY DEF File
<1>2. /\ g.put = f.put /\ g.undo = f.undo /\ g.deletes = f.deletes
      /\ g.executed = f.executed /\ g.key = f.key /\ g.puts = f.puts
  BY DEF File
<1>3. ~(f.put # "failed" /\ f.puts = 1)
  BY DEF UndoInv, File
<1>4. Deleted(f) => f.put # "failed"
  BY DEF UndoInv, File, Deleted
<1>5. QED
  BY <1>1, <1>2, <1>3, <1>4 DEF UndoInv, Kept, Placed

LEMMA FileUndo ==
    ASSUME NEW f \in File, NEW phase, NEW a, UndoInv(f, phase, a), f.put = "acked",
           phase \notin {"rollback", "done"},
           NEW g, g = [f EXCEPT !.undo = "sent", !.deletes = 1]
    PROVE  /\ g \in File /\ Kept(f, g)
           /\ \A a2 : a2 # "success" => UndoInv(g, "rollback", a2)
<1>1. ASSUME NEW n \in 0 .. MaxAttempts
      PROVE  [f EXCEPT !.undo = "sent", !.deletes = n] \in File
  BY DEF File
<1>2. 1 \in 0 .. MaxAttempts
  BY MaxAttemptsPositive
<1>3. g.executed = f.executed /\ f.executed = 0
  BY DEF File, UndoInv
<1>4. /\ g.put = f.put /\ g.undo = "sent" /\ g.deletes = 1
      /\ g.astray = f.astray /\ g.key = f.key /\ g.puts = f.puts
  BY DEF File
<1>5. g \in File
  BY <1>1, <1>2, Zenon
<1>6. QED
  BY <1>3, <1>4, <1>5 DEF UndoInv, Kept, Placed

LEMMA FileDeleted ==
    ASSUME NEW f \in File, NEW phase, NEW a, UndoInv(f, phase, a),
           f.executed < f.deletes,
           NEW g, g = [f EXCEPT !.executed = @ + 1]
    PROVE  /\ g \in File /\ UndoInv(g, phase, a)
           /\ g.key = f.key /\ g.put = f.put /\ g.puts = f.puts /\ Deleted(g)
<1>1. g \in File /\ g.executed = f.executed + 1
  BY DEF File
<1>2. /\ g.put = f.put /\ g.undo = f.undo /\ g.deletes = f.deletes
      /\ g.astray = f.astray /\ g.key = f.key /\ g.puts = f.puts
  BY DEF File
<1>3. f.executed \in Nat /\ f.deletes \in Nat
  BY MaxAttemptsPositive DEF File
<1>4. g.executed <= g.deletes /\ g.executed > 0
  BY <1>1, <1>2, <1>3
<1>5. QED
  BY <1>1, <1>2, <1>4 DEF UndoInv, Deleted

LEMMA FileRedeleted ==
    ASSUME NEW f \in File, NEW phase, NEW a, UndoInv(f, phase, a),
           f.undo = "sent", f.deletes < MaxAttempts,
           NEW g, g = [f EXCEPT !.deletes = @ + 1]
    PROVE  g \in File /\ UndoInv(g, phase, a) /\ Kept(f, g)
<1>1. g \in File /\ g.deletes = f.deletes + 1
  BY MaxAttemptsPositive DEF File
<1>2. /\ g.put = f.put /\ g.undo = f.undo /\ g.executed = f.executed
      /\ g.astray = f.astray /\ g.key = f.key /\ g.puts = f.puts
  BY DEF File
<1>3. f.executed \in Nat /\ f.deletes \in Nat
  BY MaxAttemptsPositive DEF File
<1>4. QED
  BY <1>1, <1>2, <1>3 DEF UndoInv, Kept, Placed

LEMMA FileOver ==
    ASSUME NEW f \in File, NEW phase, NEW a, UndoInv(f, phase, a), f.undo = "sent",
           NEW g, g = [f EXCEPT !.undo = "over"]
    PROVE  g \in File /\ UndoInv(g, phase, a) /\ Kept(f, g)
  BY DEF File, UndoInv, Kept, Placed

-----------------------------------------------------------------------------
(* How calls progress.                                                     *)

OnlyAcked ==
    \A c \in Calls : \A i \in FilesOf(c) : UndoInv(file[c][i], pc[c], answer[c])

\* A call in flight has no answer; one that succeeded did so with all files.
SuccessMeansAcked ==
    \A c \in Calls :
        /\ answer[c] # "none" => pc[c] = "done"
        /\ pc[c] = "idle" => FilesOf(c) = {}
        /\ answer[c] = "success" => \A i \in FilesOf(c) : file[c][i].put = "acked"

Progress == TypeOK /\ OnlyAcked /\ SuccessMeansAcked

\* What TypeOK says of the files of one call.
FilesTyped(files) == files \in Seq(File) /\ Len(files) <= MaxFiles

\* The files of a call, numbered from one.
LEMMA FilesNumbered ==
    ASSUME TypeOK, NEW c \in Calls
    PROVE  /\ FilesOf(c) \subseteq 1 .. MaxFiles
           /\ \A i \in FilesOf(c) : file[c][i] \in File /\ file[c][i].key \in Keys
<1>1. file[c] \in Seq(File) /\ Len(file[c]) <= MaxFiles
  BY DEF TypeOK
<1>2. \A i \in FilesOf(c) : file[c][i] \in File
  BY <1>1 DEF FilesOf
<1>3. FilesOf(c) = 1 .. Len(file[c]) /\ Len(file[c]) \in Nat
  BY <1>1 DEF FilesOf
<1>4. FilesOf(c) \subseteq 1 .. MaxFiles
  BY <1>1, <1>3, MaxFilesPositive
<1>5. QED
  BY <1>2, <1>4 DEF File

LEMMA FilesTracked ==
    ASSUME Progress, NEW c \in Calls, NEW i \in FilesOf(c)
    PROVE  file[c][i] \in File /\ UndoInv(file[c][i], pc[c], answer[c])
  BY FilesNumbered DEF Progress, OnlyAcked

\* A list of files of which each is still a file, in as many places.
LEMMA FilesTypedMap ==
    ASSUME NEW files, FilesTyped(files), NEW new \in [DOMAIN files -> File]
    PROVE  FilesTyped(new)
  BY DEF FilesTyped

LEMMA SentTyped ==
    ASSUME NEW n \in 1 .. MaxFiles, NEW keys \in [1 .. n -> Keys]
    PROVE  /\ FilesTyped(Sent(keys)) /\ DOMAIN Sent(keys) = 1 .. n
           /\ \A i \in 1 .. n : /\ ~Placed(Sent(keys)[i]) /\ ~Deleted(Sent(keys)[i])
                                /\ \A phase, a : UndoInv(Sent(keys)[i], phase, a)
<1>1. Sent(keys) \in [1 .. n -> File]
  BY MaxAttemptsPositive DEF Sent, File
<1>2. QED
  BY <1>1, MaxFilesPositive DEF FilesTyped, Sent, Placed, Deleted, UndoInv

\* A step that does nothing to the files but replace one by g.
Replaced(c, i, g) == file' = [file EXCEPT ![c] = [file[c] EXCEPT ![i] = g]]

LEMMA OneFile ==
    ASSUME TypeOK, NEW c \in Calls, NEW i \in FilesOf(c), NEW g,
           Replaced(c, i, g)
    PROVE  /\ file'[c][i] = g
           /\ \A d \in Calls : DOMAIN file'[d] = FilesOf(d)
           /\ \A d \in Calls : \A j \in FilesOf(d) :
                 <<d, j>> # <<c, i>> => file'[d][j] = file[d][j]
  BY DEF TypeOK, FilesOf, Replaced

\* The bucket is not asked of here: the file, its call, and the other files.
LEMMA OneFileTracked ==
    ASSUME Progress, NEW c \in Calls, NEW i \in FilesOf(c), NEW g \in File,
           Replaced(c, i, g),
           UndoInv(g, pc'[c], answer'[c]),
           pc[c] \in {"rollback", "done"} => pc'[c] \in {"rollback", "done"},
           answer'[c] = "success" =>
              answer[c] = "success" \/ pc[c] \notin {"rollback", "done"},
           \A d \in Calls \ {c} : pc'[d] = pc[d] /\ answer'[d] = answer[d]
    PROVE  /\ file' \in [Calls -> Seq(File)]
           /\ \A d \in Calls : Len(file'[d]) <= MaxFiles
           /\ OnlyAcked'
<1>1. FilesTyped(file[c])
  BY DEF Progress, TypeOK, FilesTyped
<1>2. [file[c] EXCEPT ![i] = g] \in [DOMAIN file[c] -> File]
  BY <1>1 DEF FilesTyped, FilesOf
<1>3. FilesTyped([file[c] EXCEPT ![i] = g])
  BY <1>1, <1>2, FilesTypedMap
<1>4. /\ file' \in [Calls -> Seq(File)]
      /\ \A d \in Calls : Len(file'[d]) <= MaxFiles
  BY <1>3 DEF Progress, TypeOK, FilesTyped, Replaced
<1>5. ASSUME NEW d \in Calls, NEW j \in DOMAIN file'[d]
      PROVE  UndoInv(file'[d][j], pc'[d], answer'[d])
  <2>0. /\ file'[c][i] = g
        /\ \A e \in Calls : DOMAIN file'[e] = FilesOf(e)
        /\ \A e \in Calls : \A k \in FilesOf(e) :
              <<e, k>> # <<c, i>> => file'[e][k] = file[e][k]
    <3>1. TypeOK
      BY DEF Progress
    <3>2. QED
      BY <3>1, OneFile, Zenon
  <2>1. /\ file'[c][i] = g /\ j \in FilesOf(d)
        /\ <<d, j>> # <<c, i>> => file'[d][j] = file[d][j]
    BY <2>0
  <2>2. UndoInv(file[d][j], pc[d], answer[d])
    BY <2>1 DEF Progress, OnlyAcked
  <2>3. CASE d = c /\ j = i
    BY <2>1, <2>3
  <2>4. CASE d = c /\ j # i
    BY <2>1, <2>2, <2>4, UndoLater
  <2>5. CASE d # c
    BY <2>1, <2>2, <2>5
  <2>6. QED
    BY <2>3, <2>4, <2>5
<1>6. QED
  BY <1>4, <1>5 DEF OnlyAcked, FilesOf

LEMMA ProgressInit == Init => Progress
  BY MaxFilesPositive DEF Init, TypeOK, Progress, OnlyAcked, SuccessMeansAcked, FilesOf

\* Every step keeps the bucket and the calls well typed, and calls in order.
LEMMA ProgressStep == Progress /\ [Next]_vars => Progress'
<1> SUFFICES ASSUME Progress, [Next]_vars PROVE Progress'
  OBVIOUS
<1>0. TypeOK /\ OnlyAcked /\ SuccessMeansAcked
  BY DEF Progress
<1>1. ASSUME NEW c \in Calls, Upload(c) PROVE Progress'
  <2>1. PICK n \in 1 .. MaxFiles : \E keys \in [1 .. n -> Keys] :
            file' = [file EXCEPT ![c] = Sent(keys)]
    BY <1>1, Zenon DEF Upload
  <2>2. PICK keys \in [1 .. n -> Keys] : file' = [file EXCEPT ![c] = Sent(keys)]
    BY <2>1
  <2>3. /\ file'[c] = Sent(keys)
        /\ \A d \in Calls \ {c} : file'[d] = file[d]
    BY <1>0, <2>2 DEF TypeOK
  <2>4. /\ pc'[c] # "idle" /\ answer' = answer /\ answer[c] = "none"
        /\ \A d \in Calls \ {c} : pc'[d] = pc[d]
    BY <1>0, <1>1 DEF Upload, TypeOK, SuccessMeansAcked
  <2>5. TypeOK'
    BY <1>0, <1>1, <2>2, SentTyped DEF Upload, TypeOK, FilesTyped
  <2>6. OnlyAcked'
    <3> SUFFICES ASSUME NEW d \in Calls, NEW j \in DOMAIN file'[d]
                 PROVE  UndoInv(file'[d][j], pc'[d], answer'[d])
      BY DEF OnlyAcked, FilesOf
    <3>1. CASE d = c
      BY <2>3, <3>1, SentTyped
    <3>2. CASE d # c
      BY <1>0, <2>3, <2>4, <3>2 DEF OnlyAcked, FilesOf
    <3>3. QED
      BY <3>1, <3>2
  <2>7. SuccessMeansAcked'
    BY <1>0, <2>3, <2>4 DEF SuccessMeansAcked, FilesOf
  <2>8. QED
    BY <2>5, <2>6, <2>7 DEF Progress
<1>2. ASSUME NEW c \in Calls, Refuse(c) PROVE Progress'
  <2>1. TypeOK' /\ SuccessMeansAcked'
    BY <1>0, <1>2 DEF Refuse, TypeOK, SuccessMeansAcked, FilesOf
  <2>2. OnlyAcked'
    BY <1>0, <1>2 DEF Refuse, TypeOK, OnlyAcked, SuccessMeansAcked, FilesOf
  <2>3. QED
    BY <2>1, <2>2 DEF Progress
<1>3. ASSUME NEW c \in Calls, NEW i \in FilesOf(c), PutLands(c, i) PROVE Progress'
  <2>1. PICK g : /\ g = [file[c][i] EXCEPT !.put = "landed"]
                 /\ Replaced(c, i, g)
    BY <1>3 DEF PutLands, Replaced
  <2>2. file[c][i].put = "sent"
    BY <1>3 DEF PutLands
  <2>3. file[c][i] \in File /\ UndoInv(file[c][i], pc[c], answer[c])
    BY FilesTracked
  <2>4. g \in File /\ UndoInv(g, pc[c], answer[c])
    BY <2>1, <2>2, <2>3, FileLands
  <2>5. g.put = "landed" /\ file[c][i].put # "acked"
    BY <2>1, <2>2, <2>3, FileLands DEF File
  <2>6. pc' = pc /\ answer' = answer
    BY <1>3 DEF PutLands
  <2>7. object' \in [Keys -> {Nothing} \cup (Calls \X (1 .. MaxFiles))]
    BY <1>0, <1>3, FilesNumbered DEF PutLands, TypeOK
  <2>8. /\ file' \in [Calls -> Seq(File)]
        /\ \A d \in Calls : Len(file'[d]) <= MaxFiles
        /\ OnlyAcked'
    BY <2>1, <2>4, <2>6, OneFileTracked
  <2>9. TypeOK'
    BY <1>0, <2>6, <2>7, <2>8 DEF TypeOK
  <2>10. /\ file'[c][i] = g
         /\ \A d \in Calls : DOMAIN file'[d] = FilesOf(d)
         /\ \A d \in Calls : \A j \in FilesOf(d) :
               <<d, j>> # <<c, i>> => file'[d][j] = file[d][j]
    BY <1>0, <2>1, OneFile
  <2>11. SuccessMeansAcked'
    BY <1>0, <2>5, <2>6, <2>10 DEF SuccessMeansAcked, FilesOf
  <2>12. QED
    BY <2>8, <2>9, <2>11 DEF Progress
<1>4. ASSUME NEW c \in Calls, NEW i \in FilesOf(c), PutAcked(c, i) PROVE Progress'
  <2>1. PICK g : /\ g = [file[c][i] EXCEPT !.put = "acked"]
                 /\ Replaced(c, i, g)
    BY <1>4 DEF PutAcked, Replaced
  <2>2. file[c][i].put = "landed"
    BY <1>4 DEF PutAcked
  <2>3. file[c][i] \in File /\ UndoInv(file[c][i], pc[c], answer[c])
    BY FilesTracked
  <2>4. g \in File /\ UndoInv(g, pc[c], answer[c]) /\ g.undo = "no" /\ g.put = "acked"
    BY <2>1, <2>2, <2>3, FileAcked
  <2>5. /\ pc'[c] = pc[c] /\ answer'[c] = answer[c]
        \/ /\ pc'[c] = "done" /\ answer'[c] = "success" /\ pc[c] \in {"single", "multiple"}
           /\ \A j \in FilesOf(c) \ {i} : file[c][j].put = "acked"
    BY <1>0, <1>4 DEF PutAcked, TypeOK
  <2>6. /\ \A d \in Calls \ {c} : pc'[d] = pc[d] /\ answer'[d] = answer[d]
        /\ pc' \in [Calls -> {"idle", "single", "multiple", "rollback", "done"}]
        /\ answer' \in [Calls -> {"none", "refused", "success", "failed", "lost"}]
        /\ object' = object
    BY <1>0, <1>4 DEF PutAcked, TypeOK
  <2>7. UndoInv(g, pc'[c], answer'[c])
    BY <2>4, <2>5 DEF UndoInv
  <2>8. /\ file' \in [Calls -> Seq(File)]
        /\ \A d \in Calls : Len(file'[d]) <= MaxFiles
        /\ OnlyAcked'
    BY <2>1, <2>4, <2>5, <2>6, <2>7, OneFileTracked
  <2>9. TypeOK'
    BY <1>0, <2>6, <2>8 DEF TypeOK
  <2>10. /\ file'[c][i] = g
         /\ \A d \in Calls : DOMAIN file'[d] = FilesOf(d)
         /\ \A d \in Calls : \A j \in FilesOf(d) :
               <<d, j>> # <<c, i>> => file'[d][j] = file[d][j]
    BY <1>0, <2>1, OneFile
  <2>11. SuccessMeansAcked'
    BY <1>0, <2>4, <2>5, <2>6, <2>10 DEF SuccessMeansAcked, FilesOf
  <2>12. QED
    BY <2>8, <2>9, <2>11 DEF Progress
<1>5. ASSUME NEW c \in Calls, NEW i \in FilesOf(c), PutFails(c, i) PROVE Progress'
  <2>1. file' = [file EXCEPT ![c] = AfterFailure(c, i)]
    BY <1>5 DEF PutFails
  <2>2. /\ DOMAIN file'[c] = FilesOf(c)
        /\ \A j \in FilesOf(c) : file'[c][j] = AfterFailure(c, i)[j]
        /\ \A d \in Calls \ {c} : file'[d] = file[d]
    BY <1>0, <2>1 DEF AfterFailure, FilesOf, TypeOK
  <2>3. /\ \A d \in Calls \ {c} : pc'[d] = pc[d] /\ answer'[d] = answer[d]
        /\ pc[c] = "multiple" /\ ToUndo(c) # {} => pc'[c] = "rollback"
        /\ pc[c] = "multiple" /\ ToUndo(c) = {} => pc'[c] = "done"
        /\ pc[c] \in {"rollback", "done"} => pc'[c] = pc[c]
        /\ answer'[c] \in {answer[c], "failed"}
        /\ answer'[c] # answer[c] => pc'[c] = "done"
        /\ pc[c] # "idle" => pc'[c] # "idle"
        /\ pc[c] = "done" => answer'[c] = answer[c]
        /\ pc' \in [Calls -> {"idle", "single", "multiple", "rollback", "done"}]
        /\ answer' \in [Calls -> {"none", "refused", "success", "failed", "lost"}]
    <3> USE <1>0 DEF TypeOK
    <3>1. CASE pc[c] = "multiple" /\ ToUndo(c) # {}
      BY <1>5, <3>1 DEF PutFails
    <3>2. CASE pc[c] = "single" \/ (pc[c] = "multiple" /\ ToUndo(c) = {})
      BY <1>5, <3>2 DEF PutFails
    <3>3. CASE pc[c] \notin {"single", "multiple"}
      BY <1>5, <3>3 DEF PutFails
    <3>4. QED
      BY <3>1, <3>2, <3>3
  <2>4. pc[c] # "idle" /\ answer[c] # "success" /\ file[c][i].put \in {"sent", "landed"}
    BY <1>0, <1>5 DEF PutFails, SuccessMeansAcked
  <2>5. ASSUME NEW j \in FilesOf(c)
        PROVE  file'[c][j] \in File /\ UndoInv(file'[c][j], pc'[c], answer'[c])
    <3>0. file[c][j] \in File /\ UndoInv(file[c][j], pc[c], answer[c])
      BY FilesTracked
    <3>1. CASE j = i
      <4>1. file'[c][j] = GivenUp(file[c][i])
        BY <2>2, <3>1 DEF AfterFailure
      <4>2. QED
        BY <2>4, <3>0, <3>1, <4>1, FileFails
    <3>2. CASE j # i /\ pc[c] = "multiple" /\ j \in ToUndo(c)
      <4>1. file'[c][j] = [file[c][j] EXCEPT !.undo = "sent", !.deletes = 1]
        BY <2>2, <3>2 DEF AfterFailure
      <4>2. file[c][j].put = "acked" /\ pc'[c] = "rollback" /\ answer'[c] # "success"
        BY <2>3, <2>4, <3>2 DEF ToUndo
      <4>3. pc[c] \notin {"rollback", "done"}
        BY <3>2
      <4>4. QED
        <5>1. file[c][j].put = "acked"
          BY <4>2
        <5>2. file'[c][j] \in File /\ UndoInv(file'[c][j], "rollback", answer'[c])
          BY <3>0, <4>1, <4>2, <4>3, <5>1, FileUndo, Zenon
        <5>3. QED
          BY <4>2, <5>2
    <3>3. CASE j # i /\ ~(pc[c] = "multiple" /\ j \in ToUndo(c))
      <4>1. file'[c][j] = file[c][j]
        BY <2>2, <3>3 DEF AfterFailure
      <4>2. answer'[c] # "success"
        BY <2>3, <2>4
      <4>3. QED
        BY <2>3, <3>0, <4>1, <4>2, UndoLater
    <3>4. QED
      BY <3>1, <3>2, <3>3
  <2>6. FilesTyped(file'[c])
    <3>1. AfterFailure(c, i) \in [DOMAIN file[c] -> File]
      BY <2>2, <2>5 DEF AfterFailure, FilesOf
    <3>2. FilesTyped(file[c])
      BY <1>0 DEF TypeOK, FilesTyped
    <3>3. file'[c] = AfterFailure(c, i)
      BY <1>0, <2>1 DEF TypeOK
    <3>4. QED
      BY <3>1, <3>2, <3>3, FilesTypedMap
  <2>7. TypeOK'
    <3>1. object' = object
      BY <1>5 DEF PutFails
    <3>2. file' \in [Calls -> Seq(File)] /\ \A d \in Calls : Len(file'[d]) <= MaxFiles
      BY <1>0, <2>1, <2>2, <2>6 DEF TypeOK, FilesTyped
    <3>3. QED
      BY <1>0, <2>3, <3>1, <3>2 DEF TypeOK
  <2>8. OnlyAcked'
    BY <1>0, <2>2, <2>3, <2>5 DEF OnlyAcked, FilesOf
  <2>9. SuccessMeansAcked'
    BY <1>0, <2>2, <2>3, <2>4 DEF SuccessMeansAcked, FilesOf
  <2>10. QED
    BY <2>7, <2>8, <2>9 DEF Progress
<1>6. ASSUME NEW c \in Calls, NEW i \in FilesOf(c), DeleteLands(c, i) PROVE Progress'
  <2>1. PICK g : /\ g = [file[c][i] EXCEPT !.executed = @ + 1]
                 /\ Replaced(c, i, g)
    BY <1>6 DEF DeleteLands, Replaced
  <2>2. file[c][i].executed < file[c][i].deletes
    BY <1>6 DEF DeleteLands
  <2>3. file[c][i] \in File /\ UndoInv(file[c][i], pc[c], answer[c])
    BY FilesTracked
  <2>4. g \in File /\ UndoInv(g, pc[c], answer[c])
    BY <2>1, <2>2, <2>3, FileDeleted
  <2>5. g.put = file[c][i].put
    BY <2>1, <2>2, <2>3, FileDeleted
  <2>6. pc' = pc /\ answer' = answer
    BY <1>6 DEF DeleteLands
  <2>7. object' \in [Keys -> {Nothing} \cup (Calls \X (1 .. MaxFiles))]
    BY <1>0, <1>6, FilesNumbered DEF DeleteLands, TypeOK
  <2>8. /\ file' \in [Calls -> Seq(File)]
        /\ \A d \in Calls : Len(file'[d]) <= MaxFiles
        /\ OnlyAcked'
    BY <2>1, <2>4, <2>6, OneFileTracked
  <2>9. TypeOK'
    BY <1>0, <2>6, <2>7, <2>8 DEF TypeOK
  <2>10. /\ file'[c][i] = g
         /\ \A d \in Calls : DOMAIN file'[d] = FilesOf(d)
         /\ \A d \in Calls : \A j \in FilesOf(d) :
               <<d, j>> # <<c, i>> => file'[d][j] = file[d][j]
    BY <1>0, <2>1, OneFile
  <2>11. SuccessMeansAcked'
    BY <1>0, <2>5, <2>6, <2>10 DEF SuccessMeansAcked, FilesOf
  <2>12. QED
    BY <2>8, <2>9, <2>11 DEF Progress
<1>7. ASSUME NEW c \in Calls, NEW i \in FilesOf(c), DeleteEnds(c, i) PROVE Progress'
  <2>1. PICK g : /\ g = [file[c][i] EXCEPT !.undo = "over"]
                 /\ Replaced(c, i, g)
    BY <1>7 DEF DeleteEnds, Replaced
  <2>2. file[c][i].undo = "sent"
    BY <1>7 DEF DeleteEnds
  <2>3. file[c][i] \in File /\ UndoInv(file[c][i], pc[c], answer[c])
    BY FilesTracked
  <2>4. g \in File /\ UndoInv(g, pc[c], answer[c]) /\ g.put = file[c][i].put
    BY <2>1, <2>2, <2>3, FileOver DEF File
  <2>5. \/ pc'[c] = pc[c] /\ answer'[c] = answer[c]
        \/ pc'[c] = "done" /\ answer'[c] = "failed" /\ pc[c] = "rollback"
    BY <1>0, <1>7 DEF DeleteEnds, Undone, TypeOK
  <2>6. /\ \A d \in Calls \ {c} : pc'[d] = pc[d] /\ answer'[d] = answer[d]
        /\ pc' \in [Calls -> {"idle", "single", "multiple", "rollback", "done"}]
        /\ answer' \in [Calls -> {"none", "refused", "success", "failed", "lost"}]
        /\ object' = object
    BY <1>0, <1>7 DEF DeleteEnds, Undone, TypeOK
  <2>7. UndoInv(g, pc'[c], answer'[c])
    BY <2>4, <2>5 DEF UndoInv
  <2>8. /\ file' \in [Calls -> Seq(File)]
        /\ \A d \in Calls : Len(file'[d]) <= MaxFiles
        /\ OnlyAcked'
    BY <2>1, <2>4, <2>5, <2>6, <2>7, OneFileTracked
  <2>9. TypeOK'
    BY <1>0, <2>6, <2>8 DEF TypeOK
  <2>10. /\ file'[c][i] = g
         /\ \A d \in Calls : DOMAIN file'[d] = FilesOf(d)
         /\ \A d \in Calls : \A j \in FilesOf(d) :
               <<d, j>> # <<c, i>> => file'[d][j] = file[d][j]
    BY <1>0, <2>1, OneFile
  <2>11. SuccessMeansAcked'
    BY <1>0, <2>4, <2>5, <2>6, <2>10 DEF SuccessMeansAcked, FilesOf
  <2>12. QED
    BY <2>8, <2>9, <2>11 DEF Progress
<1>8. ASSUME Crash PROVE Progress'
  <2>1. TypeOK' /\ SuccessMeansAcked'
    BY <1>0, <1>8 DEF Crash, TypeOK, SuccessMeansAcked, FilesOf
  <2>2. OnlyAcked'
    BY <1>0, <1>8 DEF Crash, TypeOK, OnlyAcked, SuccessMeansAcked, FilesOf, UndoInv
  <2>3. QED
    BY <2>1, <2>2 DEF Progress
<1>9. ASSUME UNCHANGED vars PROVE Progress'
  BY <1>0, <1>9 DEF vars, Progress, TypeOK, OnlyAcked, SuccessMeansAcked, FilesOf
<1>10. ASSUME NEW c \in Calls, NEW i \in FilesOf(c), StrayLands(c, i) PROVE Progress'
  <2>1. PICK g : /\ g = [file[c][i] EXCEPT !.astray = @ - 1]
                 /\ Replaced(c, i, g)
    BY <1>10 DEF StrayLands, Replaced
  <2>2. file[c][i].astray > 0
    BY <1>10 DEF StrayLands
  <2>3. file[c][i] \in File /\ UndoInv(file[c][i], pc[c], answer[c])
    BY FilesTracked
  <2>4. g \in File /\ UndoInv(g, pc[c], answer[c])
    BY <2>1, <2>2, <2>3, FileStrays
  <2>5. g.put = file[c][i].put
    BY <2>1, <2>2, <2>3, FileStrays
  <2>6. pc' = pc /\ answer' = answer
    BY <1>10 DEF StrayLands
  <2>7. object' \in [Keys -> {Nothing} \cup (Calls \X (1 .. MaxFiles))]
    BY <1>0, <1>10, FilesNumbered DEF StrayLands, TypeOK
  <2>8. /\ file' \in [Calls -> Seq(File)]
        /\ \A d \in Calls : Len(file'[d]) <= MaxFiles
        /\ OnlyAcked'
    BY <2>1, <2>4, <2>6, OneFileTracked
  <2>9. TypeOK'
    BY <1>0, <2>6, <2>7, <2>8 DEF TypeOK
  <2>10. /\ file'[c][i] = g
         /\ \A d \in Calls : DOMAIN file'[d] = FilesOf(d)
         /\ \A d \in Calls : \A j \in FilesOf(d) :
               <<d, j>> # <<c, i>> => file'[d][j] = file[d][j]
    BY <1>0, <2>1, OneFile
  <2>11. SuccessMeansAcked'
    BY <1>0, <2>5, <2>6, <2>10 DEF SuccessMeansAcked, FilesOf
  <2>12. QED
    BY <2>8, <2>9, <2>11 DEF Progress
<1>11. ASSUME NEW c \in Calls, NEW i \in FilesOf(c), PutRetried(c, i) PROVE Progress'
  <2>1. PICK g : /\ g = SentAgain(file[c][i])
                 /\ Replaced(c, i, g)
    BY <1>11 DEF PutRetried, Replaced
  <2>2. file[c][i].put \in {"sent", "landed"} /\ file[c][i].puts < MaxAttempts
    BY <1>11 DEF PutRetried
  <2>3. file[c][i] \in File /\ UndoInv(file[c][i], pc[c], answer[c])
    BY FilesTracked
  <2>4. g \in File /\ UndoInv(g, pc[c], answer[c])
    BY <2>1, <2>2, <2>3, FileRetried
  <2>5. file[c][i].put # "acked"
    BY <2>1, <2>2, <2>3, FileRetried
  <2>6. pc' = pc /\ answer' = answer
    BY <1>11 DEF PutRetried
  <2>7. object' = object
    BY <1>11 DEF PutRetried
  <2>8. /\ file' \in [Calls -> Seq(File)]
        /\ \A d \in Calls : Len(file'[d]) <= MaxFiles
        /\ OnlyAcked'
    BY <2>1, <2>4, <2>6, OneFileTracked
  <2>9. TypeOK'
    BY <1>0, <2>6, <2>7, <2>8 DEF TypeOK
  <2>10. /\ file'[c][i] = g
         /\ \A d \in Calls : DOMAIN file'[d] = FilesOf(d)
         /\ \A d \in Calls : \A j \in FilesOf(d) :
               <<d, j>> # <<c, i>> => file'[d][j] = file[d][j]
    BY <1>0, <2>1, OneFile
  <2>11. SuccessMeansAcked'
    BY <1>0, <2>5, <2>6, <2>10 DEF SuccessMeansAcked, FilesOf
  <2>12. QED
    BY <2>8, <2>9, <2>11 DEF Progress
<1>12. ASSUME NEW c \in Calls, NEW i \in FilesOf(c), DeleteRetried(c, i) PROVE Progress'
  <2>1. PICK g : /\ g = [file[c][i] EXCEPT !.deletes = @ + 1]
                 /\ Replaced(c, i, g)
    BY <1>12 DEF DeleteRetried, Replaced
  <2>2. file[c][i].undo = "sent" /\ file[c][i].deletes < MaxAttempts
    BY <1>12 DEF DeleteRetried
  <2>3. file[c][i] \in File /\ UndoInv(file[c][i], pc[c], answer[c])
    BY FilesTracked
  <2>4. g \in File /\ UndoInv(g, pc[c], answer[c])
    BY <2>1, <2>2, <2>3, FileRedeleted
  <2>5. g.put = file[c][i].put
    BY <2>1, <2>2, <2>3, FileRedeleted DEF File
  <2>6. pc' = pc /\ answer' = answer
    BY <1>12 DEF DeleteRetried
  <2>7. object' = object
    BY <1>12 DEF DeleteRetried
  <2>8. /\ file' \in [Calls -> Seq(File)]
        /\ \A d \in Calls : Len(file'[d]) <= MaxFiles
        /\ OnlyAcked'
    BY <2>1, <2>4, <2>6, OneFileTracked
  <2>9. TypeOK'
    BY <1>0, <2>6, <2>7, <2>8 DEF TypeOK
  <2>10. /\ file'[c][i] = g
         /\ \A d \in Calls : DOMAIN file'[d] = FilesOf(d)
         /\ \A d \in Calls : \A j \in FilesOf(d) :
               <<d, j>> # <<c, i>> => file'[d][j] = file[d][j]
    BY <1>0, <2>1, OneFile
  <2>11. SuccessMeansAcked'
    BY <1>0, <2>5, <2>6, <2>10 DEF SuccessMeansAcked, FilesOf
  <2>12. QED
    BY <2>8, <2>9, <2>11 DEF Progress
<1>13. QED
  BY <1>1, <1>2, <1>3, <1>4, <1>5, <1>6, <1>7, <1>8, <1>9, <1>10, <1>11, <1>12
     DEF Next, Execute, Settle

\* Every reachable state of the bucket and of the calls is well typed; no call
\* uploads more files than are allowed, and no request is sent too often.
THEOREM TypeCorrect == Spec => []TypeOK
<1>1. Progress => TypeOK
  BY DEF Progress
<1>2. QED
  BY <1>1, ProgressInit, ProgressStep, PTL DEF Spec

-----------------------------------------------------------------------------
(* What is stored.                                                         *)

\* A key to which a file was put holds it, or a rival, or nothing after one of
\* them was rolled back.
KeyHolds(c, i) ==
    /\ object[file[c][i].key] \in {<<c, i>>, Nothing} \cup Rivals(c, i)
    /\ object[file[c][i].key] = Nothing =>
          \/ Deleted(file[c][i])
          \/ \E f \in Rivals(c, i) : Deleted(file[f[1]][f[2]])

Store ==
    /\ RolledBackStaysGone
    /\ \A c \in Calls : \A i \in FilesOf(c) : Placed(file[c][i]) => KeyHolds(c, i)

\* Deleted, and its only PUT is over.
Gone(f) == Deleted(f) /\ f.puts = 1

\* Whatever the step, a file stays with its key, and what was deleted stays
\* marked so.
FilesStay ==
    \A c \in Calls : \A i \in FilesOf(c) :
        /\ i \in DOMAIN file'[c]
        /\ file'[c][i].key = file[c][i].key
        /\ Deleted(file[c][i]) => Deleted(file'[c][i])

\* The two kinds of steps at S3, and every other one.
Landed(c, i) ==
    /\ object' = [object EXCEPT ![file[c][i].key] = <<c, i>>]
    /\ ~Gone(file[c][i])
    /\ \A d \in Calls : \A j \in DOMAIN file'[d] :
          /\ j \in FilesOf(d)
          /\ Gone(file'[d][j]) => Gone(file[d][j])
          /\ Placed(file'[d][j]) /\ <<d, j>> # <<c, i>> => Placed(file[d][j])

Removed(c, i) ==
    /\ object' = [object EXCEPT ![file[c][i].key] = Nothing]
    /\ Deleted(file'[c][i])
    /\ \A d \in Calls : \A j \in DOMAIN file'[d] :
          /\ j \in FilesOf(d) /\ file'[d][j].put = file[d][j].put
          /\ <<d, j>> # <<c, i>> => file'[d][j] = file[d][j]

Elsewhere ==
    /\ object' = object
    /\ \A d \in Calls : \A j \in DOMAIN file'[d] :
          /\ Placed(file'[d][j]) => j \in FilesOf(d) /\ Placed(file[d][j])
          /\ Gone(file'[d][j]) => j \in FilesOf(d) /\ Gone(file[d][j])

LEMMA StoreSteps ==
    ASSUME Progress, [Next]_vars
    PROVE  /\ FilesStay
           /\ \/ \E c \in Calls : \E i \in FilesOf(c) : Landed(c, i) \/ Removed(c, i)
              \/ Elsewhere
<1> USE DEF FilesStay, Gone, Deleted
<1>0. TypeOK /\ OnlyAcked /\ SuccessMeansAcked
  BY DEF Progress
<1>1. ASSUME NEW c \in Calls, Upload(c) PROVE FilesStay /\ Elsewhere
  <2>1. PICK n \in 1 .. MaxFiles : \E keys \in [1 .. n -> Keys] :
            file' = [file EXCEPT ![c] = Sent(keys)]
    BY <1>1, Zenon DEF Upload
  <2>2. PICK keys \in [1 .. n -> Keys] : file' = [file EXCEPT ![c] = Sent(keys)]
    BY <2>1
  <2>3. file'[c] = Sent(keys) /\ \A d \in Calls \ {c} : file'[d] = file[d]
    BY <1>0, <2>2 DEF TypeOK
  <2>4. \A i \in DOMAIN file'[c] : ~Deleted(file'[c][i]) /\ ~Placed(file'[c][i])
    BY <2>3, SentTyped
  <2>5. FilesOf(c) = {} /\ object' = object
    BY <1>0, <1>1 DEF Upload, SuccessMeansAcked
  <2>6. QED
    BY <2>3, <2>4, <2>5 DEF Elsewhere, FilesOf
<1>2. ASSUME NEW c \in Calls, Refuse(c) PROVE FilesStay /\ Elsewhere
  BY <1>2 DEF Refuse, Elsewhere, FilesOf
<1>3. ASSUME NEW c \in Calls, NEW i \in FilesOf(c), PutLands(c, i)
      PROVE  FilesStay /\ Landed(c, i)
  <2>1. PICK g : /\ g = [file[c][i] EXCEPT !.put = "landed"]
                 /\ Replaced(c, i, g)
    BY <1>3 DEF PutLands, Replaced
  <2>2. /\ file'[c][i] = g
        /\ \A d \in Calls : DOMAIN file'[d] = FilesOf(d)
        /\ \A d \in Calls : \A j \in FilesOf(d) :
              <<d, j>> # <<c, i>> => file'[d][j] = file[d][j]
    BY <1>0, <2>1, OneFile
  <2>3. file[c][i].put = "sent"
    BY <1>3 DEF PutLands
  <2>4. /\ g.key = file[c][i].key /\ g.puts = file[c][i].puts
        /\ g.executed = file[c][i].executed /\ ~Gone(file[c][i])
    <3>1. file[c][i] \in File /\ UndoInv(file[c][i], pc[c], answer[c])
      BY FilesTracked
    <3>2. QED
      BY <2>1, <2>3, <3>1, FileLands
  <2>5. FilesStay
    BY <2>2, <2>4 DEF FilesOf, Kept
  <2>6. QED
    BY <1>3, <2>2, <2>4, <2>5 DEF PutLands, Landed, Kept
<1>4. ASSUME NEW c \in Calls, NEW i \in FilesOf(c), PutAcked(c, i)
      PROVE  FilesStay /\ Elsewhere
  <2>1. PICK g : /\ g = [file[c][i] EXCEPT !.put = "acked"]
                 /\ Replaced(c, i, g)
    BY <1>4 DEF PutAcked, Replaced
  <2>2. /\ file'[c][i] = g
        /\ \A d \in Calls : DOMAIN file'[d] = FilesOf(d)
        /\ \A d \in Calls : \A j \in FilesOf(d) :
              <<d, j>> # <<c, i>> => file'[d][j] = file[d][j]
    BY <1>0, <2>1, OneFile
  <2>3. file[c][i].put = "landed"
    BY <1>4 DEF PutAcked
  <2>4. Kept(file[c][i], g)
    <3>1. file[c][i] \in File /\ UndoInv(file[c][i], pc[c], answer[c])
      BY FilesTracked
    <3>2. QED
      BY <2>1, <2>3, <3>1, FileAcked
  <2>5. FilesStay
    BY <2>2, <2>4 DEF FilesOf, Kept
  <2>6. QED
    BY <1>4, <2>2, <2>4, <2>5 DEF PutAcked, Elsewhere, Kept
<1>5. ASSUME NEW c \in Calls, NEW i \in FilesOf(c), PutFails(c, i)
      PROVE  FilesStay /\ Elsewhere
  <2>1. file' = [file EXCEPT ![c] = AfterFailure(c, i)]
    BY <1>5 DEF PutFails
  <2>2. /\ DOMAIN file'[c] = FilesOf(c)
        /\ \A j \in FilesOf(c) : file'[c][j] = AfterFailure(c, i)[j]
        /\ \A d \in Calls \ {c} : file'[d] = file[d]
    BY <1>0, <2>1 DEF AfterFailure, FilesOf, TypeOK
  <2>3. file[c][i].put \in {"sent", "landed"} /\ object' = object
    BY <1>5 DEF PutFails
  <2>4. ASSUME NEW j \in FilesOf(c) PROVE Kept(file[c][j], file'[c][j])
    <3>0. file[c][j] \in File /\ UndoInv(file[c][j], pc[c], answer[c])
      BY FilesTracked
    <3>1. CASE j = i
      <4>1. file'[c][j] = GivenUp(file[c][i])
        BY <2>2, <3>1 DEF AfterFailure
      <4>2. QED
        BY <2>3, <3>0, <3>1, <4>1, FileFails
    <3>2. CASE j # i /\ pc[c] = "multiple" /\ j \in ToUndo(c)
      <4>1. file'[c][j] = [file[c][j] EXCEPT !.undo = "sent", !.deletes = 1]
        BY <2>2, <3>2 DEF AfterFailure
      <4>2. file[c][j].put = "acked" /\ pc[c] \notin {"rollback", "done"}
        BY <3>2 DEF ToUndo
      <4>3. QED
        BY <3>0, <4>1, <4>2, FileUndo
    <3>3. CASE j # i /\ ~(pc[c] = "multiple" /\ j \in ToUndo(c))
      <4>1. file'[c][j] = file[c][j]
        BY <2>2, <3>3 DEF AfterFailure
      <4>2. QED
        BY <4>1 DEF Kept
    <3>4. QED
      BY <3>1, <3>2, <3>3
  <2>5. FilesStay
    BY <2>2, <2>4 DEF Kept, FilesOf
  <2>6. Elsewhere
    BY <2>2, <2>3, <2>4 DEF Elsewhere, Kept, FilesOf
  <2>7. QED
    BY <2>5, <2>6
<1>6. ASSUME NEW c \in Calls, NEW i \in FilesOf(c), DeleteLands(c, i)
      PROVE  FilesStay /\ Removed(c, i)
  <2>1. PICK g : /\ g = [file[c][i] EXCEPT !.executed = @ + 1]
                 /\ Replaced(c, i, g)
    BY <1>6 DEF DeleteLands, Replaced
  <2>2. /\ file'[c][i] = g
        /\ \A d \in Calls : DOMAIN file'[d] = FilesOf(d)
        /\ \A d \in Calls : \A j \in FilesOf(d) :
              <<d, j>> # <<c, i>> => file'[d][j] = file[d][j]
    BY <1>0, <2>1, OneFile
  <2>3. file[c][i].executed < file[c][i].deletes
    BY <1>6 DEF DeleteLands
  <2>4. /\ g.key = file[c][i].key /\ g.put = file[c][i].put
        /\ g.puts = file[c][i].puts /\ Deleted(g)
    <3>1. file[c][i] \in File /\ UndoInv(file[c][i], pc[c], answer[c])
      BY FilesTracked
    <3> HIDE DEF Deleted
    <3>2. QED
      BY <2>1, <2>3, <3>1, FileDeleted
  <2>5. FilesStay
    BY <2>2, <2>4 DEF FilesOf, Kept
  <2>6. QED
    BY <1>6, <2>2, <2>4, <2>5 DEF DeleteLands, Removed, Kept
<1>7. ASSUME NEW c \in Calls, NEW i \in FilesOf(c), DeleteEnds(c, i)
      PROVE  FilesStay /\ Elsewhere
  <2>1. PICK g : /\ g = [file[c][i] EXCEPT !.undo = "over"]
                 /\ Replaced(c, i, g)
    BY <1>7 DEF DeleteEnds, Replaced
  <2>2. /\ file'[c][i] = g
        /\ \A d \in Calls : DOMAIN file'[d] = FilesOf(d)
        /\ \A d \in Calls : \A j \in FilesOf(d) :
              <<d, j>> # <<c, i>> => file'[d][j] = file[d][j]
    BY <1>0, <2>1, OneFile
  <2>3. file[c][i].undo = "sent"
    BY <1>7 DEF DeleteEnds
  <2>4. Kept(file[c][i], g)
    <3>1. file[c][i] \in File /\ UndoInv(file[c][i], pc[c], answer[c])
      BY FilesTracked
    <3>2. QED
      BY <2>1, <2>3, <3>1, FileOver
  <2>5. FilesStay
    BY <2>2, <2>4 DEF FilesOf, Kept
  <2>6. QED
    BY <1>7, <2>2, <2>4, <2>5 DEF DeleteEnds, Elsewhere, Kept
<1>8. ASSUME Crash PROVE FilesStay /\ Elsewhere
  BY <1>8 DEF Crash, Elsewhere, FilesOf
<1>9. ASSUME UNCHANGED vars PROVE FilesStay /\ Elsewhere
  BY <1>9 DEF vars, Elsewhere, FilesOf
<1>10. ASSUME NEW c \in Calls, NEW i \in FilesOf(c), StrayLands(c, i)
      PROVE  FilesStay /\ Landed(c, i)
  <2>1. PICK g : /\ g = [file[c][i] EXCEPT !.astray = @ - 1]
                 /\ Replaced(c, i, g)
    BY <1>10 DEF StrayLands, Replaced
  <2>2. /\ file'[c][i] = g
        /\ \A d \in Calls : DOMAIN file'[d] = FilesOf(d)
        /\ \A d \in Calls : \A j \in FilesOf(d) :
              <<d, j>> # <<c, i>> => file'[d][j] = file[d][j]
    BY <1>0, <2>1, OneFile
  <2>3. file[c][i].astray > 0
    BY <1>10 DEF StrayLands
  <2>4. Kept(file[c][i], g) /\ ~Gone(file[c][i])
    <3>1. file[c][i] \in File /\ UndoInv(file[c][i], pc[c], answer[c])
      BY FilesTracked
    <3>2. QED
      BY <2>1, <2>3, <3>1, FileStrays
  <2>5. FilesStay
    BY <2>2, <2>4 DEF FilesOf, Kept
  <2>6. QED
    BY <1>10, <2>2, <2>4, <2>5 DEF StrayLands, Landed, Kept
<1>11. ASSUME NEW c \in Calls, NEW i \in FilesOf(c), PutRetried(c, i)
      PROVE  FilesStay /\ Elsewhere
  <2>1. PICK g : /\ g = SentAgain(file[c][i])
                 /\ Replaced(c, i, g)
    BY <1>11 DEF PutRetried, Replaced
  <2>2. /\ file'[c][i] = g
        /\ \A d \in Calls : DOMAIN file'[d] = FilesOf(d)
        /\ \A d \in Calls : \A j \in FilesOf(d) :
              <<d, j>> # <<c, i>> => file'[d][j] = file[d][j]
    BY <1>0, <2>1, OneFile
  <2>3. file[c][i].put \in {"sent", "landed"} /\ file[c][i].puts < MaxAttempts
    BY <1>11 DEF PutRetried
  <2>4. /\ g.key = file[c][i].key /\ g.executed = file[c][i].executed
        /\ ~Placed(g) /\ g.puts # 1
    <3>1. file[c][i] \in File /\ UndoInv(file[c][i], pc[c], answer[c])
      BY FilesTracked
    <3>2. QED
      BY <2>1, <2>3, <3>1, FileRetried
  <2>5. FilesStay
    BY <2>2, <2>4 DEF FilesOf, Kept
  <2>6. QED
    BY <1>11, <2>2, <2>4, <2>5 DEF PutRetried, Elsewhere, Kept
<1>12. ASSUME NEW c \in Calls, NEW i \in FilesOf(c), DeleteRetried(c, i)
      PROVE  FilesStay /\ Elsewhere
  <2>1. PICK g : /\ g = [file[c][i] EXCEPT !.deletes = @ + 1]
                 /\ Replaced(c, i, g)
    BY <1>12 DEF DeleteRetried, Replaced
  <2>2. /\ file'[c][i] = g
        /\ \A d \in Calls : DOMAIN file'[d] = FilesOf(d)
        /\ \A d \in Calls : \A j \in FilesOf(d) :
              <<d, j>> # <<c, i>> => file'[d][j] = file[d][j]
    BY <1>0, <2>1, OneFile
  <2>3. file[c][i].undo = "sent" /\ file[c][i].deletes < MaxAttempts
    BY <1>12 DEF DeleteRetried
  <2>4. Kept(file[c][i], g)
    <3>1. file[c][i] \in File /\ UndoInv(file[c][i], pc[c], answer[c])
      BY FilesTracked
    <3>2. QED
      BY <2>1, <2>3, <3>1, FileRedeleted
  <2>5. FilesStay
    BY <2>2, <2>4 DEF FilesOf, Kept
  <2>6. QED
    BY <1>12, <2>2, <2>4, <2>5 DEF DeleteRetried, Elsewhere, Kept
<1>13. QED
  BY <1>1, <1>2, <1>3, <1>4, <1>5, <1>6, <1>7, <1>8, <1>9, <1>10, <1>11, <1>12
     DEF Next, Execute, Settle

LEMMA StoreInit == Init => Store
  BY DEF Init, Store, RolledBackStaysGone, FilesOf

LEMMA StoreStep == Progress /\ Store /\ [Next]_vars => Store'
<1> SUFFICES ASSUME Progress, Store, [Next]_vars PROVE Store'
  OBVIOUS
<1>1. FilesStay
  BY StoreSteps
\* A key that holds what it should goes on doing so if it is not touched.
<1>2. ASSUME NEW c \in Calls, NEW i \in FilesOf(c), KeyHolds(c, i),
             object'[file[c][i].key] = object[file[c][i].key]
      PROVE  KeyHolds(c, i)'
  <2>1. \A f \in Rivals(c, i) :
            /\ f \in Rivals(c, i)'
            /\ Deleted(file[f[1]][f[2]]) => Deleted(file'[f[1]][f[2]])
    BY <1>1 DEF Rivals, FilesStay, FilesOf
  <2>2. QED
    BY <1>1, <1>2, <2>1 DEF KeyHolds, FilesStay
\* Two files of one key are rivals.
<1>3. ASSUME NEW c \in Calls, NEW i \in FilesOf(c), NEW d \in Calls, NEW j \in FilesOf(d),
             <<d, j>> # <<c, i>>, file[d][j].key = file[c][i].key
      PROVE  <<d, j>> \in Rivals(c, i)'
  BY <1>1, <1>3, FilesNumbered DEF Rivals, FilesStay, FilesOf, Progress
<1>4. ASSUME NEW c \in Calls, NEW i \in FilesOf(c)
      PROVE  Nothing # <<c, i>> /\ file[c][i].key \in Keys
  BY FilesNumbered, NothingIsNoFile, MaxFilesPositive DEF File, Progress
<1> USE DEF TypeOK, Progress
<1>5. ASSUME NEW c \in Calls, NEW i \in FilesOf(c), Landed(c, i) PROVE Store'
  <2>1. RolledBackStaysGone'
    <3> SUFFICES ASSUME NEW d \in Calls, NEW j \in DOMAIN file'[d],
                        Gone(file'[d][j])
                 PROVE  object'[file'[d][j].key] # <<d, j>>
      BY DEF RolledBackStaysGone, FilesOf, Gone
    <3>0. /\ j \in FilesOf(d) /\ file'[d][j].key = file[d][j].key
          /\ Gone(file[d][j])
      BY <1>1, <1>5 DEF Landed, FilesStay
    <3>1. <<d, j>> # <<c, i>>
      BY <1>5, <3>0 DEF Landed
    <3>2. object[file[d][j].key] # <<d, j>>
      BY <3>0 DEF Store, RolledBackStaysGone, Gone
    <3>3. QED
      BY <1>4, <1>5, <3>0, <3>1, <3>2 DEF Landed
  <2>2. ASSUME NEW d \in Calls, NEW j \in FilesOf(d), Placed(file'[d][j])
        PROVE  KeyHolds(d, j)'
    <3>1. CASE file[d][j].key = file[c][i].key
      <4>1. object'[file'[d][j].key] = <<c, i>>
        BY <1>1, <1>4, <1>5, <3>1 DEF Landed, FilesStay
      <4>2. <<c, i>> # <<d, j>> => <<c, i>> \in Rivals(d, j)'
        BY <1>3, <3>1
      <4>3. QED
        BY <1>4, <4>1, <4>2 DEF KeyHolds
    <3>2. CASE file[d][j].key # file[c][i].key
      <4>1. KeyHolds(d, j)
        BY <1>1, <1>5, <2>2, <3>2 DEF Landed, Store, FilesStay, FilesOf
      <4>2. object'[file[d][j].key] = object[file[d][j].key]
        BY <1>4, <1>5, <3>2 DEF Landed
      <4>3. QED
        BY <1>2, <4>1, <4>2
    <3>3. QED
      BY <3>1, <3>2
  <2>3. QED
    BY <1>5, <2>1, <2>2 DEF Store, Landed, FilesOf
<1>6. ASSUME NEW c \in Calls, NEW i \in FilesOf(c), Removed(c, i) PROVE Store'
  <2>1. RolledBackStaysGone'
    <3> SUFFICES ASSUME NEW d \in Calls, NEW j \in DOMAIN file'[d],
                        Gone(file'[d][j])
                 PROVE  object'[file'[d][j].key] # <<d, j>>
      BY DEF RolledBackStaysGone, FilesOf, Gone
    <3>0. j \in FilesOf(d) /\ file'[d][j].key = file[d][j].key
      BY <1>1, <1>6 DEF Removed, FilesStay
    <3>1. CASE file[d][j].key = file[c][i].key
      <4>1. object'[file'[d][j].key] = Nothing
        BY <1>4, <1>6, <3>0, <3>1 DEF Removed
      <4>2. QED
        BY <1>4, <3>0, <4>1
    <3>2. CASE file[d][j].key # file[c][i].key
      <4>1. object'[file[d][j].key] = object[file[d][j].key]
        BY <1>4, <1>6, <3>0, <3>2 DEF Removed
      <4>2. Gone(file[d][j])
        BY <1>6, <3>0, <3>2 DEF Removed
      <4>3. QED
        BY <3>0, <4>1, <4>2 DEF Store, RolledBackStaysGone, Gone
    <3>3. QED
      BY <3>1, <3>2
  <2>2. ASSUME NEW d \in Calls, NEW j \in FilesOf(d), Placed(file'[d][j])
        PROVE  KeyHolds(d, j)'
    <3>1. CASE file[d][j].key = file[c][i].key
      <4>1. object'[file'[d][j].key] = Nothing
        BY <1>1, <1>4, <1>6, <3>1 DEF Removed, FilesStay
      <4>2. <<c, i>> # <<d, j>> => <<c, i>> \in Rivals(d, j)'
        BY <1>3, <3>1
      <4>3. QED
        BY <1>6, <4>1, <4>2 DEF KeyHolds, Removed
    <3>2. CASE file[d][j].key # file[c][i].key
      <4>1. KeyHolds(d, j)
        BY <1>1, <1>6, <2>2, <3>2 DEF Removed, Store, FilesStay, FilesOf, Placed
      <4>2. object'[file[d][j].key] = object[file[d][j].key]
        BY <1>4, <1>6, <3>2 DEF Removed
      <4>3. QED
        BY <1>2, <4>1, <4>2
    <3>3. QED
      BY <3>1, <3>2
  <2>3. QED
    BY <1>6, <2>1, <2>2 DEF Store, Removed, FilesOf
<1>7. ASSUME Elsewhere PROVE Store'
  <2>1. RolledBackStaysGone'
    <3> SUFFICES ASSUME NEW d \in Calls, NEW j \in DOMAIN file'[d],
                        Gone(file'[d][j])
                 PROVE  object'[file'[d][j].key] # <<d, j>>
      BY DEF RolledBackStaysGone, FilesOf, Gone
    <3>1. /\ j \in FilesOf(d) /\ file'[d][j].key = file[d][j].key
          /\ Gone(file[d][j]) /\ object' = object
      BY <1>1, <1>7 DEF Elsewhere, FilesStay
    <3>2. QED
      BY <3>1 DEF Store, RolledBackStaysGone, Gone
  <2>2. ASSUME NEW d \in Calls, NEW j \in DOMAIN file'[d], Placed(file'[d][j])
        PROVE  KeyHolds(d, j)'
    BY <1>2, <1>7, <2>2 DEF Elsewhere, Store
  <2>3. QED
    BY <2>1, <2>2 DEF Store, FilesOf
<1>8. QED
  BY <1>5, <1>6, <1>7, StoreSteps

\* What was rolled back comes back only by a PUT that was sent twice, for any
\* number of calls, files and retries.
THEOREM RolledBackCorrect == Spec => []RolledBackStaysGone
<1>1. Store => RolledBackStaysGone
  BY DEF Store
<1>2. QED
  BY <1>1, ProgressInit, ProgressStep, StoreInit, StoreStep, PTL DEF Spec

\* What a success reported is stored, unless a file of the same name was put
\* over it or rolled back, for any number of calls, files and retries.
THEOREM SuccessCorrect == Spec => []SuccessIsStored
<1>1. ASSUME Progress, Store PROVE SuccessIsStored
  <2> SUFFICES ASSUME NEW c \in Calls, answer[c] = "success", NEW i \in FilesOf(c)
               PROVE  /\ object[file[c][i].key] \in {<<c, i>>, Nothing} \cup Rivals(c, i)
                      /\ object[file[c][i].key] = Nothing =>
                            \E f \in Rivals(c, i) : Deleted(file[f[1]][f[2]])
    BY DEF SuccessIsStored
  <2>1. file[c][i].put = "acked" /\ ~Deleted(file[c][i])
    <3>1. file[c][i] \in File /\ UndoInv(file[c][i], pc[c], answer[c])
      BY <1>1, FilesNumbered DEF Progress, OnlyAcked
    <3>2. QED
      BY <1>1, <3>1 DEF Progress, SuccessMeansAcked, UndoInv, File, Deleted
  <2>2. KeyHolds(c, i)
    BY <1>1, <2>1 DEF Store, Placed
  <2>3. QED
    BY <2>1, <2>2 DEF KeyHolds
<1>2. QED
  BY <1>1, ProgressInit, ProgressStep, StoreInit, StoreStep, PTL DEF Spec
=============================================================================

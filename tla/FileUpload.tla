----------------------------- MODULE FileUpload -----------------------------
(***************************************************************************)
(* Uploads to S3: singleUpload, and multipleUpload, which starts all PUTs  *)
(* at once and, at the first failure, deletes the keys acknowledged so far *)
(* and nothing that is acknowledged later.  The S3 client sends a request   *)
(* again when it fails or times out; S3 may execute all that were sent.    *)
(***************************************************************************)
EXTENDS Integers, Sequences, FiniteSets

CONSTANTS
    Calls,     \* calls of the two endpoints
    Keys,      \* subdir, date and name: uploads of one name in a day share it
    MaxFiles,  \* maxCount of FileFieldsInterceptor
    MaxAttempts,   \* maxAttempts of S3Client: a request and its retries
    Nothing

ASSUME MaxFilesPositive == MaxFiles \in Nat \ {0}
ASSUME MaxAttemptsPositive == MaxAttempts \in Nat \ {0}
ASSUME NothingIsNoFile == Nothing \notin Calls \X Nat

VARIABLES
    object,   \* the bucket: which file, <<call, index>>, each key holds
    file,     \* the files of each call
    pc, answer

vars == <<object, file, pc, answer>>

-----------------------------------------------------------------------------
\* put: the last PUT is "sent", "landed" in the bucket or "acked" to the client;
\* "failed": the client has given up.  Of the puts sent, astray ones were given up
\* before S3 executed them, and may still be executed.  undo: the rollback's DELETE
\* is "sent" or "over"; of the deletes sent so far some were executed.
File == [key : Keys, put : {"sent", "landed", "acked", "failed"},
         puts : 1 .. MaxAttempts, astray : Nat,
         undo : {"no", "sent", "over"}, deletes : 0 .. MaxAttempts, executed : Nat]

Deleted(f) == f.executed > 0

FilesOf(c) == DOMAIN file[c]

Finish(c, a) ==
    /\ pc' = [pc EXCEPT ![c] = "done"]
    /\ answer' = [answer EXCEPT ![c] = a]

Keep == UNCHANGED <<pc, answer>>

\* The files of a new call, all sent at once.
Sent(keys) ==
    [i \in DOMAIN keys |->
        [key |-> keys[i], put |-> "sent", puts |-> 1, astray |-> 0,
         undo |-> "no", deletes |-> 0, executed |-> 0]]

\* Mutant: nobody awaits the uploads.
UploadUnawaited(c) ==
    /\ pc[c] = "idle"
    /\ \E n \in 1 .. MaxFiles : \E keys \in [1 .. n -> Keys] :
          file' = [file EXCEPT ![c] = Sent(keys)]
    /\ Finish(c, "success")
    /\ UNCHANGED object

Upload(c) ==
    /\ pc[c] = "idle"
    /\ \E n \in 1 .. MaxFiles : \E keys \in [1 .. n -> Keys] :
        /\ file' = [file EXCEPT ![c] = Sent(keys)]
        /\ \/ pc' = [pc EXCEPT ![c] = "multiple"]
           \/ n = 1 /\ pc' = [pc EXCEPT ![c] = "single"]
    /\ UNCHANGED <<object, answer>>

\* No file, one too large, or of a type that is not allowed.
Refuse(c) ==
    /\ pc[c] = "idle"
    /\ Finish(c, "refused")
    /\ UNCHANGED <<object, file>>

-----------------------------------------------------------------------------
\* S3 executes the PUT that the client waits for.
PutLands(c, i) ==
    /\ file[c][i].put = "sent"
    /\ object' = [object EXCEPT ![file[c][i].key] = <<c, i>>]
    /\ file' = [file EXCEPT ![c][i].put = "landed"]
    /\ Keep

\* S3 executes a PUT, maybe long after anybody has waited for it.
StrayLands(c, i) ==
    /\ file[c][i].astray > 0
    /\ object' = [object EXCEPT ![file[c][i].key] = <<c, i>>]
    /\ file' = [file EXCEPT ![c][i].astray = @ - 1]
    /\ Keep

\* Given up while it may still be on its way to S3.
AstrayAfter(f) == IF f.put = "sent" THEN f.astray + 1 ELSE f.astray

SentAgain(f) ==
    [f EXCEPT !.put = "sent", !.puts = @ + 1, !.astray = AstrayAfter(f)]

GivenUp(f) == [f EXCEPT !.put = "failed", !.astray = AstrayAfter(f)]

\* The client got an error or no answer, and sends the PUT again.
PutRetried(c, i) ==
    /\ answer[c] # "lost"
    /\ file[c][i].put \in {"sent", "landed"}
    /\ file[c][i].puts < MaxAttempts
    /\ file' = [file EXCEPT ![c][i] = SentAgain(@)]
    /\ Keep
    /\ UNCHANGED object

\* The key is pushed to uploadedKeys; with the last one the call succeeds.
PutAcked(c, i) ==
    /\ file[c][i].put = "landed"
    /\ file' = [file EXCEPT ![c][i].put = "acked"]
    /\ IF /\ pc[c] \in {"single", "multiple"}
          /\ \A j \in FilesOf(c) \ {i} : file[c][j].put = "acked"
       THEN Finish(c, "success") ELSE Keep
    /\ UNCHANGED object

\* Mutant: keys are pushed before their upload is awaited.
ToUndoAll(c) == FilesOf(c)

\* uploadedKeys at this moment.
ToUndo(c) == {j \in FilesOf(c) : file[c][j].put = "acked"}

\* The first failure of multipleUpload starts the rollback; later ones change
\* nothing.
AfterFailure(c, i) ==
    [j \in FilesOf(c) |->
        IF j = i THEN GivenUp(file[c][i])
        ELSE IF pc[c] = "multiple" /\ j \in ToUndo(c)
        THEN [file[c][j] EXCEPT !.undo = "sent", !.deletes = 1]
        ELSE file[c][j]]

\* An error that is not tried again, or no attempt is left.
PutFails(c, i) ==
    /\ file[c][i].put \in {"sent", "landed"}
    /\ file' = [file EXCEPT ![c] = AfterFailure(c, i)]
    /\ CASE pc[c] = "multiple" /\ ToUndo(c) # {} ->
                pc' = [pc EXCEPT ![c] = "rollback"] /\ UNCHANGED answer
         [] pc[c] = "single" \/ (pc[c] = "multiple" /\ ToUndo(c) = {}) ->
                Finish(c, "failed")
         [] OTHER -> Keep
    /\ UNCHANGED object

\* Mutant: the rollback waits until every DELETE was executed.
AllDeleted(c, i) ==
    IF /\ pc[c] = "rollback"
       /\ \A j \in FilesOf(c) : file[c][j].undo # "no" => Deleted(file[c][j])
       /\ \A j \in FilesOf(c) \ {i} : file[c][j].undo # "sent"
    THEN Finish(c, "failed") ELSE Keep

\* All DELETEs are over, one way or the other.
Undone(c, i) ==
    IF /\ pc[c] = "rollback"
       /\ \A j \in FilesOf(c) \ {i} : file[c][j].undo # "sent"
    THEN Finish(c, "failed") ELSE Keep

\* S3 executes one of the DELETEs sent, maybe late, maybe another time.
DeleteLands(c, i) ==
    /\ file[c][i].executed < file[c][i].deletes
    /\ object' = [object EXCEPT ![file[c][i].key] = Nothing]
    /\ file' = [file EXCEPT ![c][i].executed = @ + 1]
    /\ Keep

DeleteRetried(c, i) ==
    /\ pc[c] = "rollback"
    /\ file[c][i].undo = "sent"
    /\ file[c][i].deletes < MaxAttempts
    /\ file' = [file EXCEPT ![c][i].deletes = @ + 1]
    /\ Keep
    /\ UNCHANGED object

\* With an answer or without one: failures are logged and not thrown.
DeleteEnds(c, i) ==
    /\ file[c][i].undo = "sent"
    /\ file' = [file EXCEPT ![c][i].undo = "over"]
    /\ Undone(c, i)
    /\ UNCHANGED object

\* The process dies.  What is on its way to S3 may still arrive.
Crash ==
    /\ \E c \in Calls : pc[c] \notin {"idle", "done"}
    /\ pc' = [c \in Calls |-> IF pc[c] = "idle" THEN "idle" ELSE "done"]
    /\ answer' = [c \in Calls |->
                     IF pc[c] \in {"idle", "done"} THEN answer[c] ELSE "lost"]
    /\ UNCHANGED <<object, file>>

Init ==
    /\ object = [k \in Keys |-> Nothing]
    /\ file = [c \in Calls |-> <<>>]
    /\ pc = [c \in Calls |-> "idle"]
    /\ answer = [c \in Calls |-> "none"]

\* What S3 does with what was sent to it, and what the client hears of it.
Execute(c, i) == PutLands(c, i) \/ StrayLands(c, i) \/ DeleteLands(c, i)

Settle(c) ==
    \E i \in FilesOf(c) :
        \/ PutAcked(c, i) \/ PutFails(c, i) \/ PutRetried(c, i)
        \/ DeleteEnds(c, i) \/ DeleteRetried(c, i)

Next ==
    \/ Crash
    \/ \E c \in Calls :
        \/ Upload(c) \/ Refuse(c) \/ Settle(c)
        \/ \E i \in FilesOf(c) : Execute(c, i)

Spec == Init /\ [][Next]_vars

\* Every request of the client ends: with an answer, an error or a timeout.
FairSpec == Spec /\ \A c \in Calls : WF_vars(Settle(c))

-----------------------------------------------------------------------------
(* Properties.                                                             *)

\* The bucket and the calls hold values of their kind; at most MaxFiles files
\* are taken.
TypeOK ==
    /\ object \in [Keys -> {Nothing} \cup (Calls \X (1 .. MaxFiles))]
    /\ file \in [Calls -> Seq(File)]
    /\ \A c \in Calls : Len(file[c]) <= MaxFiles
    /\ pc \in [Calls -> {"idle", "single", "multiple", "rollback", "done"}]
    /\ answer \in [Calls -> {"none", "refused", "success", "failed", "lost"}]

\* The other files that were given the same key.
Rivals(c, i) ==
    {f \in Calls \X (1 .. MaxFiles) :
        /\ f # <<c, i>> /\ f[2] \in FilesOf(f[1])
        /\ file[f[1]][f[2]].key = file[c][i].key}

\* A file of a call that was answered success is in the bucket, unless another
\* of the same name was put over it or the rollback of a failed call, which had
\* a file of the same name, deleted it.
SuccessIsStored ==
    \A c \in Calls : answer[c] = "success" => \A i \in FilesOf(c) :
        LET at == object[file[c][i].key] IN
        /\ at \in {<<c, i>>, Nothing} \cup Rivals(c, i)
        /\ at = Nothing => \E f \in Rivals(c, i) : Deleted(file[f[1]][f[2]])

\* What the rollback has deleted stays deleted: if it comes back, then by a PUT of
\* which the client had sent a second one.
RolledBackStaysGone ==
    \A c \in Calls : \A i \in FilesOf(c) :
        Deleted(file[c][i]) /\ file[c][i].puts = 1 =>
            object[file[c][i].key] # <<c, i>>

\* Every call is answered, after its rollback, too.
EveryCallAnswered ==
    \A c \in Calls : pc[c] \notin {"idle", "done"} ~> pc[c] = "done"
=============================================================================

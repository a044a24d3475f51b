------------------------- MODULE GranuleFetchProofs -------------------------
(***************************************************************************)
(* Proofs about GranuleFetch, for any granules, file names and limits.     *)
(*                                                                         *)
(*   FetchTypeCorrect      the call's tasks, files and archive keep types  *)
(*   FetchKeepsItsPromise  the fetch implements Bundle                     *)
(*                                                                         *)
(* The second rests on an invariant that follows a granule from its task   *)
(* to its file, the archive and the stored blob.                           *)
(***************************************************************************)
EXTENDS GranuleFetch, TLAPS

-----------------------------------------------------------------------------
(* The invariant *)

Whole(u) == [of |-> u, whole |-> TRUE]

\* An attempt is left for a task that has yet to make one.
TriesLeft ==
    \A i \in DOMAIN asked : task[i].pc \in {"limiter", "waiting"} => task[i].tries < Attempts

\* A task that is done has left its granule's file, whole.
FilesWhole ==
    \A i \in DOMAIN asked : task[i].pc = "done" => disk[PathOf(i)] = Whole(asked[i])

\* A call whose tasks did not all finish has an error to raise.
FailuresKnown ==
    errors = <<>> => \A i \in DOMAIN asked : task[i].pc \notin {"failed", "cancelled"}

\* What the call has to show for each phase.
PhaseInv ==
    /\ phase = "idle" => asked = <<>>
    /\ phase \in {"idle", "fetch", "zip"} => ~copying /\ ~blob.whole
    /\ phase = "zip" => \A i \in DOMAIN asked : task[i].pc = "done"
    /\ phase \in {"put", "stored"} => zip = Promise!Members(asked)

\* What is in storage while the archive is copied, and after.
BlobInv ==
    /\ copying => ~blob.whole
    /\ phase = "put" /\ (copying \/ blob.whole) => blob.members = zip
    /\ phase = "stored" => blob.whole /\ blob.members = zip

FetchInv == FetchTypeOK /\ TriesLeft /\ FilesWhole /\ FailuresKnown /\ PhaseInv /\ BlobInv

-----------------------------------------------------------------------------
(* Types *)

LEMMA AskedDomain ==
    ASSUME FetchTypeOK
    PROVE  /\ asked \in Seq(Urls) /\ DOMAIN asked = 1..Len(asked)
           /\ DOMAIN asked \subseteq Positions
           /\ \A i \in DOMAIN asked : asked[i] \in Urls
  <1>1. asked \in Seq(Urls) /\ Len(asked) \in 0..MaxGranules
    BY FetchLimits DEF FetchTypeOK, Calls, Positions
  <1> QED
    BY <1>1, FetchLimits DEF Positions

\* Tasks write to paths of their own.
LEMMA PathsApart ==
    ASSUME FetchTypeOK, NEW i \in DOMAIN asked, NEW j \in DOMAIN asked
    PROVE  PathOf(i) \in Paths /\ (PathOf(i) = PathOf(j) => i = j)
  BY AskedDomain DEF PathOf, Paths

LEMMA TaskType ==
    ASSUME FetchTypeOK, NEW i \in DOMAIN asked
    PROVE  task[i] \in TaskStates /\ task[i].tries \in 0..Attempts
  BY DEF FetchTypeOK, TaskStates

\* A call that fails without an error of its tasks has one.
LEMMA OneError ==
    ASSUME NEW error \in Errors
    PROVE  <<error>> \in Seq(Errors) /\ <<error>> # <<>>
  OBVIOUS

LEMMA InitType == FetchInit => FetchTypeOK
  <1> SUFFICES ASSUME FetchInit PROVE FetchTypeOK
    OBVIOUS
  <1>1. task \in [DOMAIN asked -> TaskStates]
    BY DEF FetchInit
  <1>2. disk \in [Paths -> Files \cup {NoFile}]
    BY DEF FetchInit
  <1>3. errors \in Seq(Errors) /\ zip \in Seq(Files \cup {NoFile})
    BY DEF FetchInit
  <1>4. blob \in [whole: BOOLEAN, members: Seq(Files \cup {NoFile})]
    <2>1. <<>> \in Seq(Files \cup {NoFile})
      OBVIOUS
    <2> QED
      BY <2>1 DEF FetchInit, NoBlob
  <1>5. asked \in Calls \cup {<<>>} /\ phase = "idle" /\ copying \in BOOLEAN
    BY DEF FetchInit
  <1>6. holder \in Positions \cup {Nobody} /\ tokens \in 0..Burst
    BY FetchLimits DEF FetchInit
  <1> QED
    BY <1>1, <1>2, <1>3, <1>4, <1>5, <1>6 DEF FetchTypeOK

LEMMA StartType ==
    ASSUME FetchTypeOK, NEW urls \in Calls, FetchStart(urls)
    PROVE  FetchTypeOK'
  <1>1. task' \in [DOMAIN asked' -> TaskStates]
    BY FetchLimits DEF FetchStart, TaskStates
  <1> QED
    BY <1>1 DEF FetchTypeOK, FetchStart

LEMMA LimiterType ==
    ASSUME FetchTypeOK, NEW i \in Positions,
           AcquireLock(i) \/ TakeToken(i)
    PROVE  FetchTypeOK'
  <1>1. CASE AcquireLock(i)
    BY <1>1 DEF FetchTypeOK, AcquireLock
  <1>2. CASE TakeToken(i)
    <2>1. i \in DOMAIN asked /\ [task[i] EXCEPT !.pc = "waiting"] \in TaskStates
      BY <1>2, TaskType DEF TakeToken, At, TaskStates
    <2>2. task' \in [DOMAIN asked -> TaskStates]
      BY <1>2, <2>1 DEF FetchTypeOK, TakeToken
    <2>3. tokens' \in 0..Burst
      BY <1>2, FetchLimits DEF FetchTypeOK, TakeToken
    <2> QED
      BY <1>2, <2>2, <2>3 DEF FetchTypeOK, TakeToken
  <1> QED
    BY <1>1, <1>2

LEMMA BucketType ==
    ASSUME FetchTypeOK, Refill \/ OtherTakes
    PROVE  FetchTypeOK'
  <1>1. tokens' \in 0..Burst
    BY FetchLimits DEF FetchTypeOK, Refill, OtherTakes
  <1> QED
    BY <1>1 DEF FetchTypeOK, Refill, OtherTakes

LEMMA FailType ==
    ASSUME FetchTypeOK, NEW i \in DOMAIN asked, NEW error \in Errors, Fails(i, error)
    PROVE  FetchTypeOK'
  <1>1. [task[i] EXCEPT !.pc = "failed"] \in TaskStates
    BY TaskType DEF TaskStates, Ended
  <1>2. task' \in [DOMAIN asked -> TaskStates]
    BY <1>1 DEF FetchTypeOK, Fails
  <1>3. errors' \in Seq(Errors)
    BY DEF FetchTypeOK, Fails
  <1> QED
    BY <1>2, <1>3 DEF FetchTypeOK, Fails

LEMMA AttemptType ==
    ASSUME FetchTypeOK, TriesLeft, NEW i \in Positions,
           Request(i) \/ Transient(i) \/ Refused(i) \/ Body(i) \/ Finish(i) \/ Break(i)
    PROVE  FetchTypeOK'
  <1>1. i \in DOMAIN asked /\ task[i] \in TaskStates /\ task[i].tries \in 0..Attempts
    BY TaskType DEF Request, Transient, Refused, Body, Finish, Break, At
  <1>2. CASE Request(i)
    <2>1. [pc |-> "request", tries |-> task[i].tries + 1] \in TaskStates
      BY <1>1, <1>2, FetchLimits DEF TriesLeft, Request, At, TaskStates
    <2>2. task' \in [DOMAIN asked -> TaskStates]
      BY <1>2, <2>1 DEF FetchTypeOK, Request
    <2> QED
      BY <1>2, <2>2 DEF FetchTypeOK, Request
  <1>3. CASE Transient(i)
    <2>1. CASE Fails(i, "unavailable")
      BY <1>1, <2>1, FailType DEF Errors
    <2>2. CASE ~Fails(i, "unavailable")
      <3>1. [task[i] EXCEPT !.pc = "waiting"] \in TaskStates
        BY <1>1 DEF TaskStates
      <3>2. task' \in [DOMAIN asked -> TaskStates]
        BY <1>3, <2>2, <3>1 DEF FetchTypeOK, Transient
      <3> QED
        BY <1>3, <2>2, <3>2 DEF FetchTypeOK, Transient
    <2> QED
      BY <2>1, <2>2
  <1>4. CASE Refused(i) \/ Break(i)
    <2>1. PICK error \in Errors : Fails(i, error)
      BY <1>4 DEF Refused, Break, Errors
    <2> QED
      BY <1>1, <2>1, FailType
  <1>5. CASE Body(i) \/ Finish(i)
    <2>1. \A pc \in {"body", "done"} : [task[i] EXCEPT !.pc = pc] \in TaskStates
      BY <1>1 DEF TaskStates, Ended
    <2>2. task' \in [DOMAIN asked -> TaskStates]
      BY <1>5, <2>1 DEF FetchTypeOK, Body, Finish
    <2>3. \A b \in BOOLEAN : [of |-> asked[i], whole |-> b] \in Files
      BY <1>1, AskedDomain DEF Files
    <2>4. disk' \in [Paths -> Files \cup {NoFile}]
      BY <1>5, <2>3 DEF FetchTypeOK, Body, Finish
    <2> QED
      BY <1>5, <2>2, <2>4 DEF FetchTypeOK, Body, Finish
  <1> QED
    BY <1>2, <1>3, <1>4, <1>5

LEMMA CancelledType ==
    ASSUME FetchTypeOK, NEW i \in DOMAIN asked
    PROVE  /\ Cancelled(task[i]) \in TaskStates
           /\ Cancelled(task[i]).pc \in {task[i].pc, "cancelled"}
           /\ Cancelled(task[i]).tries = task[i].tries
           /\ Cancelled(task[i]).pc \in Ended
  BY TaskType DEF Cancelled, TaskStates, Ended

LEMMA GroupType ==
    ASSUME FetchTypeOK, (\E i \in Positions : Cancel(i)) \/ GroupEnds \/ Timeout
    PROVE  FetchTypeOK'
  <1>1. ASSUME NEW i \in Positions, Cancel(i) PROVE FetchTypeOK'
    <2>1. task' \in [DOMAIN asked -> TaskStates]
      BY <1>1, CancelledType DEF FetchTypeOK, Cancel
    <2> QED
      BY <1>1, <2>1 DEF FetchTypeOK, Cancel, Nobody
  <1>2. CASE GroupEnds
    BY <1>2 DEF FetchTypeOK, GroupEnds
  <1>3. CASE Timeout
    <2>1. task' \in [DOMAIN asked -> TaskStates]
      BY <1>3, CancelledType DEF Timeout
    <2>2. errors' \in Seq(Errors)
      <3>1. "timeout" \in Errors
        BY DEF Errors
      <3>2. errors' = errors \/ errors' = <<"timeout">>
        BY <1>3 DEF Timeout
      <3> QED
        BY <3>1, <3>2, OneError DEF FetchTypeOK
    <2> QED
      BY <1>3, <2>1, <2>2 DEF FetchTypeOK, Timeout, Nobody
  <1> QED
    BY <1>1, <1>2, <1>3

LEMMA StoreType ==
    ASSUME FetchTypeOK, Zip \/ CopyStarts \/ CopyEnds \/ CopyFails \/ Return
    PROVE  FetchTypeOK'
  <1>1. CASE Zip
    <2>1. \A i \in 1..Len(asked) : disk[PathOf(i)] \in Files \cup {NoFile}
      BY AskedDomain, PathsApart DEF FetchTypeOK
    <2>2. Len(asked) \in Nat
      BY AskedDomain
    <2>3. ASSUME NEW F, NEW n \in Nat, NEW f, \A i \in 1..n : f[i] \in F,
                 f = [i \in 1..n |-> f[i]]
          PROVE  f \in Seq(F)
      BY <2>3
    <2>4. zip' \in Seq(Files \cup {NoFile})
      <3> DEFINE archive == [i \in 1..Len(asked) |-> disk[PathOf(i)]]
      <3>1. \A i \in 1..Len(asked) : archive[i] \in Files \cup {NoFile}
        BY <2>1
      <3>2. archive = [i \in 1..Len(asked) |-> archive[i]]
        OBVIOUS
      <3>3. zip' = archive
        BY <1>1 DEF Zip
      <3> HIDE DEF archive
      <3> QED
        BY <2>2, <2>3, <3>1, <3>2, <3>3
    <2> QED
      BY <1>1, <2>4 DEF FetchTypeOK, Zip
  <1>2. CASE CopyStarts \/ CopyEnds
    <2> DEFINE Archives == Seq(Files \cup {NoFile})
    <2>1. zip \in Archives /\ blob \in [whole: BOOLEAN, members: Archives]
      BY DEF FetchTypeOK
    <2>2. blob' \in [whole: BOOLEAN, members: Archives]
      <3> HIDE DEF Archives
      <3>1. CASE CopyStarts
        BY <2>1, <3>1 DEF CopyStarts
      <3>2. CASE CopyEnds
        BY <2>1, <3>2 DEF CopyEnds
      <3> QED
        BY <1>2, <3>1, <3>2
    <2> QED
      BY <1>2, <2>2 DEF FetchTypeOK, CopyStarts, CopyEnds
  <1>3. CASE CopyFails
    <2>1. errors' \in Seq(Errors)
      <3>1. "error" \in Errors
        BY DEF Errors
      <3>2. errors' = errors \/ errors' = <<"error">>
        BY <1>3 DEF CopyFails
      <3> QED
        BY <3>1, <3>2, OneError DEF FetchTypeOK
    <2> QED
      BY <1>3, <2>1 DEF FetchTypeOK, CopyFails
  <1>4. CASE Return
    BY <1>4 DEF FetchTypeOK, Return
  <1> QED
    BY <1>1, <1>2, <1>3, <1>4

LEMMA TypeStep ==
    ASSUME FetchTypeOK, TriesLeft, [FetchNext]_fetchVars
    PROVE  FetchTypeOK'
  <1>1. CASE FetchNext
    <2>1. ASSUME NEW urls \in Calls, FetchStart(urls) PROVE FetchTypeOK'
      BY <2>1, StartType
    <2>2. ASSUME NEW i \in Positions, AcquireLock(i) \/ TakeToken(i) PROVE FetchTypeOK'
      BY <2>2, LimiterType
    <2>3. CASE Refill \/ OtherTakes
      BY <2>3, BucketType
    <2>4. ASSUME NEW i \in Positions,
                 \/ Request(i) \/ Transient(i) \/ Refused(i)
                 \/ Body(i) \/ Finish(i) \/ Break(i)
          PROVE  FetchTypeOK'
      BY <2>4, AttemptType
    <2>5. CASE (\E i \in Positions : Cancel(i)) \/ GroupEnds \/ Timeout
      BY <2>5, GroupType
    <2>6. CASE Zip \/ CopyStarts \/ CopyEnds \/ CopyFails \/ Return
      BY <2>6, StoreType
    <2> QED
      BY <1>1, <2>1, <2>2, <2>3, <2>4, <2>5, <2>6 DEF FetchNext, FetchStep, FetchWork
  <1>2. CASE UNCHANGED fetchVars
    BY <1>2 DEF FetchTypeOK, fetchVars
  <1> QED
    BY <1>1, <1>2

-----------------------------------------------------------------------------
(* The invariant, step by step *)

\* A step in the tasks of a call that is fetching keeps what is said of the
\* other phases and of storage.
LEMMA StillFetching ==
    ASSUME FetchInv, phase = "fetch", UNCHANGED <<asked, phase, zip, copying, blob>>
    PROVE  PhaseInv' /\ BlobInv'
  BY DEF FetchInv, PhaseInv, BlobInv

\* Files are as they were, and no task is newly done.
LEMMA NoneDone ==
    ASSUME FetchInv, UNCHANGED <<asked, disk>>,
           \A i \in DOMAIN asked : task'[i].pc = "done" => task[i].pc = "done"
    PROVE  FilesWhole'
  <1>1. \A i \in DOMAIN asked : PathOf(i)' = PathOf(i)
    BY DEF PathOf
  <1> QED
    BY <1>1 DEF FetchInv, FilesWhole

LEMMA StartInv ==
    ASSUME FetchInv, NEW urls \in Calls, FetchStart(urls)
    PROVE  TriesLeft' /\ FilesWhole' /\ FailuresKnown' /\ PhaseInv' /\ BlobInv'
  <1>1. \A i \in DOMAIN asked' : task'[i] = [pc |-> "limiter", tries |-> 0]
    BY DEF FetchStart
  <1>2. TriesLeft' /\ FilesWhole' /\ FailuresKnown'
    BY <1>1, FetchLimits DEF TriesLeft, FilesWhole, FailuresKnown
  <1>3. PhaseInv' /\ BlobInv'
    BY DEF FetchStart, FetchInv, PhaseInv, BlobInv
  <1> QED
    BY <1>2, <1>3

LEMMA LimiterInv ==
    ASSUME FetchInv, NEW i \in Positions, AcquireLock(i) \/ TakeToken(i)
    PROVE  TriesLeft' /\ FilesWhole' /\ FailuresKnown' /\ PhaseInv' /\ BlobInv'
  <1>1. PhaseInv' /\ BlobInv'
    BY StillFetching DEF AcquireLock, TakeToken, At
  <1>2. CASE AcquireLock(i)
    <2>1. FilesWhole'
      BY <1>2, NoneDone DEF AcquireLock
    <2> QED
      BY <1>1, <1>2, <2>1 DEF AcquireLock, FetchInv, TriesLeft, FailuresKnown
  <1>3. CASE TakeToken(i)
    <2>1. /\ i \in DOMAIN asked /\ task[i].pc = "limiter"
          /\ UNCHANGED <<asked, disk, errors>>
      BY <1>3 DEF TakeToken, At
    <2>2. \A j \in DOMAIN asked :
             /\ task'[j].tries = task[j].tries
             /\ task'[j].pc = IF j = i THEN "waiting" ELSE task[j].pc
      BY <1>3, TaskType DEF TakeToken, FetchInv, FetchTypeOK, TaskStates
    <2>3. FilesWhole'
      BY <2>1, <2>2, NoneDone
    <2> QED
      BY <1>1, <2>1, <2>2, <2>3 DEF FetchInv, TriesLeft, FailuresKnown
  <1> QED
    BY <1>2, <1>3

LEMMA BucketInv ==
    ASSUME FetchInv, Refill \/ OtherTakes
    PROVE  TriesLeft' /\ FilesWhole' /\ FailuresKnown' /\ PhaseInv' /\ BlobInv'
  <1>1. UNCHANGED <<asked, phase, task, disk, errors, zip, copying, blob>>
    BY DEF Refill, OtherTakes
  <1>2. FilesWhole'
    BY <1>1, NoneDone
  <1> QED
    BY <1>1, <1>2 DEF FetchInv, TriesLeft, FailuresKnown, PhaseInv, BlobInv

LEMMA FailInv ==
    ASSUME FetchInv, phase = "fetch", NEW i \in DOMAIN asked, NEW error, Fails(i, error)
    PROVE  TriesLeft' /\ FilesWhole' /\ FailuresKnown' /\ PhaseInv' /\ BlobInv'
  <1>1. PhaseInv' /\ BlobInv'
    BY StillFetching DEF Fails
  <1>2. \A j \in DOMAIN asked :
           /\ task'[j].tries = task[j].tries
           /\ task'[j].pc = IF j = i THEN "failed" ELSE task[j].pc
    BY TaskType DEF Fails, FetchInv, FetchTypeOK, TaskStates
  <1>3. UNCHANGED <<asked, disk>> /\ errors' # <<>>
    BY DEF Fails, FetchInv, FetchTypeOK
  <1>4. FilesWhole'
    BY <1>2, <1>3, NoneDone
  <1> QED
    BY <1>1, <1>2, <1>3, <1>4 DEF FetchInv, TriesLeft, FailuresKnown

LEMMA AttemptInv ==
    ASSUME FetchInv, NEW i \in Positions,
           Request(i) \/ Transient(i) \/ Refused(i) \/ Body(i) \/ Finish(i) \/ Break(i)
    PROVE  TriesLeft' /\ FilesWhole' /\ FailuresKnown' /\ PhaseInv' /\ BlobInv'
  <1>1. /\ phase = "fetch" /\ i \in DOMAIN asked
        /\ task[i].pc \in {"waiting", "request", "body"}
        /\ task[i] \in TaskStates /\ task[i].tries \in 0..Attempts
    BY TaskType DEF Request, Transient, Refused, Body, Finish, Break, At, FetchInv
  <1>2. CASE Refused(i) \/ Break(i)
    BY <1>1, <1>2, FailInv DEF Refused, Break
  <1>3. CASE Transient(i) /\ task[i].tries = Attempts
    BY <1>1, <1>3, FailInv DEF Transient
  <1>4. CASE Request(i) \/ (Transient(i) /\ task[i].tries # Attempts)
    <2>1. UNCHANGED <<asked, phase, disk, errors, zip, copying, blob>>
      BY <1>4 DEF Request, Transient
    <2>2. \A j \in DOMAIN asked :
             \/ task'[j] = task[j]
             \/ task'[j].pc = "request"
             \/ task'[j].pc = "waiting" /\ task'[j].tries < Attempts
      <3>1. CASE Request(i)
        BY <1>1, <3>1 DEF Request, FetchInv, FetchTypeOK
      <3>2. CASE Transient(i) /\ task[i].tries # Attempts
        BY <1>1, <3>2, FetchLimits DEF Transient, FetchInv, FetchTypeOK, TaskStates
      <3> QED
        BY <1>4, <3>1, <3>2
    <2>3. FilesWhole'
      BY <2>1, <2>2, NoneDone
    <2> QED
      BY <1>1, <2>1, <2>2, <2>3, StillFetching DEF FetchInv, TriesLeft, FailuresKnown
  <1>5. CASE Body(i) \/ Finish(i)
    <2>1. UNCHANGED <<asked, phase, errors, zip, copying, blob>>
      BY <1>5 DEF Body, Finish
    <2>2. \A j \in DOMAIN asked :
             IF j = i
             THEN task'[j].pc = "body" \/ (task'[j].pc = "done" /\ Finish(i))
             ELSE task'[j] = task[j]
      BY <1>1, <1>5 DEF Body, Finish, FetchInv, FetchTypeOK, TaskStates
    <2>3. \A j \in DOMAIN asked \ {i} : disk'[PathOf(j)] = disk[PathOf(j)]
      BY <1>1, <1>5, PathsApart DEF Body, Finish, FetchInv, FetchTypeOK
    <2>4. Finish(i) => disk'[PathOf(i)] = Whole(asked[i])
      BY <1>1, PathsApart DEF Finish, FetchInv, FetchTypeOK, Whole
    <2>5. \A j \in DOMAIN asked : PathOf(j)' = PathOf(j)
      BY <2>1 DEF PathOf
    <2>6. FilesWhole'
      <3> SUFFICES ASSUME NEW j \in DOMAIN asked, task'[j].pc = "done"
                   PROVE  disk'[PathOf(j)] = Whole(asked[j])
        BY <2>1, <2>5 DEF FilesWhole, Whole
      <3> QED
        BY <2>2, <2>3, <2>4 DEF FetchInv, FilesWhole
    <2> QED
      BY <1>1, <2>1, <2>2, <2>6, StillFetching DEF FetchInv, TriesLeft, FailuresKnown
  <1> QED
    BY <1>2, <1>3, <1>4, <1>5

LEMMA GroupInv ==
    ASSUME FetchInv, (\E i \in Positions : Cancel(i)) \/ GroupEnds \/ Timeout
    PROVE  TriesLeft' /\ FilesWhole' /\ FailuresKnown' /\ PhaseInv' /\ BlobInv'
  <1> USE DEF FetchInv
  <1>1. ASSUME NEW i \in Positions, Cancel(i)
        PROVE  TriesLeft' /\ FilesWhole' /\ FailuresKnown' /\ PhaseInv' /\ BlobInv'
    <2>1. \A j \in DOMAIN asked : \/ task'[j] = task[j]
                                  \/ task'[j].pc = "cancelled"
      BY <1>1, CancelledType DEF Cancel, FetchTypeOK
    <2>2. UNCHANGED <<asked, phase, disk, errors, zip, copying, blob>> /\ errors # <<>>
      BY <1>1 DEF Cancel
    <2>3. FilesWhole'
      BY <2>1, <2>2, NoneDone
    <2> QED
      BY <1>1, <2>1, <2>2, <2>3, StillFetching DEF Cancel, TriesLeft, FailuresKnown
  <1>2. CASE GroupEnds
    <2>1. UNCHANGED <<asked, task, disk, errors, zip, copying, blob>>
      BY <1>2 DEF GroupEnds
    <2>2. FilesWhole'
      BY <2>1, NoneDone
    <2>3. PhaseInv'
      BY <1>2, <2>1 DEF GroupEnds, AllEnded, Ended, FailuresKnown, PhaseInv
    <2>4. BlobInv'
      BY <1>2, <2>1 DEF GroupEnds, PhaseInv, BlobInv
    <2> QED
      BY <2>1, <2>2, <2>3, <2>4 DEF TriesLeft, FailuresKnown
  <1>3. CASE Timeout
    <2>1. UNCHANGED <<asked, disk, zip, copying, blob>> /\ phase' = "failed"
      BY <1>3 DEF Timeout
    <2>2. \A j \in DOMAIN asked : task'[j].pc \in {task[j].pc, "cancelled"} /\ task'[j].pc \in Ended
      BY <1>3, CancelledType DEF Timeout
    <2>3. errors' # <<>>
      BY <1>3, OneError DEF Timeout, Errors
    <2>4. FilesWhole'
      BY <2>1, <2>2, NoneDone
    <2> QED
      BY <2>1, <2>2, <2>3, <2>4
         DEF TriesLeft, FailuresKnown, PhaseInv, BlobInv, Ended
  <1> QED
    BY <1>1, <1>2, <1>3

LEMMA StoreInv ==
    ASSUME FetchInv, Zip \/ CopyStarts \/ CopyEnds \/ CopyFails \/ Return
    PROVE  TriesLeft' /\ FilesWhole' /\ FailuresKnown' /\ PhaseInv' /\ BlobInv'
  <1> USE DEF FetchInv
  <1>1. UNCHANGED <<asked, task, disk>> /\ (errors' = <<>> => errors = <<>>)
    BY OneError DEF Zip, CopyStarts, CopyEnds, CopyFails, Return, Errors
  <1>2. TriesLeft' /\ FilesWhole' /\ FailuresKnown'
    BY <1>1, NoneDone DEF TriesLeft, FailuresKnown
  <1>3. CASE Zip
    <2>1. \A i \in 1..Len(asked) : disk[PathOf(i)] = Whole(asked[i])
      BY <1>3, AskedDomain DEF Zip, PhaseInv, FilesWhole
    <2>2. zip' = Promise!Members(asked)
      BY <1>3, <2>1 DEF Zip, Promise!Members, Whole
    <2>3. PhaseInv'
      BY <1>3, <2>2 DEF Zip, PhaseInv, Promise!Members
    <2>4. BlobInv'
      BY <1>3 DEF Zip, PhaseInv, BlobInv
    <2> QED
      BY <1>2, <2>3, <2>4
  <1>4. CASE CopyStarts \/ CopyEnds
    <2>1. PhaseInv'
      BY <1>4 DEF CopyStarts, CopyEnds, PhaseInv, Promise!Members
    <2>2. BlobInv'
      BY <1>4 DEF CopyStarts, CopyEnds, PhaseInv, BlobInv, FetchTypeOK
    <2> QED
      BY <1>2, <2>1, <2>2
  <1>5. CASE CopyFails \/ Return
    BY <1>2, <1>5 DEF CopyFails, Return, PhaseInv, BlobInv, Promise!Members
  <1> QED
    BY <1>3, <1>4, <1>5

LEMMA InitInv == FetchInit => FetchInv
  <1> SUFFICES ASSUME FetchInit PROVE FetchInv
    OBVIOUS
  <1>1. asked = <<>> /\ DOMAIN asked = {}
    BY DEF FetchInit
  <1> QED
    BY <1>1, InitType
       DEF FetchInit, FetchInv, TriesLeft, FilesWhole, FailuresKnown, PhaseInv, BlobInv, NoBlob

LEMMA InvStep ==
    ASSUME FetchInv, [FetchNext]_fetchVars
    PROVE  FetchInv'
  <1> DEFINE Kept == TriesLeft /\ FilesWhole /\ FailuresKnown /\ PhaseInv /\ BlobInv
  <1>1. FetchTypeOK'
    BY TypeStep DEF FetchInv
  <1>2. ASSUME FetchNext PROVE Kept'
    <2>1. ASSUME NEW urls \in Calls, FetchStart(urls) PROVE Kept'
      BY <2>1, StartInv
    <2>2. ASSUME NEW i \in Positions, AcquireLock(i) \/ TakeToken(i) PROVE Kept'
      BY <2>2, LimiterInv
    <2>3. CASE Refill \/ OtherTakes
      BY <2>3, BucketInv
    <2>4. ASSUME NEW i \in Positions,
                 \/ Request(i) \/ Transient(i) \/ Refused(i)
                 \/ Body(i) \/ Finish(i) \/ Break(i)
          PROVE  Kept'
      BY <2>4, AttemptInv
    <2>5. CASE (\E i \in Positions : Cancel(i)) \/ GroupEnds \/ Timeout
      BY <2>5, GroupInv
    <2>6. CASE Zip \/ CopyStarts \/ CopyEnds \/ CopyFails \/ Return
      BY <2>6, StoreInv
    <2> QED
      BY <1>2, <2>1, <2>2, <2>3, <2>4, <2>5, <2>6 DEF FetchNext, FetchStep, FetchWork
  <1>3. ASSUME UNCHANGED fetchVars PROVE Kept'
    BY <1>3 DEF fetchVars, FetchInv, TriesLeft, FilesWhole, FailuresKnown, PathOf, PhaseInv, BlobInv
  <1> QED
    BY <1>1, <1>2, <1>3 DEF FetchInv

LEMMA InvAlways == FetchSpec => []FetchInv
  BY InitInv, InvStep, PTL DEF FetchSpec

-----------------------------------------------------------------------------
(* The theorems *)

\* Every reachable state of the fetch has the types declared, its token count in
\* the bucket's bounds and every task's attempts within their limit.
THEOREM FetchTypeCorrect == FetchSpec => []FetchTypeOK
  <1>1. FetchInv => FetchTypeOK
    BY DEF FetchInv
  <1> QED
    BY <1>1, InvAlways, PTL

\* A step of the fetch is a step of the promise, or none.
LEMMA PromiseStep ==
    ASSUME FetchInv, FetchInv', [FetchNext]_fetchVars
    PROVE  [Promise!Next]_<<asked, CallAnswer, blob>>
  <1> USE DEF FetchInv
  <1>1. ASSUME UNCHANGED <<asked, phase, blob>> PROVE UNCHANGED <<asked, CallAnswer, blob>>
    BY <1>1 DEF CallAnswer
  <1>2. CASE \E urls \in Calls : FetchStart(urls)
    BY <1>2 DEF FetchStart, PhaseInv, CallAnswer, Promise!Next, Promise!Ask
  <1>3. CASE CopyStarts \/ CopyEnds
    <2>1. UNCHANGED <<asked, phase>> /\ phase # "stored"
      BY <1>3 DEF CopyStarts, CopyEnds, BlobInv
    <2> QED
      BY <2>1 DEF CallAnswer, Promise!Next, Promise!Work
  <1>4. CASE Return
    <2>1. /\ UNCHANGED <<asked, blob>> /\ CallAnswer = "none" /\ CallAnswer' = "delivered"
      BY <1>4 DEF Return, CallAnswer
    <2>2. blob.whole = TRUE /\ blob.members = Promise!Members(asked)
      BY <1>4 DEF Return, PhaseInv, BlobInv, FetchTypeOK
    <2>3. blob = Promise!Complete(asked)
      <3> DEFINE Archives == Seq(Files \cup {NoFile})
      <3>1. blob \in [whole: BOOLEAN, members: Archives]
        BY DEF FetchTypeOK
      <3> HIDE DEF Archives
      <3> QED
        BY <2>2, <3>1 DEF Promise!Complete
    <2> QED
      BY <2>1, <2>3 DEF Promise!Next, Promise!Deliver
  <1>5. CASE GroupEnds \/ CopyFails \/ Timeout \/ Zip
    <2>1. UNCHANGED <<asked, blob>> /\ phase # "stored"
      BY <1>5 DEF GroupEnds, CopyFails, Timeout, Zip, BlobInv
    <2>2. phase' \in {"zip", "put", "failed"} /\ (phase = "failed" => phase' = "failed")
      BY <1>5 DEF GroupEnds, CopyFails, Timeout, Zip
    <2> QED
      BY <2>1, <2>2 DEF CallAnswer, Promise!Next, Promise!Refuse, FetchTypeOK
  <1>6. CASE UNCHANGED <<asked, phase, blob>>
    BY <1>1, <1>6
  <1>7. ASSUME NEW i \in Positions,
               \/ AcquireLock(i) \/ TakeToken(i) \/ Request(i)
               \/ Transient(i) \/ Refused(i) \/ Body(i) \/ Finish(i) \/ Break(i)
               \/ Cancel(i)
        PROVE  UNCHANGED <<asked, phase, blob>>
    BY <1>7 DEF AcquireLock, TakeToken, Request, Transient, Refused, Body, Finish,
                Break, Cancel, Fails
  <1>8. Refill \/ OtherTakes \/ UNCHANGED fetchVars => UNCHANGED <<asked, phase, blob>>
    BY DEF Refill, OtherTakes, fetchVars
  <1> QED
    BY <1>2, <1>3, <1>4, <1>5, <1>6, <1>7, <1>8 DEF FetchNext, FetchStep, FetchWork

\* A call is answered once; a delivered result is the archive of every granule
\* asked for, whole and in order, and stays so: whatever retries, failures,
\* cancellations and late copies there were.
THEOREM FetchKeepsItsPromise == FetchSpec => Delivers
  <1>1. FetchInit => Promise!Init
    BY DEF FetchInit, Promise!Init, CallAnswer
  <1> QED
    BY <1>1, InvAlways, PromiseStep, PTL DEF FetchSpec, Delivers, Promise!Spec
=============================================================================

---------------------------- MODULE GranuleFetch ----------------------------
(***************************************************************************)
(* OPeNDAPProvider.materialize: one task per granule, each waiting for the *)
(* provider's rate limiter, then for one of the call's download slots on   *)
(* every attempt; the first failure cancels the others.  The files are     *)
(* zipped in the order asked and copied into storage by a thread that      *)
(* outlives a cancelled call.                                              *)
(*                                                                         *)
(* Times are abstracted: a backoff and a sleep for a token just end.       *)
(***************************************************************************)
EXTENDS Integers, Sequences, FiniteSets

CONSTANTS
    Urls,          \* granule URLs, with their constraint
    FileName,      \* the name a URL's file is given in the bundle
    MaxGranules,   \* _OPENDAP_GRANULE_LIMIT
    Concurrency,   \* retrieval_download_concurrency
    Attempts,      \* attempts of one granule
    Burst          \* the limiter's capacity

ASSUME FetchLimits ==
    /\ MaxGranules \in Nat /\ Concurrency \in Nat \ {0}
    /\ Attempts \in Nat \ {0} /\ Burst \in Nat \ {0}

VARIABLES
    asked,     \* the URLs of the call; empty before it
    phase,     \* where the call is
    task,      \* per position, the granule's task
    disk,      \* the scratch directory
    errors,    \* what the call's tasks failed with, in the order they did
    holder,    \* the position whose task holds the limiter's lock, or Nobody
    tokens,    \* the limiter's tokens
    zip,       \* the members of the archive
    copying,   \* a thread is copying the archive into storage
    blob       \* what storage holds under the result's key

fetchVars == <<asked, phase, task, disk, errors, holder, tokens, zip, copying, blob>>

-----------------------------------------------------------------------------
Positions == 1..MaxGranules

Nobody == 0

Ended == {"done", "failed", "cancelled"}

TaskStates == [pc: {"limiter", "waiting", "request", "body"} \cup Ended,
               tries: 0..Attempts]

Errors == {"unavailable", "credential", "error", "timeout"}

\* A mutant of PathOf: the granule's own name, without its position.
PathOfName(i) == <<1, FileName[asked[i]]>>

\* A granule's file, unique by position.
PathOf(i) == <<i, FileName[asked[i]]>>

Paths == Positions \X {FileName[u] : u \in Urls}

\* A file holds the bytes of a granule, all of them or not; before any did,
\* those of no granule.
Files == [of: Urls, whole: BOOLEAN]

NoFile == [of |-> "", whole |-> FALSE]

NoBlob == [whole |-> FALSE, members |-> <<>>]

Calls == {s \in Seq(Urls) : Len(s) \in Positions}

FetchTypeOK ==
    /\ asked \in Calls \cup {<<>>}
    /\ phase \in {"idle", "fetch", "zip", "put", "stored", "failed"}
    /\ task \in [DOMAIN asked -> TaskStates]
    /\ disk \in [Paths -> Files \cup {NoFile}]
    /\ errors \in Seq(Errors)
    /\ holder \in Positions \cup {Nobody}
    /\ tokens \in 0..Burst
    /\ zip \in Seq(Files \cup {NoFile})
    /\ copying \in BOOLEAN
    /\ blob \in [whole: BOOLEAN, members: Seq(Files \cup {NoFile})]

FetchInit ==
    /\ asked = <<>> /\ phase = "idle" /\ task = <<>>
    /\ disk = [p \in Paths |-> NoFile]
    /\ errors = <<>> /\ holder = Nobody /\ tokens = Burst
    /\ zip = <<>> /\ copying = FALSE /\ blob = NoBlob

FetchStart(urls) ==
    /\ phase = "idle" /\ urls \in Calls
    /\ asked' = urls
    /\ phase' = "fetch"
    /\ task' = [i \in DOMAIN urls |-> [pc |-> "limiter", tries |-> 0]]
    /\ UNCHANGED <<disk, errors, holder, tokens, zip, copying, blob>>

-----------------------------------------------------------------------------
(* The rate limiter, shared with the process's other jobs *)

At(i, pc) == phase = "fetch" /\ i \in DOMAIN asked /\ task[i].pc = pc

AcquireLock(i) ==
    /\ At(i, "limiter") /\ holder = Nobody
    /\ holder' = i
    /\ UNCHANGED <<asked, phase, task, disk, errors, tokens, zip, copying, blob>>

\* A mutant of TakeToken: the token is not waited for.
TakeTokenUnpaid(i) ==
    /\ At(i, "limiter") /\ holder = i
    /\ tokens' = tokens - 1
    /\ holder' = Nobody
    /\ task' = [task EXCEPT ![i].pc = "waiting"]
    /\ UNCHANGED <<asked, phase, disk, errors, zip, copying, blob>>

TakeToken(i) ==
    /\ At(i, "limiter") /\ holder = i /\ tokens > 0
    /\ tokens' = tokens - 1
    /\ holder' = Nobody
    /\ task' = [task EXCEPT ![i].pc = "waiting"]
    /\ UNCHANGED <<asked, phase, disk, errors, zip, copying, blob>>

Refill ==
    /\ tokens < Burst
    /\ tokens' = tokens + 1
    /\ UNCHANGED <<asked, phase, task, disk, errors, holder, zip, copying, blob>>

\* Another job's task takes a token while none of the call's holds the lock.
OtherTakes ==
    /\ tokens > 0 /\ holder = Nobody
    /\ tokens' = tokens - 1
    /\ UNCHANGED <<asked, phase, task, disk, errors, holder, zip, copying, blob>>

-----------------------------------------------------------------------------
(* _fetch_to_file *)

\* A mutant of Streaming: a backoff keeps its slot.
StreamingInBackoff ==
    {i \in DOMAIN asked : \/ task[i].pc \in {"request", "body"}
                          \/ task[i].pc = "waiting" /\ task[i].tries > 0}

\* The tasks that hold a download slot: it is taken for one attempt.
Streaming == {i \in DOMAIN asked : task[i].pc \in {"request", "body"}}

Request(i) ==
    /\ At(i, "waiting") /\ Cardinality(Streaming) < Concurrency
    /\ task' = [task EXCEPT ![i] = [pc |-> "request", tries |-> @.tries + 1]]
    /\ UNCHANGED <<asked, phase, disk, errors, holder, tokens, zip, copying, blob>>

Fails(i, error) ==
    /\ task' = [task EXCEPT ![i].pc = "failed"]
    /\ errors' = Append(errors, error)
    /\ UNCHANGED <<asked, phase, disk, holder, tokens, zip, copying, blob>>

\* 429, 502, 503 or 504: the task backs off, as long as it has attempts left.
Transient(i) ==
    /\ At(i, "request")
    /\ IF task[i].tries = Attempts
       THEN Fails(i, "unavailable")
       ELSE /\ task' = [task EXCEPT ![i].pc = "waiting"]
            /\ UNCHANGED <<asked, phase, disk, errors, holder, tokens, zip, copying, blob>>

\* Any other refusal is final.
Refused(i) ==
    /\ At(i, "request")
    /\ \E error \in {"credential", "error"} : Fails(i, error)

\* The answer is a body: the file is opened, and emptied.
Body(i) ==
    /\ At(i, "request")
    /\ task' = [task EXCEPT ![i].pc = "body"]
    /\ disk' = [disk EXCEPT ![PathOf(i)] = [of |-> asked[i], whole |-> FALSE]]
    /\ UNCHANGED <<asked, phase, errors, holder, tokens, zip, copying, blob>>

Finish(i) ==
    /\ At(i, "body")
    /\ task' = [task EXCEPT ![i].pc = "done"]
    /\ disk' = [disk EXCEPT ![PathOf(i)] = [of |-> asked[i], whole |-> TRUE]]
    /\ UNCHANGED <<asked, phase, errors, holder, tokens, zip, copying, blob>>

\* A stream that breaks off is not retried.
Break(i) == At(i, "body") /\ Fails(i, "error")

-----------------------------------------------------------------------------
(* _fetch_all: the group of tasks *)

Cancelled(t) == IF t.pc \in Ended THEN t ELSE [t EXCEPT !.pc = "cancelled"]

\* Once a task has failed the group cancels the others, each where it waits; one
\* that held the limiter's lock lets it go.
Cancel(i) ==
    /\ phase = "fetch" /\ errors # <<>>
    /\ i \in DOMAIN asked /\ task[i].pc \notin Ended
    /\ task' = [task EXCEPT ![i] = Cancelled(@)]
    /\ holder' = IF holder = i THEN Nobody ELSE holder
    /\ UNCHANGED <<asked, phase, disk, errors, tokens, zip, copying, blob>>

AllEnded == \A i \in DOMAIN asked : task[i].pc \in Ended

\* The group is left when every task has ended; its first error is raised.
GroupEnds ==
    /\ phase = "fetch" /\ AllEnded
    /\ phase' = IF errors = <<>> THEN "zip" ELSE "failed"
    /\ UNCHANGED <<asked, task, disk, errors, holder, tokens, zip, copying, blob>>

-----------------------------------------------------------------------------
(* materialize: the archive and its copy into storage *)

Zip ==
    /\ phase = "zip"
    /\ zip' = [i \in 1..Len(asked) |-> disk[PathOf(i)]]
    /\ phase' = "put"
    /\ UNCHANGED <<asked, task, disk, errors, holder, tokens, copying, blob>>

\* The copy is not atomic: under the key there is first a part of the archive.
CopyStarts ==
    /\ phase = "put" /\ ~copying /\ ~blob.whole
    /\ copying' = TRUE
    /\ blob' = [whole |-> FALSE, members |-> zip]
    /\ UNCHANGED <<asked, phase, task, disk, errors, holder, tokens, zip>>

\* The thread finishes its copy, also after the call was cancelled.
CopyEnds ==
    /\ copying
    /\ copying' = FALSE
    /\ blob' = [blob EXCEPT !.whole = TRUE]
    /\ UNCHANGED <<asked, phase, task, disk, errors, holder, tokens, zip>>

CopyFails ==
    /\ copying
    /\ copying' = FALSE
    /\ phase' = "failed"
    /\ errors' = IF errors = <<>> THEN <<"error">> ELSE errors
    /\ UNCHANGED <<asked, task, disk, holder, tokens, zip, blob>>

Return ==
    /\ phase = "put" /\ blob.whole
    /\ phase' = "stored"
    /\ UNCHANGED <<asked, task, disk, errors, holder, tokens, zip, copying, blob>>

\* arq's job_timeout cancels the call wherever it is.
Timeout ==
    /\ phase \in {"fetch", "zip", "put"}
    /\ phase' = "failed"
    /\ task' = [i \in DOMAIN asked |-> Cancelled(task[i])]
    /\ holder' = Nobody
    /\ errors' = IF errors = <<>> THEN <<"timeout">> ELSE errors
    /\ UNCHANGED <<asked, disk, tokens, zip, copying, blob>>

-----------------------------------------------------------------------------
\* The steps of the call itself.
FetchWork ==
    \/ \E i \in Positions :
          \/ AcquireLock(i) \/ TakeToken(i) \/ Request(i)
          \/ Transient(i) \/ Refused(i) \/ Body(i) \/ Finish(i) \/ Break(i)
          \/ Cancel(i)
    \/ GroupEnds \/ Zip \/ CopyStarts \/ CopyEnds \/ CopyFails \/ Return

FetchStep == FetchWork \/ Refill \/ OtherTakes \/ Timeout

FetchNext == FetchStep \/ \E urls \in Calls : FetchStart(urls)

FetchSpec == FetchInit /\ [][FetchNext]_fetchVars

\* The event loop runs what can run, and the bucket refills.
FetchFairness == WF_fetchVars(FetchWork) /\ WF_fetchVars(Refill)

-----------------------------------------------------------------------------
(* Properties *)

\* What the caller has been answered.
CallAnswer == CASE phase = "stored" -> "delivered"
              [] phase = "failed" -> "refused"
              [] OTHER            -> "none"

Promise == INSTANCE Bundle WITH asked <- asked, answer <- CallAnswer, blob <- blob

\* A delivered result is the archive of every granule asked for, whole and in
\* order, for good, whatever retries, failures and cancellations came before.
Delivers == Promise!Spec
=============================================================================

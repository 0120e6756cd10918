------------------------------ MODULE RawArchive ------------------------------
(***************************************************************************)
(* How an answer of a provider becomes a row that can be trusted: asked    *)
(* for with retries, written beside its name and renamed into place, and   *)
(* only then named by a source_artifact row.  Several processes (the       *)
(* worker, the command line) archive into one directory and one table; any *)
(* of them may die between two steps.                                      *)
(*                                                                         *)
(* A file is named after the hash of what it holds, so a content stands    *)
(* for its file's name too.  Waiting between requests is left out.         *)
(***************************************************************************)
EXTENDS SqlNull, Integers, FiniteSets

CONSTANTS
    Fetchers,   \* processes
    Contents,   \* payloads
    Attempts    \* RetryPolicy.attempts

ASSUME AttemptsAssumption == Attempts \in Nat \ {0}

VARIABLES
    fetch,       \* per process: [at, attempt, content, add]
    files,       \* content |-> what is found under its name: "none", "part" or "whole"
    temporaries, \* temporary files that are left or in use, by their process
    artifacts    \* the committed source_artifact rows of the provider

archiveVars == <<fetch, files, temporaries, artifacts>>

Idle == [at |-> "idle", attempt |-> 0, content |-> None, add |-> FALSE]

ArchiveInit ==
    /\ fetch = [p \in Fetchers |-> Idle]
    /\ files = [c \in Contents |-> "none"]
    /\ temporaries = {} /\ artifacts = {}

At(p, places) == fetch[p].at \in places
Goto(p, place) == fetch' = [fetch EXCEPT ![p].at = place]
Stop(p) == fetch' = [fetch EXCEPT ![p] = Idle]

-----------------------------------------------------------------------------
(* ProviderHttpClient.request.                                              *)

StartFetch(p) ==
    /\ At(p, {"idle"})
    /\ fetch' = [fetch EXCEPT ![p] = [Idle EXCEPT !.at = "request", !.attempt = 1]]
    /\ UNCHANGED <<files, temporaries, artifacts>>

Answered(p, c) ==
    /\ At(p, {"request"})
    /\ fetch' = [fetch EXCEPT ![p].at = "received", ![p].content = c]
    /\ UNCHANGED <<files, temporaries, artifacts>>

MayRetry(attempt) == attempt < Attempts

\* 408, 425, 429, 5xx, a timeout or a broken connection: again, as long as it may.
Retryable(p) ==
    /\ At(p, {"request"})
    /\ IF MayRetry(fetch[p].attempt)
       THEN fetch' = [fetch EXCEPT ![p].attempt = @ + 1]
       ELSE Stop(p)
    /\ UNCHANGED <<files, temporaries, artifacts>>

\* Any other 4xx, and an exception of another kind: no second attempt.
Refused(p) ==
    /\ At(p, {"request"}) /\ Stop(p)
    /\ UNCHANGED <<files, temporaries, artifacts>>

-----------------------------------------------------------------------------
(* archive_bytes.                                                           *)

\* Faulty variant: the payload is written under its final name.
WhileWriting_InPlace(c) == "part"

\* What is found under the name of a content while it is being written.
WhileWriting(c) == files[c]

\* A file of that name is taken for the content.
FindFile(p) ==
    /\ At(p, {"received"}) /\ files[fetch[p].content] # "none"
    /\ Goto(p, "archived")
    /\ UNCHANGED <<files, temporaries, artifacts>>

BeginWrite(p) ==
    /\ At(p, {"received"}) /\ files[fetch[p].content] = "none"
    /\ Goto(p, "writing")
    /\ temporaries' = temporaries \cup {p}
    /\ files' = [files EXCEPT ![fetch[p].content] = WhileWriting(fetch[p].content)]
    /\ UNCHANGED artifacts

\* Written and synced to disk; the rename replaces what another process renamed.
Rename(p) ==
    /\ At(p, {"writing"})
    /\ Goto(p, "archived")
    /\ files' = [files EXCEPT ![fetch[p].content] = "whole"]
    /\ temporaries' = temporaries \ {p}
    /\ UNCHANGED artifacts

WriteFails(p) ==
    /\ At(p, {"writing"}) /\ Stop(p)
    /\ temporaries' = temporaries \ {p}
    /\ UNCHANGED <<files, artifacts>>

-----------------------------------------------------------------------------
(* The row.                                                                 *)

\* _record_artifact looks for a row of the same hash and adds one if there is none.
LookForRow(p) ==
    /\ At(p, {"archived"})
    /\ fetch' = [fetch EXCEPT ![p].at = "added", ![p].add = fetch[p].content \notin artifacts]
    /\ UNCHANGED <<files, temporaries, artifacts>>

\* uq_source_artifact_provider_hash: of two that looked at once, one fails.
Commit(p) ==
    /\ At(p, {"added"}) /\ Stop(p)
    /\ fetch[p].add => fetch[p].content \notin artifacts
    /\ artifacts' = IF fetch[p].add THEN artifacts \cup {fetch[p].content} ELSE artifacts
    /\ UNCHANGED <<files, temporaries>>

CommitConflicts(p) ==
    /\ At(p, {"added"}) /\ fetch[p].add /\ fetch[p].content \in artifacts
    /\ Stop(p)
    /\ UNCHANGED <<files, temporaries, artifacts>>

\* What follows the row fails; the file stays.
RollsBack(p) ==
    /\ At(p, {"archived", "added"}) /\ Stop(p)
    /\ UNCHANGED <<files, temporaries, artifacts>>

\* The process dies; a temporary file stays.
Dies(p) ==
    /\ ~ At(p, {"idle"}) /\ Stop(p)
    /\ UNCHANGED <<files, temporaries, artifacts>>

ArchiveNext ==
    \E p \in Fetchers :
        \/ StartFetch(p) \/ Retryable(p) \/ Refused(p)
        \/ \E c \in Contents : Answered(p, c)
        \/ FindFile(p) \/ BeginWrite(p) \/ Rename(p) \/ WriteFails(p)
        \/ LookForRow(p) \/ Commit(p) \/ CommitConflicts(p) \/ RollsBack(p)
        \/ Dies(p)

ArchiveSpec == ArchiveInit /\ [][ArchiveNext]_archiveVars

-----------------------------------------------------------------------------

\* The content a row names is on disk, whole, whoever wrote it and whoever died doing
\* so: nothing is ever found under a name before all of it is there, a process that
\* finds the file does not write it again, and no request is sent more often than the
\* policy allows.
ArchiveIsWhole ==
    /\ \A c \in artifacts : files[c] = "whole"
    /\ \A c \in Contents : files[c] # "part"
    /\ \A p \in Fetchers :
          /\ At(p, {"archived", "added"}) => files[fetch[p].content] = "whole"
          /\ fetch[p].attempt <= Attempts
=============================================================================

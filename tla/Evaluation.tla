------------------------------ MODULE Evaluation ------------------------------
(***************************************************************************)
(* One uploaded archive on its way through the evaluation service          *)
(* (SIH-PROJECT-main/app): start_evaluation, the Celery task               *)
(* process_evaluation, the two endpoints that extract and verify on        *)
(* request, and the tables they share.                                     *)
(*                                                                         *)
(* PostgreSQL at READ COMMITTED: a statement sees what is committed when   *)
(* it runs, the rows a transaction deletes and adds change at its commit.  *)
(* Celery acknowledges a task when it starts: a worker that dies loses it, *)
(* and a message that waited too long is delivered to a second worker.     *)
(***************************************************************************)
EXTENDS Integers, FiniteSets

CONSTANTS Names,         \* top-level folders of the archive: the bidders
          Empty,         \* those without a document that can be processed
          Workers,       \* Celery workers
          Requests,      \* requests to the two endpoints
          MaxDeliveries, \* how often the message is delivered
          NoRecord

FAULTS == {"crash",      \* a process dies
           "error",      \* a step or an engine raises
           "database"}   \* a statement fails: its session needs a rollback

ASSUME EvaluationAssumption ==
    /\ Empty \subseteq Names
    /\ Workers \cap Requests = {}
    /\ MaxDeliveries \in Nat

VARIABLES overlap,    \* whether processes work at the same time
          faults,     \* what may happen
          status,     \* evaluations.status
          payload,    \* whether evaluations.entities_payload is there
          messages,   \* messages in the broker
          deliveries, \* how often one was taken from it
          folders,    \* bidder_folders
          documents,  \* the folders whose documents are stored
          results,    \* bidder_verification_results
          scores,     \* bidder_document_scores
          proc        \* what each process is doing

vars == <<overlap, faults, status, payload, messages, deliveries, folders,
          documents, results, scores, proc>>

Processes == Workers \cup Requests

\* A folder row belongs to the delivery that grouped it: ids are new each time.
Folders == [delivery : 1 .. MaxDeliveries, name : Names]

FAILURES == {"MODULE3_FAILED", "MODULE4_FAILED"}
Verdicts == {"VERIFIED", "NO_DOCUMENTS"} \cup FAILURES

\* A row of the two tables: a folder's verdict, and who stored it.
Row == [folder : Folders, verdict : Verdicts, by : Processes,
        delivery : 0 .. MaxDeliveries]

\* at: the next step; todo: the folders module 4 has listed and not judged;
\* failed: had_errors and had_module3_errors; gone: the rows the open
\* transaction deletes.
Idle == [at |-> "idle", delivery |-> 0, todo |-> {}, failed |-> {},
         goneResults |-> {}, goneScores |-> {}]

\* A worker is free again, a request is over.
Rest(p) == IF p \in Workers THEN Idle ELSE [Idle EXCEPT !.at = "over"]
Resting(p) == proc[p] = Rest(p) \/ proc[p] = Idle

Becomes(p, activity) == proc' = [proc EXCEPT ![p] = activity]
Goes(p, step) == Becomes(p, [proc[p] EXCEPT !.at = step])
At(p, step) == proc[p].at = step
MayStart(p) ==
    /\ At(p, "idle")
    /\ overlap \/ \A q \in Processes : Resting(q)

world == <<overlap, faults>>
tables == <<folders, documents, results, scores>>
broker == <<messages, deliveries>>

-------------------------------------------------------------------------------
(* start_evaluation.                                                       *)

\* The row is committed before the task is sent.
CreateRow ==
    /\ status = NoRecord
    /\ status' = "uploaded"
    /\ UNCHANGED <<world, payload, broker, tables, proc>>

Delay ==
    /\ status = "uploaded" /\ messages = 0 /\ deliveries = 0
    /\ messages' = 1
    /\ UNCHANGED <<world, status, payload, deliveries, tables, proc>>

-------------------------------------------------------------------------------
(* process_evaluation.                                                     *)

\* A worker takes the message; the broker may keep it for another one.
Deliver(w) ==
    /\ MayStart(w) /\ messages > 0 /\ deliveries < MaxDeliveries
    /\ deliveries' = deliveries + 1
    /\ messages' \in {0, messages}
    /\ Becomes(w, [Idle EXCEPT !.at = "unzip", !.delivery = deliveries + 1])
    /\ UNCHANGED <<world, status, payload, tables>>

Unzip(w) ==
    /\ At(w, "unzip")
    /\ status' = "extracted"
    /\ Goes(w, "group")
    /\ UNCHANGED <<world, payload, broker, tables>>

\* group_top_level_folders: the folders are committed before their documents.
GroupFolders(w) ==
    /\ At(w, "group")
    /\ folders' = folders \cup
          {[delivery |-> proc[w].delivery, name |-> n] : n \in Names}
    /\ Goes(w, "collect")
    /\ UNCHANGED <<world, status, payload, broker, documents, results, scores>>

CollectDocuments(w) ==
    /\ At(w, "collect")
    /\ documents' = documents \cup
          {f \in folders : f.delivery = proc[w].delivery /\ f.name \notin Empty}
    /\ Goes(w, "grouped")
    /\ UNCHANGED <<world, status, payload, broker, folders, results, scores>>

\* The update of the status, and extract_all_documents with the next one.
SetGrouped(w) ==
    /\ At(w, "grouped")
    /\ status' = "grouped"
    /\ Goes(w, "text")
    /\ UNCHANGED <<world, payload, broker, tables>>

ExtractText(w) ==
    /\ At(w, "text")
    /\ status' = "text_extracted"
    /\ Goes(w, "entities")
    /\ UNCHANGED <<world, payload, broker, tables>>

-------------------------------------------------------------------------------
(* process_entity_extraction_job, for the task and for the endpoints.      *)

ExtractEntities(p) ==
    /\ At(p, "entities")
    /\ payload' = TRUE
    /\ status' = "COMPLETED"
    /\ IF p \in Workers THEN Goes(p, "list") ELSE Becomes(p, Rest(p))
    /\ UNCHANGED <<world, broker, tables>>

\* It records its own failure in a session of its own and raises.
FailEntities(p) ==
    /\ "error" \in faults /\ At(p, "entities")
    /\ status' = "FAILED"
    /\ IF p \in Workers THEN Goes(p, "failing") ELSE Becomes(p, Rest(p))
    /\ UNCHANGED <<world, payload, broker, tables>>

-------------------------------------------------------------------------------
(* run_module4_for_evaluation.                                             *)

ListFolders(p) ==
    /\ At(p, "list")
    /\ Becomes(p, [proc[p] EXCEPT !.at = "judge", !.todo = folders])
    /\ UNCHANGED <<world, status, payload, broker, tables>>

NextFolder(p) == CHOOSE f \in proc[p].todo : TRUE
RowsOf(rows, f) == {r \in rows : r.folder = f}

\* The engines judge the next folder; the old rows of each table are deleted
\* by a statement of its own.
DeleteResults(p) ==
    /\ At(p, "judge") /\ proc[p].todo # {}
    /\ Becomes(p, [proc[p] EXCEPT !.at = "replace",
                                  !.goneResults = RowsOf(results, NextFolder(p))])
    /\ UNCHANGED <<world, status, payload, broker, tables>>

DeleteScores(p) ==
    /\ At(p, "replace")
    /\ Becomes(p, [proc[p] EXCEPT !.at = "insert",
                                  !.goneScores = RowsOf(scores, NextFolder(p))])
    /\ UNCHANGED <<world, status, payload, broker, tables>>

\* What the engines make of a folder: no verdict without its documents.
VerdictsOf(f) ==
    IF f \notin documents THEN {"NO_DOCUMENTS"}
    ELSE {"VERIFIED"} \cup (IF "error" \in faults THEN FAILURES ELSE {})

\* No score without the results of module 3 and module 4.
Scored(verdict) == verdict = "VERIFIED"

\* Variant for the mutation runs: the old rows stay.
CommitFolderAdding(p) ==
    LET f == NextFolder(p) IN
    /\ At(p, "insert")
    /\ \E verdict \in VerdictsOf(f) :
          LET row == [folder |-> f, verdict |-> verdict, by |-> p,
                      delivery |-> proc[p].delivery] IN
          /\ results' = results \cup {row}
          /\ scores' = scores \cup (IF Scored(verdict) THEN {row} ELSE {})
          /\ Becomes(p, [proc[p] EXCEPT !.at = "judge", !.todo = @ \ {f},
                            !.failed = @ \cup ({verdict} \cap FAILURES),
                            !.goneResults = {}, !.goneScores = {}])
    /\ UNCHANGED <<world, status, payload, broker, folders, documents>>

\* The new rows of a folder and the commit.
CommitFolder(p) ==
    LET f == NextFolder(p) IN
    /\ At(p, "insert")
    /\ \E verdict \in VerdictsOf(f) :
          LET row == [folder |-> f, verdict |-> verdict, by |-> p,
                      delivery |-> proc[p].delivery] IN
          /\ results' = (results \ proc[p].goneResults) \cup {row}
          /\ scores' = (scores \ proc[p].goneScores)
                          \cup (IF Scored(verdict) THEN {row} ELSE {})
          /\ Becomes(p, [proc[p] EXCEPT !.at = "judge", !.todo = @ \ {f},
                            !.failed = @ \cup ({verdict} \cap FAILURES),
                            !.goneResults = {}, !.goneScores = {}])
    /\ UNCHANGED <<world, status, payload, broker, folders, documents>>

\* Variant for the mutation runs: only had_errors of module 4 is looked at.
StatusOfModule4(failed) ==
    IF "MODULE4_FAILED" \in failed THEN "MODULE4_FAILED" ELSE "VERIFIED"

\* A failure of module 3 is named before one of module 4.
StatusOf(failed) ==
    CASE "MODULE3_FAILED" \in failed -> "MODULE3_FAILED"
      [] failed = {"MODULE4_FAILED"} -> "MODULE4_FAILED"
      [] failed = {} -> "VERIFIED"

FinishModule4(p) ==
    /\ At(p, "judge") /\ proc[p].todo = {}
    /\ status' = StatusOf(proc[p].failed)
    /\ Becomes(p, Rest(p))
    /\ UNCHANGED <<world, payload, broker, tables>>

-------------------------------------------------------------------------------
(* The endpoints.                                                          *)

\* extract_entities_endpoint and get_latest_extracted_json.
RequestEntities(q) ==
    /\ MayStart(q) /\ status # NoRecord
    /\ Goes(q, "entities")
    /\ UNCHANGED <<world, status, payload, broker, tables>>

\* get_verification_results verifies when it finds no result yet.  (Otherwise
\* it only reads.)
RequestResults(q) ==
    /\ MayStart(q) /\ payload /\ results = {}
    /\ Goes(q, "list")
    /\ UNCHANGED <<world, status, payload, broker, tables>>

-------------------------------------------------------------------------------
(* Failures.  What a transaction has not committed is lost with it.        *)

\* Extracting or grouping raises; grouping and the entities have sessions of
\* their own, whose failures leave the one of the task usable.
Raise(w) ==
    /\ w \in Workers
    /\ \/ "error" \in faults /\ proc[w].at \in {"unzip", "group", "collect"}
       \/ "database" \in faults /\ proc[w].at \in {"group", "collect", "entities"}
    /\ Goes(w, "failing")
    /\ UNCHANGED <<world, status, payload, broker, tables>>

\* A statement of the session the task or the endpoint works with fails.  No
\* rollback precedes the update in the except clause, so that fails as well.
LoseSession(p) ==
    /\ "database" \in faults
    /\ ~Resting(p) /\ proc[p].at \notin {"group", "collect"}
    /\ p \in Workers => ~At(p, "entities")
    /\ Becomes(p, Rest(p))
    /\ UNCHANGED <<world, status, payload, broker, tables>>

\* Variant for the mutation runs: the update is not committed.
RecordFailureUncommitted(w) ==
    /\ At(w, "failing")
    /\ Becomes(w, Rest(w))
    /\ UNCHANGED <<world, status, payload, broker, tables>>

\* The except clause of the task.
RecordFailure(w) ==
    /\ At(w, "failing")
    /\ status' = "failed"
    /\ Becomes(w, Rest(w))
    /\ UNCHANGED <<world, payload, broker, tables>>

Crash(p) ==
    /\ "crash" \in faults /\ ~Resting(p)
    /\ Becomes(p, Rest(p))
    /\ UNCHANGED <<world, status, payload, broker, tables>>

-------------------------------------------------------------------------------
Init ==
    /\ overlap \in BOOLEAN
    /\ faults \in SUBSET FAULTS
    /\ status = NoRecord
    /\ payload = FALSE
    /\ messages = 0 /\ deliveries = 0
    /\ folders = {} /\ documents = {} /\ results = {} /\ scores = {}
    /\ proc = [p \in Processes |-> Idle]

\* The steps of a task or a request that is under way.
Step(p) ==
    \/ Unzip(p) \/ GroupFolders(p) \/ CollectDocuments(p)
    \/ SetGrouped(p) \/ ExtractText(p) \/ ExtractEntities(p)
    \/ ListFolders(p) \/ DeleteResults(p) \/ DeleteScores(p)
    \/ CommitFolder(p) \/ FinishModule4(p)
    \/ RecordFailure(p)

Next ==
    \/ CreateRow
    \/ Delay
    \/ \E w \in Workers : Deliver(w) \/ Raise(w)
    \/ \E q \in Requests : RequestEntities(q) \/ RequestResults(q)
    \/ \E p \in Processes :
          Step(p) \/ FailEntities(p) \/ LoseSession(p) \/ Crash(p)

Spec == Init /\ [][Next]_vars

\* Processes go on and the broker delivers what it holds; nobody must ask, and
\* nothing must fail.
Fairness ==
    /\ \A p \in Processes : WF_vars(Step(p))
    /\ WF_vars(\E w \in Workers : Deliver(w))

-------------------------------------------------------------------------------
(* Correctness.                                                            *)

TypeOK ==
    /\ status \in {NoRecord, "uploaded", "extracted", "grouped", "text_extracted",
                   "COMPLETED", "VERIFIED", "failed", "FAILED"} \cup FAILURES
    /\ folders \subseteq Folders /\ documents \subseteq folders
    /\ results \subseteq Row /\ scores \subseteq results
    /\ \A p \in Processes : proc[p].todo \subseteq folders

\* A second delivery of the task, a request for results and a death between
\* two commits replace what is stored of a folder and never add to it; a
\* folder has a score exactly when its verification went through.  Only for
\* evaluations one process at a time works on: see PriorResultsAreReplaced.
ReplacedNotAdded ==
    ~overlap => \A f \in folders :
        /\ Cardinality(RowsOf(results, f)) <= 1
        /\ RowsOf(scores, f) = {r \in RowsOf(results, f) : r.verdict = "VERIFIED"}

\* module4_service.py: "Prior results for the evaluation are replaced
\* (idempotent re-runs)".  A result asked for while the task stores the first
\* ones is computed a second time, and neither transaction sees the rows the
\* other is about to add.
PriorResultsAreReplaced ==
    \A f \in folders : Cardinality(RowsOf(results, f)) <= 1

\* "For the evaluation" it does not hold either: a task that is delivered again
\* makes new folders, so a bidder of the archive is stored, and judged, twice.
BiddersStoredOnce == \A f, g \in folders : f.name = g.name => f = g

\* module4_service.py, on NO_DOCUMENTS: "the bidder submitted no processable
\* documents".  After a failure between the commits of the folders and of
\* their documents the endpoints take the evaluation up as if it were whole.
NoDocumentsMeansNone ==
    \A r \in results : r.verdict = "NO_DOCUMENTS" => r.folder.name \in Empty

\* An evaluation that reads VERIFIED while nobody works on it has verified
\* every folder, whatever failed before and was taken up by another delivery
\* or by a request: no failure of an engine hides behind another folder's
\* success.
VerifiedMeansAll ==
    /\ ~overlap /\ status = "VERIFIED"
    /\ \A p \in Processes : Resting(p)
    => \A f \in folders :
          \E r \in results : r.folder = f /\ r.verdict \notin FAILURES

\* The statuses an evaluation may rest in.
OUTCOMES == {"VERIFIED", "failed"} \cup FAILURES

\* Unless a process dies or the database fails, an uploaded archive whose task
\* is queued gets an outcome: the error an engine raises ends in a status.
EveryTaskEnds ==
    (messages > 0 /\ deliveries = 0 /\ faults \subseteq {"error"})
        ~> status \in OUTCOMES
===============================================================================

------------------------------ MODULE BidderStore ------------------------------
(***************************************************************************)
(* What the submissions of one bidder leave in the tables, and what        *)
(* process_bid answers when it is asked again: the units of work of        *)
(* _run_pipeline (src/application/service.py), the projection and the      *)
(* snapshot of the flags, the two stores units run on, and the artifact    *)
(* store that ingestion writes to.                                         *)
(*                                                                         *)
(* backend "memory" is InMemoryUnitOfWork over one _Store that all threads *)
(* share: writes are visible at once, a rollback puts back the store as it *)
(* was copied when the unit began, and neither the copy nor the rollback   *)
(* holds the lock, so that other threads may write while one is under way: *)
(* they go from table to table, and the rows of one table are copied,      *)
(* cleared or filled in one step.  backend "postgres" is a transaction: a  *)
(* unit is one step.  Findings, flag rows and explanations are kept under  *)
(* ids that name the bidder and not the submission.  Stages, retries and   *)
(* jobs are those of SubmissionProcessing; verification records are left   *)
(* out (they travel with the results and are keyed by their own id).       *)
(***************************************************************************)
EXTENDS Integers, Sequences

CONSTANTS Submissions,     \* submissions of the bidder
          Flags,           \* canonical flags
          Requirements,    \* requirements of the tender
          AI,              \* stands for the verification engine as an origin
          Outcomes,        \* what the engines may find in one run
          Contents,        \* contents of documents
          ContentOf,       \* the document each submission carries
          Together,        \* the submissions that come when threads overlap
          NoRecord,
          MaxRaises,       \* bound on exceptions of the environment
          MaxTorn,         \* bound on interruptions of a copy or a rollback
          MaxRuns,         \* bound on runs of the pipeline
          MaxTogether      \* the same when threads share the memory store

Origins == Requirements \cup {AI}

\* compliance_finding_id and identity_finding_id: a finding is its id, that
\* is, where it comes from and the flag it raises.
FindingIds == Origins \X Flags

\* The tables, as far as this bidder is concerned.  A cell that is set holds the
\* findings it refers to.
Mark == {NoRecord, "OPEN", "FAILED", "COMPLETE"}
Cites == (SUBSET FindingIds) \cup {NoRecord}
Result == [submission : Submissions, requirement : Requirements,
           flags : SUBSET Flags]
Snapshot == [flags : SUBSET Flags, at : Nat]
Table ==
    [submissions : [Submissions -> Mark],
     ingested : SUBSET Submissions,      \* outbox and audit events of ingestions
     documents : SUBSET Submissions, evidence : SUBSET Submissions,
     results : SUBSET Result, findings : SUBSET FindingIds,
     states : [Flags -> Cites],
     snapshots : SUBSET Snapshot,
     audited : SUBSET Nat, explanations : [Flags -> Cites]]

\* The order in which _Store.tables lists them.
TableOrder == <<"submissions", "documents", "evidence", "results", "findings",
                "explanations", "audited", "ingested", "states", "snapshots">>

\* How far a copy or a rollback has come: past 2i - 1 when table i has been
\* cleared, past 2i when it has been copied or filled again.
End == 2 * Len(TableOrder)
Copied(from, to) == {TableOrder[i] : i \in {j \in DOMAIN TableOrder : from < 2 * j /\ 2 * j <= to}}
Cleared(from, to) ==
    {TableOrder[i] : i \in {j \in DOMAIN TableOrder : from < 2 * j - 1 /\ 2 * j - 1 <= to}}

\* A run of the pipeline.  at is the unit it is in; phase: "between" two units;
\* in one, it is "copying" the store, has "begun", put "half" of an artifact,
\* "stored" it, "saved" its rows, is "restoring" the store; "failing" on the way
\* to fail_submission.  undo is what the unit of work keeps to restore, done how
\* far it has come with the copy or the rollback.
Phase == {"between", "copying", "begun", "half", "stored", "saved", "restoring", "failing"}
Run == [at : 1 .. 7, phase : Phase, found : SUBSET FindingIds, now : Nat,
        todo : SUBSET Flags, undo : Table \cup {NoRecord}, done : 0 .. End - 1]

\* What process_bid returns, as far as the bidder's rows are concerned.
Answer == [flags : SUBSET Flags, results : SUBSET Result,
           findings : SUBSET FindingIds, explained : SUBSET Flags, at : Nat]

ASSUME StoreAssumption ==
    /\ Outcomes \subseteq SUBSET FindingIds
    /\ ContentOf \in [Submissions -> Contents]
    /\ Together \subseteq Submissions
    /\ AI \notin Requirements
    /\ NoRecord \notin {"OPEN", "FAILED", "COMPLETE"}
    /\ \A found \in SUBSET FindingIds : found # NoRecord
    /\ NoRecord \notin Run \cup Answer \cup Table

VARIABLES backend,    \* which store, for the whole behaviour
          overlap,    \* whether submissions are processed by several threads
          tables,     \* the tables
          files,      \* the files of each artifact
          runs,       \* what the thread of each submission is doing
          answers,    \* what process_bid returned for each submission
          clock,      \* snapshots materialized so far
          raised,     \* exceptions so far
          torn,       \* copies and rollbacks interrupted by another thread so far
          started     \* runs so far

vars == <<backend, overlap, tables, files, runs, answers, clock, raised, torn,
          started>>

-------------------------------------------------------------------------------
(* The tables.                                                             *)

EmptyTables ==
    [submissions |-> [s \in Submissions |-> NoRecord],
     ingested |-> {},
     documents |-> {}, evidence |-> {},
     results |-> {}, findings |-> {},
     states |-> [f \in Flags |-> NoRecord],
     snapshots |-> {}, audited |-> {},
     explanations |-> [f \in Flags |-> NoRecord]]

FlagsOf(found) == {id[2] : id \in found}
Refs(found, f) == {id \in found : id[2] = f}
FromAI(found) == {id \in found : id[1] = AI}
FromRules(found) == found \ FromAI(found)

\* The compliance results of a run: one for each requirement.
ResultsOf(s, found) ==
    {[submission |-> s, requirement |-> r,
      flags |-> FlagsOf({id \in found : id[1] = r})] : r \in Requirements}

\* Variant for the mutation runs: the key that storage-architecture.md names.
SavedResultsOfBidder(t, new) ==
    {x \in t.results : \A n \in new : x.requirement # n.requirement} \cup new

\* save of the compliance results: an upsert by submission and requirement.
SavedResults(t, new) ==
    {x \in t.results : \A n \in new :
        <<x.submission, x.requirement>> # <<n.submission, n.requirement>>}
        \cup new

\* project_flag_states and save_state: a row for every flag raised, none for
\* the others, whose rows stay as they are.
SavedStates(t, found) ==
    [f \in Flags |-> IF f \in FlagsOf(found) THEN Refs(found, f)
                                             ELSE t.states[f]]

\* Variant for the mutation runs: a snapshot that is known is kept.
SavedSnapshotsKept(t, new) ==
    IF \E x \in t.snapshots : x.flags = new.flags THEN t.snapshots
                                                  ELSE t.snapshots \cup {new}

\* The id of a snapshot is a digest of its flags.  The dictionary of the
\* memory store is overwritten, PostgreSQL does nothing on the conflict.
SavedSnapshots(t, new) ==
    IF backend = "postgres" /\ \E x \in t.snapshots : x.flags = new.flags
    THEN t.snapshots
    ELSE {x \in t.snapshots : x.flags # new.flags} \cup {new}

-------------------------------------------------------------------------------
(* The units of work of a run.                                             *)

\* Variant for the mutation runs: the findings of the verification engine are
\* stored after the flags they raise.
UnitsFlagsFirst == <<"ingest", "evidence", "engine", "flags", "findings",
                     "explain", "complete">>

\* ingest_submission and the units of _run_pipeline; "explain" is repeated for
\* every flag that is set.
Units == <<"ingest", "evidence", "engine", "findings", "flags", "explain",
           "complete">>

NewRun(s) ==
    [at |-> 1, phase |-> "between", found |-> {}, now |-> 0, todo |-> {},
     undo |-> NoRecord, done |-> 0]

Active(s) == runs[s] # NoRecord
Unit(s) == Units[runs[s].at]
First(todo) == CHOOSE f \in todo : TRUE
NextFlag(s) == First(runs[s].todo)

\* Variant for the mutation runs: the references of an explanation are not
\* looked up.
AcceptsUnreferenced(t, s) ==
    LET unit == Unit(s) IN
    CASE unit = "ingest" -> t.submissions[s] = NoRecord
      [] unit = "evidence" -> s \in t.documents
      [] unit = "engine" -> s \in t.evidence
      [] unit \in {"findings", "flags", "explain"} ->
            \E x \in Submissions : t.submissions[x] # NoRecord
      [] unit = "complete" -> t.submissions[s] # NoRecord

\* What the repositories and advance_stage check: a row that is referred to
\* must be there (the bidder's is, as long as it has a submission), a row that
\* is added must not.
Accepts(t, s) ==
    LET unit == Unit(s) IN
    CASE unit = "ingest" -> t.submissions[s] = NoRecord
      [] unit = "evidence" -> s \in t.documents
      [] unit = "engine" -> s \in t.evidence
      [] unit \in {"findings", "flags"} ->
            \E x \in Submissions : t.submissions[x] # NoRecord
      [] unit = "explain" -> Refs(runs[s].found, NextFlag(s)) \subseteq t.findings
      [] unit = "complete" -> t.submissions[s] # NoRecord

\* The rows a unit saves.
Saved(t, s) ==
    LET unit == Unit(s)
        found == runs[s].found
    IN
    CASE unit = "ingest" ->
            [t EXCEPT !.submissions[s] = "OPEN", !.documents = @ \cup {s}]
      [] unit = "evidence" -> [t EXCEPT !.evidence = @ \cup {s}]
      [] unit = "engine" ->
            [t EXCEPT !.results = SavedResults(t, ResultsOf(s, found)),
                      !.findings = @ \cup FromRules(found)]
      [] unit = "findings" -> [t EXCEPT !.findings = @ \cup FromAI(found)]
      [] unit = "flags" ->
            [t EXCEPT !.states = SavedStates(t, found),
                      !.snapshots = SavedSnapshots(t,
                          [flags |-> FlagsOf(found), at |-> runs[s].now])]
      [] unit = "explain" ->
            [t EXCEPT !.explanations[NextFlag(s)] = Refs(found, NextFlag(s))]
      [] unit = "complete" -> [t EXCEPT !.submissions[s] = "COMPLETE"]

\* The events it adds after them.  (Those of stages and explanations are left
\* out.)
Logged(t, s) ==
    CASE Unit(s) = "ingest" -> [t EXCEPT !.ingested = @ \cup {s}]
      [] Unit(s) = "flags" -> [t EXCEPT !.audited = @ \cup {runs[s].now}]
      [] OTHER -> t

\* How a run goes on after a unit: explanations until there is none left.
Advanced(run) ==
    LET todo == IF Units[run.at] = "explain" THEN run.todo \ {First(run.todo)}
                                             ELSE run.todo
    IN  [run EXCEPT !.phase = "between", !.undo = NoRecord, !.todo = todo,
                    !.at = IF Units[@] = "explain" /\ todo # {} THEN @ ELSE @ + 1]

Becomes(s, run) == runs' = [runs EXCEPT ![s] = run]
fixed == <<backend, overlap>>

\* Threads share the memory store.
Shared == backend = "memory" /\ overlap

-------------------------------------------------------------------------------
(* Actions.                                                                *)

MayStart(s) ==
    /\ ~Active(s)
    /\ started < (IF Shared THEN MaxTogether ELSE MaxRuns) /\ started' = started + 1
    /\ IF overlap THEN s \in Together ELSE \A x \in Submissions : ~Active(x)

\* process_bid of a submission it has not seen.
ProcessBid(s) ==
    /\ MayStart(s)
    /\ tables.submissions[s] = NoRecord /\ answers[s] = NoRecord
    /\ Becomes(s, NewRun(s))
    /\ UNCHANGED <<fixed, tables, files, answers, clock, raised, torn>>

\* The worker runs the pipeline again for a submission that failed.
Retry(s) ==
    /\ MayStart(s)
    /\ tables.submissions[s] = "FAILED"
    /\ tables' = [tables EXCEPT !.submissions[s] = "OPEN"]
    /\ Becomes(s, [NewRun(s) EXCEPT !.at = 2])
    /\ UNCHANGED <<fixed, files, answers, clock, raised, torn>>

\* copy.deepcopy and restore go from table to table without the lock: they are
\* interrupted when other threads share the store.
Reaches(done) ==
    {End} \cup {p \in 1 .. End : Shared /\ torn < MaxTorn /\ done < p}
Interrupted(to) == torn' = IF to = End THEN torn ELSE torn + 1

\* t with some of the tables of u.
Patched(t, u, names) == [n \in DOMAIN t |-> IF n \in names THEN u[n] ELSE t[n]]

\* The copy goes on: tables it has come to late hold what others saved since.
Copies(s, run, to) ==
    /\ Interrupted(to)
    /\ Becomes(s, [run EXCEPT !.phase = IF to = End THEN "begun" ELSE "copying",
                              !.done = IF to = End THEN 0 ELSE to,
                              !.undo = Patched(@, tables, Copied(run.done, to))])

\* An engine runs before the unit that stores what it found.
Begin(s) ==
    /\ Active(s) /\ runs[s].phase = "between"
    /\ \E found \in IF Unit(s) = "engine" THEN Outcomes ELSE {runs[s].found} :
          LET now == IF Unit(s) = "flags" THEN clock + 1 ELSE runs[s].now
              todo == IF Unit(s) = "flags" THEN FlagsOf(found) ELSE runs[s].todo
              skipped == \/ Unit(s) = "findings" /\ FromAI(found) = {}
                         \/ Unit(s) = "explain" /\ todo = {}
              entered == [runs[s] EXCEPT !.found = found, !.now = now, !.todo = todo]
          IN  /\ CASE skipped ->
                        Becomes(s, [runs[s] EXCEPT !.at = @ + 1]) /\ UNCHANGED torn
                   [] ~skipped /\ backend = "postgres" ->
                        Becomes(s, [entered EXCEPT !.phase = "begun"]) /\ UNCHANGED torn
                   [] OTHER -> \E to \in Reaches(0) :
                        Copies(s, [entered EXCEPT !.undo = EmptyTables], to)
              /\ clock' = IF Unit(s) = "flags" THEN clock + 1 ELSE clock
    /\ UNCHANGED <<fixed, tables, files, answers, raised, started>>

CopyOn(s) ==
    /\ Active(s) /\ runs[s].phase = "copying"
    /\ \E to \in Reaches(runs[s].done) : Copies(s, runs[s], to)
    /\ UNCHANGED <<fixed, tables, files, answers, clock, raised, started>>

\* Variant for the mutation runs: the record is written before the bytes.
PutOrderSwapped == <<"meta", "blob">>

\* FilesystemArtifactStore.put writes two files; an artifact whose record
\* exists is not written again.
PutOrder == <<"blob", "meta">>

StartPut(s) ==
    LET c == ContentOf[s] IN
    /\ Active(s) /\ Unit(s) = "ingest" /\ runs[s].phase = "begun"
    /\ IF "meta" \in files[c]
       THEN Becomes(s, [runs[s] EXCEPT !.phase = "stored"]) /\ UNCHANGED files
       ELSE /\ Becomes(s, [runs[s] EXCEPT !.phase = "half"])
            /\ files' = [files EXCEPT ![c] = @ \cup {PutOrder[1]}]
    /\ UNCHANGED <<fixed, tables, answers, clock, raised, torn, started>>

FinishPut(s) ==
    /\ Active(s) /\ runs[s].phase = "half"
    /\ files' = [files EXCEPT ![ContentOf[s]] = @ \cup {PutOrder[2]}]
    /\ Becomes(s, [runs[s] EXCEPT !.phase = "stored"])
    /\ UNCHANGED <<fixed, tables, answers, clock, raised, torn, started>>

CanSave(s) ==
    /\ Active(s)
    /\ runs[s].phase = IF Unit(s) = "ingest" THEN "stored" ELSE "begun"
    /\ Accepts(tables, s)

\* The answer _assemble_result makes of what the engines returned.
AnswerOf(s) ==
    [flags |-> FlagsOf(runs[s].found),
     results |-> ResultsOf(s, runs[s].found),
     findings |-> runs[s].found,
     explained |-> FlagsOf(runs[s].found),
     at |-> runs[s].now]

\* After its last unit a run returns its answer.
GoesOn(s) ==
    IF runs[s].at = Len(Units)
    THEN /\ Becomes(s, NoRecord)
         /\ answers' = [answers EXCEPT ![s] = AnswerOf(s)]
    ELSE Becomes(s, Advanced(runs[s])) /\ UNCHANGED answers

HasEvents(s) == Unit(s) \in {"ingest", "flags"}

\* The memory store: rows are visible before the events.  (A unit whose events
\* are left out ends with its rows.)
SaveRows(s) ==
    /\ backend = "memory" /\ CanSave(s)
    /\ tables' = Saved(tables, s)
    /\ IF HasEvents(s)
       THEN Becomes(s, [runs[s] EXCEPT !.phase = "saved"]) /\ UNCHANGED answers
       ELSE GoesOn(s)
    /\ UNCHANGED <<fixed, files, clock, raised, torn, started>>

AddEvents(s) ==
    /\ Active(s) /\ runs[s].phase = "saved"
    /\ tables' = Logged(tables, s)
    /\ GoesOn(s)
    /\ UNCHANGED <<fixed, files, clock, raised, torn, started>>

\* PostgreSQL: the unit becomes visible when it commits.
CommitTransaction(s) ==
    /\ backend = "postgres" /\ CanSave(s)
    /\ tables' = Logged(Saved(tables, s), s)
    /\ GoesOn(s)
    /\ UNCHANGED <<fixed, files, clock, raised, torn, started>>

\* Table by table, what update and extend make of t and u.
Overlaid(f, g) == [x \in DOMAIN f |-> IF g[x] # NoRecord THEN g[x] ELSE f[x]]
Merged(t, u) ==
    [submissions |-> Overlaid(t.submissions, u.submissions),
     ingested |-> t.ingested \cup u.ingested,
     documents |-> t.documents \cup u.documents, evidence |-> t.evidence \cup u.evidence,
     results |-> SavedResults(t, u.results), findings |-> t.findings \cup u.findings,
     states |-> Overlaid(t.states, u.states),
     snapshots |-> {x \in t.snapshots : \A y \in u.snapshots : y.flags # x.flags} \cup u.snapshots,
     audited |-> t.audited \cup u.audited,
     explanations |-> Overlaid(t.explanations, u.explanations)]

\* restore clears each table and fills it again: what others save into a table
\* between the two stays.
PutBack(t, u, from, to) ==
    LET left == Patched(t, EmptyTables, Cleared(from, to))
    IN  Patched(left, Merged(left, u), Copied(from, to))

\* The rollback goes on.  process_bid lets an exception of the ingestion through.
Restores(s, to) ==
    /\ Interrupted(to)
    /\ tables' = PutBack(tables, runs[s].undo, runs[s].done, to)
    /\ Becomes(s, CASE to # End -> [runs[s] EXCEPT !.phase = "restoring", !.done = to]
                    [] to = End /\ Unit(s) = "ingest" -> NoRecord
                    [] OTHER -> [runs[s] EXCEPT !.phase = "failing", !.undo = NoRecord, !.done = 0])

\* An exception in a unit or, in an engine, between two.  The unit is rolled
\* back, unless it is the copy that fails (a dictionary that grows under it
\* raises): then there is nothing to restore.
Raise(s) ==
    LET run == runs[s]
        refused == /\ run.phase = IF Unit(s) = "ingest" THEN "stored" ELSE "begun"
                   /\ ~Accepts(tables, s)
    IN
    /\ Active(s) /\ run.phase \notin {"restoring", "failing"}
    /\ refused \/ raised < MaxRaises
    /\ raised' = IF refused THEN raised ELSE raised + 1
    /\ IF run.undo = NoRecord \/ run.phase = "copying"
       THEN /\ Becomes(s, IF Unit(s) = "ingest" THEN NoRecord
                          ELSE [run EXCEPT !.phase = "failing", !.undo = NoRecord, !.done = 0])
            /\ UNCHANGED <<tables, torn>>
       ELSE \E to \in Reaches(0) : Restores(s, to)
    /\ UNCHANGED <<fixed, files, answers, clock, started>>

RestoreOn(s) ==
    /\ Active(s) /\ runs[s].phase = "restoring"
    /\ \E to \in Reaches(runs[s].done) : Restores(s, to)
    /\ UNCHANGED <<fixed, files, answers, clock, raised, started>>

\* fail_submission; that the row is gone is swallowed.
FailSubmission(s) ==
    /\ Active(s) /\ runs[s].phase = "failing"
    /\ tables' = [tables EXCEPT !.submissions[s] =
                     IF @ = NoRecord THEN NoRecord ELSE "FAILED"]
    /\ Becomes(s, NoRecord)
    /\ UNCHANGED <<fixed, files, answers, clock, raised, torn, started>>

Init ==
    /\ backend \in {"memory", "postgres"}
    /\ overlap \in BOOLEAN
    /\ tables = EmptyTables
    /\ files = [c \in Contents |-> {}]
    /\ runs = [s \in Submissions |-> NoRecord]
    /\ answers = [s \in Submissions |-> NoRecord]
    /\ clock = 0
    /\ raised = 0
    /\ torn = 0
    /\ started = 0

Next == \E s \in Submissions :
    \/ ProcessBid(s)
    \/ Retry(s)
    \/ Begin(s)
    \/ CopyOn(s)
    \/ StartPut(s)
    \/ FinishPut(s)
    \/ SaveRows(s)
    \/ AddEvents(s)
    \/ CommitTransaction(s)
    \/ Raise(s)
    \/ RestoreOn(s)
    \/ FailSubmission(s)

Spec == Init /\ [][Next]_vars

-------------------------------------------------------------------------------
(* _reconstruct: the answer for a submission that is COMPLETE, read back   *)
(* from the rows of its bidder.                                            *)

Newest(t) == CHOOSE x \in t.snapshots : \A y \in t.snapshots : y.at <= x.at

Reconstructed ==
    [flags |-> Newest(tables).flags,
     results |-> tables.results,
     findings |-> tables.findings,
     explained |-> {f \in Flags : tables.explanations[f] # NoRecord}]

-------------------------------------------------------------------------------
(* Correctness.                                                            *)

TypeOK ==
    /\ backend \in {"memory", "postgres"} /\ overlap \in BOOLEAN
    /\ tables \in Table
    /\ files \in [Contents -> SUBSET {"blob", "meta"}]
    /\ runs \in [Submissions -> Run \cup {NoRecord}]
    /\ answers \in [Submissions -> Answer \cup {NoRecord}]
    /\ clock \in Nat /\ raised \in Nat /\ torn \in Nat /\ started \in Nat
    /\ \A x \in tables.snapshots : x.at \in 1 .. clock
    /\ tables.audited \subseteq 1 .. clock

\* Units of one thread, and transactions, do not undo what others did.
Isolated == backend = "postgres" \/ ~overlap

\* What was answered stays on record: the results under the submission, the
\* findings, a set row and an explanation for every flag, the audit event of
\* the snapshot; whatever is submitted, fails or is run again afterwards.
AnswersAreOnRecord ==
    Isolated => \A s \in Submissions : answers[s] # NoRecord =>
        /\ answers[s].results \subseteq tables.results
        /\ answers[s].findings \subseteq tables.findings
        /\ answers[s].at \in tables.audited
        /\ \A f \in answers[s].flags :
              tables.states[f] # NoRecord /\ tables.explanations[f] # NoRecord

\* A flag never stands in the tables without the findings that raised it: a
\* set row cites stored findings, a snapshot has a set row for every flag that
\* is true, however runs of the bidder fail half-way or overlap.
FlagsAreGrounded ==
    Isolated =>
        /\ \A f \in Flags : tables.states[f] # NoRecord =>
              tables.states[f] # {} /\ tables.states[f] \subseteq tables.findings
        /\ \A x \in tables.snapshots : \A f \in x.flags :
              tables.states[f] # NoRecord

\* An explanation cites stored findings, even when the rollback of another
\* thread has taken findings away in the middle of a run, as long as no copy of
\* the store and no rollback has been interrupted.
ReferencesHold ==
    \A f \in Flags : tables.explanations[f] # NoRecord =>
        tables.explanations[f] \subseteq tables.findings
ExplanationsAreGrounded == torn = 0 => ReferencesHold

\* memory.py: the tables "reproduce PostgreSQL's PRIMARY KEY / UNIQUE / FOREIGN
\* KEY semantics".  With threads that share them they do not: a copy that is
\* interrupted between the findings and the explanations holds an explanation
\* without its findings, and a rollback puts it on record.
TablesKeepReferences ==
    (\A s \in Submissions : Active(s) => runs[s].phase = "between") => ReferencesHold

\* A document on record can be read: a put that broke off between its files
\* is made good by the next put of the same content.
DocumentsAreReadable ==
    \A s \in tables.documents : "blob" \in files[ContentOf[s]]

\* The last run of the bidder to store a snapshot answered s.
AnsweredLast(s) == answers[s] # NoRecord /\ answers[s].at = clock

\* It is the only run there has been.
OnlyRun(s) ==
    /\ clock = 1 /\ raised = 0
    /\ \A x \in Submissions \ {s} : ~Active(x) /\ answers[x] = NoRecord

\* With the memory store and one thread, the submission processed last reads
\* back the flags it was answered, also when flags go and come back; and all of
\* its answer, if the bidder's first run succeeded and is the only one.
ReadBackAgrees ==
    backend = "memory" /\ ~overlap =>
        \A s \in Submissions : AnsweredLast(s) =>
            /\ Reconstructed.flags = answers[s].flags
            /\ OnlyRun(s) =>
                  /\ Reconstructed.results = answers[s].results
                  /\ Reconstructed.findings = answers[s].findings
                  /\ Reconstructed.explained = answers[s].explained

\* service.py, process_bid: "re-submitting a submission that already reached
\* COMPLETE returns the persisted result".  One thread, and only the flags of
\* the submission processed last.
FlagsReadBack ==
    ~overlap => \A s \in Submissions :
        AnsweredLast(s) => Reconstructed.flags = answers[s].flags

\* unit_of_work.py: "a domain write and its outbox insert either both commit
\* or both vanish".  Between units there is a submission exactly where there
\* are the events of its ingestion.
IngestionIsAtomic ==
    (\A s \in Submissions : Active(s) => runs[s].phase = "between") =>
        \A s \in Submissions :
            tables.submissions[s] # NoRecord <=> s \in tables.ingested
===============================================================================

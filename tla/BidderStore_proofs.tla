-------------------------- MODULE BidderStore_proofs --------------------------
(***************************************************************************)
(* Proofs about what the submissions of a bidder leave on record, for any  *)
(* number of submissions, flags and requirements, both stores, any number  *)
(* of exceptions and runs: documents can be read, explanations and flags   *)
(* cite what is stored, and what was answered stays.                       *)
(***************************************************************************)
EXTENDS BidderStore, TLAPS

-------------------------------------------------------------------------------
(* Types.                                                                   *)

TypesOK ==
    /\ backend \in {"memory", "postgres"}
    /\ overlap \in BOOLEAN
    /\ tables \in Table
    /\ files \in [Contents -> SUBSET {"blob", "meta"}]
    /\ runs \in [Submissions -> Run \cup {NoRecord}]
    /\ answers \in [Submissions -> Answer \cup {NoRecord}]
    /\ clock \in Nat
    /\ torn \in Nat

LEMMA FlagsOfType == ASSUME NEW S \in SUBSET FindingIds PROVE FlagsOf(S) \in SUBSET Flags
BY DEF FlagsOf, FindingIds

LEMMA RefsType == ASSUME NEW S \in SUBSET FindingIds, NEW f PROVE Refs(S, f) \in SUBSET FindingIds
BY DEF Refs

LEMMA FromType ==
    ASSUME NEW S \in SUBSET FindingIds
    PROVE  FromRules(S) \in SUBSET FindingIds /\ FromAI(S) \in SUBSET FindingIds
BY DEF FromRules, FromAI

LEMMA ResultsType ==
    ASSUME NEW S \in SUBSET FindingIds, NEW s \in Submissions
    PROVE  ResultsOf(s, S) \in SUBSET Result
<1> SUFFICES ASSUME NEW r \in Requirements
             PROVE  [submission |-> s, requirement |-> r,
                     flags |-> FlagsOf({id \in S : id[1] = r})] \in Result
  BY DEF ResultsOf
<1>1. FlagsOf({id \in S : id[1] = r}) \in SUBSET Flags
  BY FlagsOfType
<1> QED  BY <1>1 DEF Result

\* The seven units of a run by their position.
LEMMA UnitAt ==
    ASSUME NEW s \in Submissions, runs[s] \in Run
    PROVE  /\ runs[s].at = 1 <=> Unit(s) = "ingest"
           /\ runs[s].at = 2 <=> Unit(s) = "evidence"
           /\ runs[s].at = 3 <=> Unit(s) = "engine"
           /\ runs[s].at = 4 <=> Unit(s) = "findings"
           /\ runs[s].at = 5 <=> Unit(s) = "flags"
           /\ runs[s].at = 6 <=> Unit(s) = "explain"
           /\ runs[s].at = 7 <=> Unit(s) = "complete"
           /\ Len(Units) = 7
           /\ runs[s].at \in 1 .. 7
<1>1. runs[s].at \in {1, 2, 3, 4, 5, 6, 7}
  BY DEF Run
<1>2. Len(Units) = 7
  BY DEF Units
<1> QED  BY <1>1, <1>2 DEF Unit, Units

-------------------------------------------------------------------------------
(* What a unit does to the tables.                                          *)

LEMMA SavedResultsType ==
    ASSUME NEW t \in Table, NEW new \in SUBSET Result
    PROVE  SavedResults(t, new) \in SUBSET Result
BY DEF SavedResults, Table

LEMMA SavedStatesType ==
    ASSUME NEW t \in Table, NEW found \in SUBSET FindingIds
    PROVE  SavedStates(t, found) \in [Flags -> Cites]
<1>1. \A f \in Flags : Refs(found, f) \in Cites
  BY RefsType DEF Cites
<1> QED  BY <1>1 DEF SavedStates, Table

LEMMA SavedSnapshotsType ==
    ASSUME NEW t \in Table, NEW new \in Snapshot
    PROVE  /\ SavedSnapshots(t, new) \in SUBSET Snapshot
           /\ SavedSnapshots(t, new) \subseteq t.snapshots \cup {new}
BY DEF SavedSnapshots, Table

\* The tables after a unit, field by field.
LEMMA SavedFields ==
    ASSUME NEW s \in Submissions, runs[s] \in Run, NEW t \in Table,
           NEW u, u = Saved(t, s)
    PROVE  LET at == runs[s].at
               found == runs[s].found
           IN
           /\ u \in Table
           /\ u.submissions = IF at = 1 THEN [t.submissions EXCEPT ![s] = "OPEN"]
                              ELSE IF at = 7 THEN [t.submissions EXCEPT ![s] = "COMPLETE"]
                              ELSE t.submissions
           /\ u.documents = IF at = 1 THEN t.documents \cup {s} ELSE t.documents
           /\ u.results = IF at = 3 THEN SavedResults(t, ResultsOf(s, found)) ELSE t.results
           /\ u.findings = IF at = 3 THEN t.findings \cup FromRules(found)
                           ELSE IF at = 4 THEN t.findings \cup FromAI(found) ELSE t.findings
           /\ u.states = IF at = 5 THEN SavedStates(t, found) ELSE t.states
           /\ u.snapshots = IF at = 5 THEN SavedSnapshots(t,
                                [flags |-> FlagsOf(found), at |-> runs[s].now])
                            ELSE t.snapshots
           /\ u.audited = t.audited
           /\ u.explanations = IF at = 6
                  THEN [t.explanations EXCEPT ![NextFlag(s)] = Refs(found, NextFlag(s))]
                  ELSE t.explanations
<1> DEFINE at == runs[s].at
           found == runs[s].found
<1>0. /\ found \in SUBSET FindingIds
      /\ runs[s].now \in Nat
  BY DEF Run
<1>1. CASE at = 1
  BY <1>1, UnitAt DEF Saved, Table, Mark
<1>2. CASE at = 2
  BY <1>2, UnitAt DEF Saved, Table
<1>3. CASE at = 3
  <2>1. SavedResults(t, ResultsOf(s, found)) \in SUBSET Result
    BY <1>0, ResultsType, SavedResultsType
  <2>2. FromRules(found) \in SUBSET FindingIds
    BY <1>0, FromType
  <2> QED  BY <1>3, <2>1, <2>2, UnitAt DEF Saved, Table
<1>4. CASE at = 4
  <2>1. FromAI(found) \in SUBSET FindingIds
    BY <1>0, FromType
  <2> QED  BY <1>4, <2>1, UnitAt DEF Saved, Table
<1>5. CASE at = 5
  <2>1. SavedStates(t, found) \in [Flags -> Cites]
    BY <1>0, SavedStatesType
  <2>2. [flags |-> FlagsOf(found), at |-> runs[s].now] \in Snapshot
    BY <1>0, FlagsOfType DEF Snapshot
  <2>3. SavedSnapshots(t, [flags |-> FlagsOf(found), at |-> runs[s].now]) \in SUBSET Snapshot
    BY <2>2, SavedSnapshotsType
  <2> QED  BY <1>5, <2>1, <2>3, UnitAt DEF Saved, Table
<1>6. CASE at = 6
  <2>1. Refs(found, NextFlag(s)) \in Cites
    BY <1>0, RefsType DEF Cites
  <2> QED  BY <1>6, <2>1, UnitAt DEF Saved, Table
<1>7. CASE at = 7
  BY <1>7, UnitAt DEF Saved, Table, Mark
<1> QED  BY <1>1, <1>2, <1>3, <1>4, <1>5, <1>6, <1>7, UnitAt

LEMMA LoggedFields ==
    ASSUME NEW s \in Submissions, runs[s] \in Run, NEW t \in Table,
           NEW u, u = Logged(t, s)
    PROVE  /\ u \in Table
           /\ u.submissions = t.submissions
           /\ u.documents = t.documents
           /\ u.results = t.results
           /\ u.findings = t.findings
           /\ u.states = t.states
           /\ u.snapshots = t.snapshots
           /\ u.explanations = t.explanations
           /\ u.audited = IF runs[s].at = 5 THEN t.audited \cup {runs[s].now} ELSE t.audited
BY UnitAt DEF Logged, Table, Run

-------------------------------------------------------------------------------
(* Copies and rollbacks.  Whole, they are the tables themselves; in pieces,  *)
(* they make tables of the rows of two.                                     *)

AllTables == {"submissions", "documents", "evidence", "results", "findings",
              "explanations", "audited", "ingested", "states", "snapshots"}

LEMMA WholeCopy == Copied(0, End) = AllTables /\ Cleared(0, End) = AllTables
<1>1. DOMAIN TableOrder = 1 .. 10 /\ End = 20
  BY DEF TableOrder, End
<1>2. {TableOrder[i] : i \in 1 .. 10} = AllTables
  BY DEF TableOrder, AllTables
<1>3. /\ {j \in DOMAIN TableOrder : 0 < 2 * j /\ 2 * j <= End} = 1 .. 10
      /\ {j \in DOMAIN TableOrder : 0 < 2 * j - 1 /\ 2 * j - 1 <= End} = 1 .. 10
  BY <1>1
<1> QED  BY <1>2, <1>3, Zenon DEF Copied, Cleared

LEMMA EmptyType == EmptyTables \in Table
BY DEF EmptyTables, Table, Mark, Cites

LEMMA TablesAreRecords == \A t \in Table : t # NoRecord
BY StoreAssumption

LEMMA PatchedType ==
    ASSUME NEW t \in Table, NEW u \in Table, NEW names
    PROVE  Patched(t, u, names) \in Table
BY DEF Patched, Table

LEMMA PatchedWhole ==
    ASSUME NEW t \in Table, NEW u \in Table
    PROVE  Patched(t, u, AllTables) = u
BY DEF Patched, Table, AllTables

LEMMA OverlaidType ==
    ASSUME NEW A, NEW B, NEW f \in [A -> B], NEW g \in [A -> B]
    PROVE  Overlaid(f, g) \in [A -> B]
BY DEF Overlaid

LEMMA MergedType ==
    ASSUME NEW t \in Table, NEW u \in Table
    PROVE  Merged(t, u) \in Table
<1>1. SavedResults(t, u.results) \in SUBSET Result
  BY SavedResultsType DEF Table
<1>2. Overlaid(t.submissions, u.submissions) \in [Submissions -> Mark]
  BY OverlaidType DEF Table
<1>3. /\ Overlaid(t.states, u.states) \in [Flags -> Cites]
      /\ Overlaid(t.explanations, u.explanations) \in [Flags -> Cites]
  BY OverlaidType DEF Table
<1> QED  BY <1>1, <1>2, <1>3 DEF Merged, Table

\* Filled into cleared tables, a copy is what it was.
LEMMA MergedEmpty ==
    ASSUME NEW u \in Table
    PROVE  Merged(EmptyTables, u) = u
<1>1. SavedResults(EmptyTables, u.results) = u.results
  BY DEF SavedResults, EmptyTables
<1>2. Overlaid(EmptyTables.submissions, u.submissions) = u.submissions
  BY DEF Overlaid, EmptyTables, Table
<1>3. /\ Overlaid(EmptyTables.states, u.states) = u.states
      /\ Overlaid(EmptyTables.explanations, u.explanations) = u.explanations
  BY DEF Overlaid, EmptyTables, Table
<1>4. /\ EmptyTables.ingested = {} /\ EmptyTables.documents = {} /\ EmptyTables.evidence = {}
      /\ EmptyTables.findings = {} /\ EmptyTables.snapshots = {} /\ EmptyTables.audited = {}
  BY DEF EmptyTables
<1> QED  BY <1>1, <1>2, <1>3, <1>4 DEF Merged, Table

LEMMA WholeRollback ==
    ASSUME NEW t \in Table, NEW u \in Table
    PROVE  PutBack(t, u, 0, End) = u
<1>1. Patched(t, EmptyTables, AllTables) = EmptyTables
  BY EmptyType, PatchedWhole
<1>2. Patched(EmptyTables, Merged(EmptyTables, u), AllTables) = u
  BY EmptyType, MergedEmpty, PatchedWhole
<1> QED  BY <1>1, <1>2, WholeCopy DEF PutBack

\* The documents, snapshots and audit events of v are of t or of u.
Within(v, t, u) ==
    /\ v \in Table
    /\ v.documents \subseteq t.documents \cup u.documents
    /\ v.snapshots \subseteq t.snapshots \cup u.snapshots
    /\ v.audited \subseteq t.audited \cup u.audited

LEMMA PatchedWithin ==
    ASSUME NEW t \in Table, NEW u \in Table, NEW names
    PROVE  Within(Patched(t, u, names), t, u)
<1>1. Patched(t, u, names) \in Table
  BY PatchedType
<1>2. /\ Patched(t, u, names).documents \in {t.documents, u.documents}
      /\ Patched(t, u, names).snapshots \in {t.snapshots, u.snapshots}
      /\ Patched(t, u, names).audited \in {t.audited, u.audited}
  BY DEF Patched, Table
<1> QED  BY <1>1, <1>2 DEF Within

LEMMA PutBackWithin ==
    ASSUME NEW t \in Table, NEW u \in Table, NEW from, NEW to
    PROVE  Within(PutBack(t, u, from, to), t, u)
<1> DEFINE left == Patched(t, EmptyTables, Cleared(from, to))
<1>1. Within(left, t, EmptyTables)
  BY EmptyType, PatchedWithin
<1>2. /\ EmptyTables.documents = {} /\ EmptyTables.snapshots = {} /\ EmptyTables.audited = {}
  BY DEF EmptyTables
<1> HIDE DEF left
<1>3. left \in Table /\ Merged(left, u) \in Table
  BY <1>1, MergedType DEF Within
<1>4. Within(Patched(left, Merged(left, u), Copied(from, to)), left, Merged(left, u))
  BY <1>3, PatchedWithin
<1>5. /\ Merged(left, u).documents = left.documents \cup u.documents
      /\ Merged(left, u).snapshots \subseteq left.snapshots \cup u.snapshots
      /\ Merged(left, u).audited = left.audited \cup u.audited
  BY DEF Merged
<1>6. PutBack(t, u, from, to) = Patched(left, Merged(left, u), Copied(from, to))
  BY DEF PutBack, left
<1> QED  BY <1>1, <1>2, <1>4, <1>5, <1>6 DEF Within

-------------------------------------------------------------------------------
(* The inductive invariant.  What is claimed of the tables must also hold   *)
(* of the copies that units of work keep to restore, and what a run relies  *)
(* on must have been stored by its earlier units.                           *)

Readable(t, fs) == \A s \in t.documents : "blob" \in fs[ContentOf[s]]

Explained(t) ==
    \A f \in Flags : t.explanations[f] # NoRecord => t.explanations[f] \subseteq t.findings

\* Holds of the tables and of every copy, in either store, threads or none;
\* references, until a copy or a rollback has been interrupted.
TableOK(t) == Readable(t, files) /\ (torn = 0 => Explained(t))

RunOK(run, s) ==
    /\ run.undo # NoRecord => TableOK(run.undo)
    /\ run.phase \in {"half", "stored"} => run.at = 1 /\ "blob" \in files[ContentOf[s]]
    /\ run.phase = "saved" => run.at \in {1, 5}

FilesOK == \A c \in Contents : "meta" \in files[c] => "blob" \in files[c]

Projected(t) ==
    /\ \A f \in Flags : t.states[f] # NoRecord =>
          t.states[f] # {} /\ t.states[f] \subseteq t.findings
    /\ \A x \in t.snapshots : \A f \in x.flags : t.states[f] # NoRecord

\* The answer of s stays on record, and s is not run again.
OnRecord(t, s) ==
    /\ t.submissions[s] = "COMPLETE"
    /\ answers[s].results \subseteq {x \in t.results : x.submission = s}
    /\ answers[s].findings \subseteq t.findings
    /\ answers[s].at \in t.audited
    /\ \A f \in answers[s].flags :
          t.states[f] # NoRecord /\ t.explanations[f] # NoRecord

\* Holds where units do not undo what others did.
TableGood(t) ==
    /\ Projected(t)
    /\ \A s \in Submissions : answers[s] # NoRecord => OnRecord(t, s)

\* What the earlier units of a run of s have left in the tables.
Written(t, s, run) ==
    /\ run.at >= 4 => /\ FromRules(run.found) \subseteq t.findings
                      /\ ResultsOf(s, run.found) \subseteq t.results
    /\ run.at >= 5 => run.found \subseteq t.findings
    /\ run.at = 5 /\ run.phase # "between" => run.todo = FlagsOf(run.found)
    /\ run.at >= 6 \/ (run.at = 5 /\ run.phase = "saved") =>
          \A f \in FlagsOf(run.found) : t.states[f] # NoRecord
    /\ run.at >= 6 =>
          /\ run.now \in t.audited
          /\ \A f \in FlagsOf(run.found) \ run.todo : t.explanations[f] # NoRecord
    /\ run.at = 7 => run.todo = {}

RunGood(run, s) ==
    /\ answers[s] = NoRecord
    /\ run.undo # NoRecord => TableGood(run.undo)
    /\ run.phase # "failing" => Written(tables, s, run)

\* A run is only in the middle of a copy or a rollback where threads share the
\* store and one was interrupted.
Whole(run) ==
    IF run.phase \in {"copying", "restoring"}
    THEN Shared /\ torn > 0 /\ run.undo # NoRecord
    ELSE run.done = 0

\* One thread works at a time, and a transaction keeps no copy.
Alone ==
    /\ ~overlap => \A s, x \in Submissions : Active(s) /\ Active(x) => s = x
    /\ backend = "postgres" =>
          \A s \in Submissions : Active(s) => runs[s].undo = NoRecord
    /\ \A s \in Submissions : Active(s) => Whole(runs[s])

GoodInv ==
    Isolated => /\ TableGood(tables)
                /\ \A s \in Submissions : Active(s) => RunGood(runs[s], s)

OKInv ==
    /\ TableOK(tables)
    /\ FilesOK
    /\ \A s \in Submissions : Active(s) => RunOK(runs[s], s)

IInv == TypesOK /\ Alone /\ OKInv /\ GoodInv

LEMMA InitIInv == Init => IInv
<1> SUFFICES ASSUME Init PROVE IInv
  OBVIOUS
<1>1. TypesOK
  <2> QED  BY EmptyType DEF Init, TypesOK
<1>2. \A s \in Submissions : ~Active(s)
  BY DEF Init, Active
<1>3. Alone
  BY <1>2 DEF Alone
<1>4. OKInv
  BY <1>2, StoreAssumption DEF OKInv, Init, EmptyTables, TableOK, Readable, Explained, FilesOK
<1>5. GoodInv
  BY <1>2 DEF GoodInv, Init, EmptyTables, TableGood, Projected
<1> QED  BY <1>1, <1>3, <1>4, <1>5 DEF IInv

-------------------------------------------------------------------------------
(* How a run goes on.                                                       *)

LEMMA NewRunType ==
    ASSUME NEW s
    PROVE  /\ NewRun(s) \in Run
           /\ [NewRun(s) EXCEPT !.at = 2] \in Run
BY DEF NewRun, Run, Phase, End, TableOrder

LEMMA AdvancedFields ==
    ASSUME NEW s \in Submissions, runs[s] \in Run, runs[s].at # 7,
           NEW run, run = Advanced(runs[s])
    PROVE  /\ run \in Run
           /\ run.phase = "between" /\ run.undo = NoRecord /\ run.done = runs[s].done
           /\ run.found = runs[s].found /\ run.now = runs[s].now
           /\ run.todo = IF runs[s].at = 6 THEN runs[s].todo \ {NextFlag(s)} ELSE runs[s].todo
           /\ run.at = IF runs[s].at = 6 /\ run.todo # {} THEN 6 ELSE runs[s].at + 1
<1>1. /\ Units[runs[s].at] = "explain" <=> runs[s].at = 6
      /\ runs[s].at \in 1 .. 7
  BY UnitAt DEF Unit
<1>2. "between" \in Phase
  BY DEF Phase
<1> DEFINE todo == IF runs[s].at = 6 THEN runs[s].todo \ {NextFlag(s)} ELSE runs[s].todo
           at == IF runs[s].at = 6 /\ todo # {} THEN 6 ELSE runs[s].at + 1
<1>3. run = [runs[s] EXCEPT !.phase = "between", !.undo = NoRecord, !.todo = todo, !.at = at]
  BY <1>1 DEF Advanced, NextFlag
<1>4. todo \in SUBSET Flags /\ at \in 1 .. 7
  BY <1>1 DEF Run
<1> HIDE DEF todo, at
<1>5. /\ run \in Run
      /\ run.phase = "between" /\ run.undo = NoRecord /\ run.done = runs[s].done
      /\ run.found = runs[s].found /\ run.now = runs[s].now
      /\ run.todo = todo /\ run.at = at
  BY <1>2, <1>3, <1>4 DEF Run
<1> QED  BY <1>5 DEF todo, at

LEMMA AnswerType ==
    ASSUME NEW s \in Submissions, runs[s] \in Run
    PROVE  AnswerOf(s) \in Answer
<1>1. runs[s].found \in SUBSET FindingIds /\ runs[s].now \in Nat
  BY DEF Run
<1> QED  BY <1>1, FlagsOfType, ResultsType DEF AnswerOf, Answer

\* A unit that is through: the run goes to the next one or is over.
LEMMA GoesOnCases ==
    ASSUME NEW s \in Submissions, TypesOK, Active(s), GoesOn(s)
    PROVE  /\ runs[s] \in Run
           /\ \/ /\ runs[s].at = 7
                 /\ Becomes(s, NoRecord)
                 /\ answers' = [answers EXCEPT ![s] = AnswerOf(s)]
              \/ /\ runs[s].at # 7
                 /\ Becomes(s, Advanced(runs[s]))
                 /\ answers' = answers
           /\ runs' \in [Submissions -> Run \cup {NoRecord}]
           /\ answers' \in [Submissions -> Answer \cup {NoRecord}]
<1>1. runs[s] \in Run
  BY DEF TypesOK, Active
<1>2. Len(Units) = 7
  BY <1>1, UnitAt
<1>3. CASE runs[s].at = 7
  <2>1. AnswerOf(s) \in Answer
    BY <1>1, AnswerType
  <2> QED  BY <1>1, <1>2, <1>3, <2>1 DEF GoesOn, Becomes, TypesOK
<1>4. CASE runs[s].at # 7
  <2>1. Advanced(runs[s]) \in Run
    BY <1>1, <1>4, AdvancedFields
  <2> QED  BY <1>1, <1>2, <1>4, <2>1 DEF GoesOn, Becomes, TypesOK
<1> QED  BY <1>3, <1>4

\* A unit that begins, and an exception, with a copy or rollback of one piece.
BeginsWhole(s) == Begin(s) /\ torn' = torn
RaisesWhole(s) == Raise(s) /\ torn' = torn

\* Those that others interrupt, and how they go on.
BreaksUp(s) ==
    \/ torn' # torn /\ (Begin(s) \/ Raise(s))
    \/ CopyOn(s) \/ RestoreOn(s)

\* What an engine's turn makes of a run: it passes over a unit with nothing to
\* store, or begins the next one.
Skips(s, run) ==
    /\ run.phase = "between" /\ run.undo = runs[s].undo /\ run.done = 0
    /\ run.found = runs[s].found /\ run.now = runs[s].now
    /\ run.todo = runs[s].todo /\ run.at = runs[s].at + 1
    /\ \/ runs[s].at = 4 /\ FromAI(run.found) = {}
       \/ runs[s].at = 6 /\ run.todo = {}

Begins(s, run) ==
    /\ run.phase = "begun" /\ run.at = runs[s].at /\ run.done = 0
    /\ run.at # 3 => run.found = runs[s].found
    /\ run.now = IF run.at = 5 THEN clock + 1 ELSE runs[s].now
    /\ run.at = 6 => run.todo # {}
    /\ run.todo = IF run.at = 5 THEN FlagsOf(run.found) ELSE runs[s].todo
    /\ run.undo = IF backend = "memory" THEN tables ELSE NoRecord

\* The run that enters a unit with what the engine found.
Entered(s, found) ==
    [runs[s] EXCEPT !.found = found,
                    !.now = IF runs[s].at = 5 THEN clock + 1 ELSE runs[s].now,
                    !.todo = IF runs[s].at = 5 THEN FlagsOf(found) ELSE runs[s].todo]

LEMMA EnteredFields ==
    ASSUME NEW s, TypesOK, runs[s] \in Run, NEW found \in SUBSET FindingIds
    PROVE  /\ Entered(s, found) \in Run
           /\ Entered(s, found).at = runs[s].at /\ Entered(s, found).undo = runs[s].undo
           /\ Entered(s, found).done = runs[s].done /\ Entered(s, found).found = found
           /\ Entered(s, found).now = IF runs[s].at = 5 THEN clock + 1 ELSE runs[s].now
           /\ Entered(s, found).todo = IF runs[s].at = 5 THEN FlagsOf(found) ELSE runs[s].todo
<1> DEFINE now == IF runs[s].at = 5 THEN clock + 1 ELSE runs[s].now
           todo == IF runs[s].at = 5 THEN FlagsOf(found) ELSE runs[s].todo
<1>1. now \in Nat /\ todo \in SUBSET Flags
  BY FlagsOfType DEF Run, TypesOK
<1>2. Entered(s, found) = [runs[s] EXCEPT !.found = found, !.now = now, !.todo = todo]
  BY DEF Entered
<1> HIDE DEF now, todo
<1>3. /\ Entered(s, found) \in Run
      /\ Entered(s, found).at = runs[s].at /\ Entered(s, found).undo = runs[s].undo
      /\ Entered(s, found).done = runs[s].done /\ Entered(s, found).found = found
      /\ Entered(s, found).now = now /\ Entered(s, found).todo = todo
  BY <1>1, <1>2 DEF Run
<1> QED  BY <1>3 DEF now, todo

\* What Begin does, by the position of the unit.
LEMMA BeginEnters ==
    ASSUME NEW s \in Submissions, TypesOK, Begin(s)
    PROVE  /\ runs[s] \in Run /\ runs[s].phase = "between"
           /\ clock' = IF runs[s].at = 5 THEN clock + 1 ELSE clock
           /\ \E found \in SUBSET FindingIds :
                 LET skipped == \/ runs[s].at = 4 /\ FromAI(found) = {}
                                \/ runs[s].at = 6 /\ Entered(s, found).todo = {}
                 IN  /\ runs[s].at # 3 => found = runs[s].found
                     /\ \/ /\ skipped /\ Becomes(s, [runs[s] EXCEPT !.at = @ + 1])
                           /\ UNCHANGED torn
                        \/ /\ ~skipped /\ backend = "postgres"
                           /\ Becomes(s, [Entered(s, found) EXCEPT !.phase = "begun"])
                           /\ UNCHANGED torn
                        \/ /\ ~skipped /\ backend = "memory"
                           /\ \E to \in Reaches(0) :
                                 Copies(s, [Entered(s, found) EXCEPT !.undo = EmptyTables], to)
<1>1. runs[s] \in Run /\ runs[s].phase = "between" /\ backend \in {"memory", "postgres"}
  BY DEF TypesOK, Active, Begin
<1>2. /\ runs[s].at = 5 <=> Unit(s) = "flags"
      /\ runs[s].at = 4 <=> Unit(s) = "findings"
      /\ runs[s].at = 6 <=> Unit(s) = "explain"
      /\ runs[s].at = 3 <=> Unit(s) = "engine"
  BY <1>1, UnitAt
<1>3. PICK found \in IF Unit(s) = "engine" THEN Outcomes ELSE {runs[s].found} :
          LET now == IF Unit(s) = "flags" THEN clock + 1 ELSE runs[s].now
              todo == IF Unit(s) = "flags" THEN FlagsOf(found) ELSE runs[s].todo
              skipped == \/ Unit(s) = "findings" /\ FromAI(found) = {}
                         \/ Unit(s) = "explain" /\ todo = {}
              entered == [runs[s] EXCEPT !.found = found, !.now = now, !.todo = todo]
          IN  /\ CASE skipped ->
                        Becomes(s, [runs[s] EXCEPT !.at = @ + 1]) /\ UNCHANGED torn
                   [] ~skipped /\ backend = "postgres" ->
                        Becomes(s, [entered EXCEPT !.phase = "begun"]) /\ UNCHANGED torn
                   [] OTHER -> \E to \in Reaches(0) :
                        Copies(s, [entered EXCEPT !.undo = EmptyTables], to)
              /\ clock' = IF Unit(s) = "flags" THEN clock + 1 ELSE clock
  BY Zenon DEF Begin
<1>4. found \in SUBSET FindingIds /\ (runs[s].at # 3 => found = runs[s].found)
  BY <1>1, <1>2, <1>3, StoreAssumption DEF Run
<1> DEFINE skipped == \/ runs[s].at = 4 /\ FromAI(found) = {}
                      \/ runs[s].at = 6 /\ Entered(s, found).todo = {}
           to == CHOOSE to \in Reaches(0) : TRUE
<1>5. Entered(s, found).todo = IF runs[s].at = 5 THEN FlagsOf(found) ELSE runs[s].todo
  BY <1>1, <1>4, EnteredFields
<1>6. /\ CASE skipped -> Becomes(s, [runs[s] EXCEPT !.at = @ + 1]) /\ UNCHANGED torn
           [] ~skipped /\ backend = "postgres" ->
                Becomes(s, [Entered(s, found) EXCEPT !.phase = "begun"]) /\ UNCHANGED torn
           [] OTHER -> \E x \in Reaches(0) :
                Copies(s, [Entered(s, found) EXCEPT !.undo = EmptyTables], x)
      /\ clock' = IF runs[s].at = 5 THEN clock + 1 ELSE clock
  BY <1>2, <1>3, <1>5 DEF Entered
<1> HIDE DEF skipped
<1>7. \/ /\ skipped /\ Becomes(s, [runs[s] EXCEPT !.at = @ + 1]) /\ UNCHANGED torn
      \/ /\ ~skipped /\ backend = "postgres"
         /\ Becomes(s, [Entered(s, found) EXCEPT !.phase = "begun"]) /\ UNCHANGED torn
      \/ /\ ~skipped /\ backend = "memory"
         /\ \E x \in Reaches(0) :
               Copies(s, [Entered(s, found) EXCEPT !.undo = EmptyTables], x)
  <2>1. CASE skipped
    BY <1>6, <2>1
  <2>2. CASE ~skipped /\ backend = "postgres"
    BY <1>6, <2>2
  <2>3. CASE ~skipped /\ backend = "memory"
    BY <1>6, <2>3
  <2> QED  BY <1>1, <2>1, <2>2, <2>3
<1> QED  BY <1>1, <1>4, <1>6, <1>7 DEF skipped

\* A copy of one piece is a copy of the tables.
LEMMA CopiesWhole ==
    ASSUME NEW s, NEW to, TypesOK, NEW run \in Run, run.done = 0, run.undo \in Table,
           Copies(s, run, to), torn' = torn
    PROVE  Becomes(s, [run EXCEPT !.phase = "begun", !.done = 0, !.undo = tables])
<1>1. to = End
  BY DEF Copies, Interrupted, TypesOK
<1>2. Patched(run.undo, tables, Copied(0, End)) = tables
  BY WholeCopy, PatchedWhole DEF TypesOK
<1> QED  BY <1>1, <1>2 DEF Copies

LEMMA BeginCases ==
    ASSUME NEW s \in Submissions, TypesOK, BeginsWhole(s), runs[s].done = 0,
           backend = "postgres" => runs[s].undo = NoRecord
    PROVE  \E run \in Run : Becomes(s, run) /\ (Skips(s, run) \/ Begins(s, run))
<1>1. runs[s] \in Run /\ runs[s].phase = "between" /\ tables \in Table
  BY BeginEnters DEF BeginsWhole, TypesOK
<1>2. PICK found \in SUBSET FindingIds :
         LET skipped == \/ runs[s].at = 4 /\ FromAI(found) = {}
                        \/ runs[s].at = 6 /\ Entered(s, found).todo = {}
         IN  /\ runs[s].at # 3 => found = runs[s].found
             /\ \/ /\ skipped /\ Becomes(s, [runs[s] EXCEPT !.at = @ + 1])
                   /\ UNCHANGED torn
                \/ /\ ~skipped /\ backend = "postgres"
                   /\ Becomes(s, [Entered(s, found) EXCEPT !.phase = "begun"])
                   /\ UNCHANGED torn
                \/ /\ ~skipped /\ backend = "memory"
                   /\ \E to \in Reaches(0) :
                         Copies(s, [Entered(s, found) EXCEPT !.undo = EmptyTables], to)
  BY BeginEnters DEF BeginsWhole
<1> DEFINE next == [runs[s] EXCEPT !.at = @ + 1]
           entered == Entered(s, found)
           undo == IF backend = "memory" THEN tables ELSE NoRecord
           begun == [entered EXCEPT !.phase = "begun", !.done = 0, !.undo = undo]
           skipped == \/ runs[s].at = 4 /\ FromAI(found) = {}
                      \/ runs[s].at = 6 /\ entered.todo = {}
<1>3. /\ entered \in Run /\ entered.at = runs[s].at /\ entered.undo = runs[s].undo
      /\ entered.done = 0 /\ entered.found = found
      /\ entered.now = IF runs[s].at = 5 THEN clock + 1 ELSE runs[s].now
      /\ entered.todo = IF runs[s].at = 5 THEN FlagsOf(found) ELSE runs[s].todo
  BY <1>1, EnteredFields
<1>4. runs[s].at # 3 => found = runs[s].found
  BY <1>2
<1>5. CASE skipped /\ Becomes(s, next)
  <2>1. /\ next \in Run /\ next.at = runs[s].at + 1 /\ next.done = 0
        /\ next.phase = "between" /\ next.undo = runs[s].undo /\ next.todo = runs[s].todo
        /\ next.now = runs[s].now /\ next.found = runs[s].found
    BY <1>1, <1>5 DEF Run
  <2>2. Skips(s, next)
    BY <1>1, <1>3, <1>4, <1>5, <2>1 DEF Skips
  <2> QED  BY <1>5, <2>1, <2>2
<1>6. CASE ~skipped /\ Becomes(s, begun)
  <2>1. /\ begun \in Run /\ begun.phase = "begun" /\ begun.at = entered.at
        /\ begun.found = entered.found /\ begun.now = entered.now
        /\ begun.todo = entered.todo /\ begun.undo = undo /\ begun.done = 0
    <3>1. "begun" \in Phase /\ 0 \in 0 .. End - 1 /\ undo \in Table \cup {NoRecord}
      BY <1>1 DEF Phase, End, TableOrder
    <3> HIDE DEF entered, undo
    <3> QED  BY <1>3, <3>1 DEF Run
  <2> HIDE DEF entered, begun
  <2>2. Begins(s, begun)
    BY <1>3, <1>4, <1>6, <2>1 DEF Begins
  <2> QED  BY <1>6, <2>1, <2>2
<1>7. ASSUME backend = "postgres", Becomes(s, [entered EXCEPT !.phase = "begun"])
      PROVE  Becomes(s, begun)
  <2>1. [entered EXCEPT !.phase = "begun"] = begun
    <3> HIDE DEF entered
    <3> QED  BY <1>3, <1>7 DEF Run
  <2> QED  BY <1>7, <2>1
<1>8. ASSUME backend = "memory", NEW to,
             Copies(s, [entered EXCEPT !.undo = EmptyTables], to)
      PROVE  Becomes(s, begun)
  <2> DEFINE run == [entered EXCEPT !.undo = EmptyTables]
  <2> HIDE DEF entered
  <2>1. run \in Run /\ run.done = 0 /\ run.undo = EmptyTables
    BY <1>3, EmptyType DEF Run
  <2>2. [run EXCEPT !.phase = "begun", !.done = 0, !.undo = tables] = begun
    BY <1>3, <1>8 DEF Run
  <2> HIDE DEF run, begun
  <2>3. Copies(s, run, to)
    BY <1>8 DEF run
  <2>4. torn' = torn
    BY DEF BeginsWhole
  <2>5. Becomes(s, [run EXCEPT !.phase = "begun", !.done = 0, !.undo = tables])
    BY <2>1, <2>3, <2>4, EmptyType, CopiesWhole
  <2> QED  BY <2>2, <2>5
<1>9. \/ skipped /\ Becomes(s, next)
      \/ ~skipped /\ Becomes(s, begun)
  BY <1>2, <1>7, <1>8
<1> QED  BY <1>5, <1>6, <1>9

-------------------------------------------------------------------------------
(* What the tables only gain: nothing a unit of s, or the start or failure  *)
(* of s, does takes away from what other submissions have on record.        *)

Keeps(t, u, s) ==
    /\ t.findings \subseteq u.findings
    /\ {x \in t.results : x.submission # s} \subseteq u.results
    /\ t.audited \subseteq u.audited
    /\ \A f \in Flags : /\ t.states[f] # NoRecord => u.states[f] # NoRecord
                        /\ t.explanations[f] # NoRecord => u.explanations[f] # NoRecord
    /\ \A x \in Submissions \ {s} : u.submissions[x] = t.submissions[x]

LEMMA CitesAreRecords == \A c \in SUBSET FindingIds : c # NoRecord
BY StoreAssumption

LEMMA ResultsAreOfSubmission ==
    ASSUME NEW s, NEW S, NEW n \in ResultsOf(s, S)
    PROVE  n.submission = s
<1>1. PICK r \in Requirements :
        n = [submission |-> s, requirement |-> r,
             flags |-> FlagsOf({id \in S : id[1] = r})]
  BY Zenon DEF ResultsOf
<1> QED  BY <1>1

LEMMA SaveKeeps ==
    ASSUME NEW s \in Submissions, runs[s] \in Run, NEW t \in Table,
           NEW u, u = Saved(t, s)
    PROVE  Keeps(t, u, s)
<1> DEFINE at == runs[s].at
           found == runs[s].found
<1>0. found \in SUBSET FindingIds
  BY DEF Run
<1>1. \A f : Refs(found, f) # NoRecord
  BY <1>0, RefsType, CitesAreRecords
<1>2. t.findings \subseteq u.findings /\ t.audited \subseteq u.audited
  <2>1. /\ u.audited = t.audited
        /\ u.findings = IF at = 3 THEN t.findings \cup FromRules(found)
                        ELSE IF at = 4 THEN t.findings \cup FromAI(found) ELSE t.findings
    BY SavedFields
  <2> QED  BY <2>1
<1>3. {x \in t.results : x.submission # s} \subseteq u.results
  <2>1. u.results = IF at = 3 THEN SavedResults(t, ResultsOf(s, found)) ELSE t.results
    BY SavedFields
  <2>2. \A n \in ResultsOf(s, found) : n.submission = s
    BY ResultsAreOfSubmission
  <2> QED  BY <2>1, <2>2 DEF SavedResults
<1>4. \A f \in Flags : t.states[f] # NoRecord => u.states[f] # NoRecord
  <2>1. u.states = IF at = 5 THEN SavedStates(t, found) ELSE t.states
    BY SavedFields
  <2> QED  BY <1>1, <2>1 DEF SavedStates
<1>5. \A f \in Flags : t.explanations[f] # NoRecord => u.explanations[f] # NoRecord
  <2>1. u.explanations = IF at = 6
            THEN [t.explanations EXCEPT ![NextFlag(s)] = Refs(found, NextFlag(s))]
            ELSE t.explanations
    BY SavedFields
  <2> QED  BY <1>1, <2>1 DEF Table
<1>6. \A x \in Submissions \ {s} : u.submissions[x] = t.submissions[x]
  <2>1. u.submissions = IF at = 1 THEN [t.submissions EXCEPT ![s] = "OPEN"]
                        ELSE IF at = 7 THEN [t.submissions EXCEPT ![s] = "COMPLETE"]
                        ELSE t.submissions
    BY SavedFields
  <2> QED  BY <2>1 DEF Table
<1> QED  BY <1>2, <1>3, <1>4, <1>5, <1>6 DEF Keeps

LEMMA LogKeeps ==
    ASSUME NEW s \in Submissions, runs[s] \in Run, NEW t \in Table,
           NEW u, u = Logged(t, s)
    PROVE  Keeps(t, u, s)
<1>1. /\ u.submissions = t.submissions
      /\ u.results = t.results
      /\ u.findings = t.findings
      /\ u.states = t.states
      /\ u.explanations = t.explanations
  BY LoggedFields
<1>2. t.audited \subseteq u.audited
  BY LoggedFields
<1> QED  BY <1>1, <1>2 DEF Keeps

\* What another submission has on record, or has written so far, stays.
LEMMA KeptOnRecord ==
    ASSUME NEW s \in Submissions, NEW x \in Submissions \ {s}, NEW t, NEW u,
           Keeps(t, u, s), OnRecord(t, x), answers[x] \in Answer
    PROVE  OnRecord(u, x)
BY DEF Keeps, OnRecord, Answer

LEMMA KeptWritten ==
    ASSUME NEW s \in Submissions, NEW x \in Submissions \ {s}, NEW t, NEW u,
           NEW run \in Run, Keeps(t, u, s), Written(t, x, run)
    PROVE  Written(u, x, run)
<1>1. run.found \in SUBSET FindingIds
  BY DEF Run
<1>2. FlagsOf(run.found) \in SUBSET Flags
  BY <1>1, FlagsOfType
<1>3. \A r \in ResultsOf(x, run.found) : r.submission # s
  BY ResultsAreOfSubmission
<1> QED  BY <1>2, <1>3 DEF Keeps, Written

\* What a run of s has on record once its unit is through.
UnitDone(u, s) ==
    LET run == runs[s] IN
    /\ run.at >= 3 => /\ FromRules(run.found) \subseteq u.findings
                      /\ ResultsOf(s, run.found) \subseteq u.results
    /\ run.at >= 4 => run.found \subseteq u.findings
    /\ run.at >= 5 => \A f \in FlagsOf(run.found) : u.states[f] # NoRecord
    /\ run.at = 5 => run.todo = FlagsOf(run.found)
    /\ run.at >= 6 =>
          /\ run.now \in u.audited
          /\ \A f \in FlagsOf(run.found) \ (run.todo \ {NextFlag(s)}) :
                u.explanations[f] # NoRecord
    /\ run.at = 7 => run.todo = {} /\ u.submissions[s] = "COMPLETE"

LEMMA SaveDone ==
    ASSUME NEW s \in Submissions, runs[s] \in Run, runs[s].phase # "between",
           NEW t \in Table, Written(t, s, runs[s]), NEW u, u = Saved(t, s)
    PROVE  UnitDone(u, s)
<1> DEFINE at == runs[s].at
           found == runs[s].found
<1>0. found \in SUBSET FindingIds /\ at \in 1 .. 7
  BY DEF Run
<1>1. FlagsOf(found) \in SUBSET Flags
  BY <1>0, FlagsOfType
<1>2. \A f : Refs(found, f) # NoRecord
  BY <1>0, RefsType, CitesAreRecords
<1>3. found = FromRules(found) \cup FromAI(found)
  BY DEF FromRules, FromAI
<1>4. /\ u.results = IF at = 3 THEN SavedResults(t, ResultsOf(s, found)) ELSE t.results
      /\ u.findings = IF at = 3 THEN t.findings \cup FromRules(found)
                      ELSE IF at = 4 THEN t.findings \cup FromAI(found) ELSE t.findings
      /\ u.states = IF at = 5 THEN SavedStates(t, found) ELSE t.states
      /\ u.audited = t.audited
      /\ u.explanations = IF at = 6
             THEN [t.explanations EXCEPT ![NextFlag(s)] = Refs(found, NextFlag(s))]
             ELSE t.explanations
      /\ u.submissions = IF at = 1 THEN [t.submissions EXCEPT ![s] = "OPEN"]
                         ELSE IF at = 7 THEN [t.submissions EXCEPT ![s] = "COMPLETE"]
                         ELSE t.submissions
  BY SavedFields
<1>5. at >= 3 => FromRules(found) \subseteq u.findings /\ ResultsOf(s, found) \subseteq u.results
  <2>1. CASE at = 3
    BY <1>4, <2>1 DEF SavedResults
  <2>2. CASE at >= 4
    BY <1>0, <1>4, <2>2 DEF Written
  <2> QED  BY <1>0, <2>1, <2>2
<1>6. at >= 4 => found \subseteq u.findings
  <2>1. CASE at = 4
    BY <1>3, <1>4, <2>1 DEF Written
  <2>2. CASE at >= 5
    BY <1>0, <1>4, <2>2 DEF Written
  <2> QED  BY <1>0, <2>1, <2>2
<1>7. at >= 5 => \A f \in FlagsOf(found) : u.states[f] # NoRecord
  <2>1. CASE at = 5
    BY <1>1, <1>2, <1>4, <2>1 DEF SavedStates
  <2>2. CASE at >= 6
    BY <1>0, <1>4, <2>2 DEF Written
  <2> QED  BY <1>0, <2>1, <2>2
<1>8. at >= 6 =>
         /\ runs[s].now \in u.audited
         /\ \A f \in FlagsOf(found) \ (runs[s].todo \ {NextFlag(s)}) :
               u.explanations[f] # NoRecord
  <2>1. CASE at = 6
    <3>1. \A f \in FlagsOf(found) :
             u.explanations[f] = IF f = NextFlag(s) THEN Refs(found, NextFlag(s))
                                                    ELSE t.explanations[f]
      BY <1>1, <1>4, <2>1 DEF Table
    <3>2. \A f \in FlagsOf(found) \ runs[s].todo : t.explanations[f] # NoRecord
      BY <2>1 DEF Written
    <3>3. runs[s].now \in u.audited
      BY <1>4, <2>1 DEF Written
    <3> QED  BY <1>2, <3>1, <3>2, <3>3
  <2>2. CASE at = 7
    BY <1>4, <2>2 DEF Written
  <2> QED  BY <1>0, <2>1, <2>2
<1>9. at = 5 => runs[s].todo = FlagsOf(found)
  BY DEF Written
<1>10. at = 7 => runs[s].todo = {} /\ u.submissions[s] = "COMPLETE"
  BY <1>4 DEF Written, Table
<1> QED  BY <1>5, <1>6, <1>7, <1>8, <1>9, <1>10 DEF UnitDone

LEMMA LogDone ==
    ASSUME NEW s \in Submissions, runs[s] \in Run, NEW t \in Table,
           UnitDone(t, s), NEW u, u = Logged(t, s)
    PROVE  UnitDone(u, s) /\ (runs[s].at = 5 => runs[s].now \in u.audited)
<1>1. /\ u.submissions = t.submissions
      /\ u.results = t.results
      /\ u.findings = t.findings
      /\ u.states = t.states
      /\ u.explanations = t.explanations
      /\ u.audited = IF runs[s].at = 5 THEN t.audited \cup {runs[s].now} ELSE t.audited
  BY LoggedFields
<1> QED  BY <1>1 DEF UnitDone

\* The next unit finds what it needs.
LEMMA AdvancedWritten ==
    ASSUME NEW s \in Submissions, runs[s] \in Run, runs[s].at # 7, NEW u,
           UnitDone(u, s), runs[s].at = 5 => runs[s].now \in u.audited,
           NEW run, run = Advanced(runs[s])
    PROVE  Written(u, s, run)
<1>1. /\ run.phase = "between"
      /\ run.found = runs[s].found /\ run.now = runs[s].now
      /\ run.todo = IF runs[s].at = 6 THEN runs[s].todo \ {NextFlag(s)} ELSE runs[s].todo
      /\ run.at = IF runs[s].at = 6 /\ run.todo # {} THEN 6 ELSE runs[s].at + 1
  BY AdvancedFields
<1>2. runs[s].at \in 1 .. 6
  BY DEF Run
<1>3. CASE runs[s].at <= 4
  BY <1>1, <1>2, <1>3 DEF UnitDone, Written
<1>4. CASE runs[s].at = 5
  BY <1>1, <1>4 DEF UnitDone, Written
<1>5. CASE runs[s].at = 6
  BY <1>1, <1>5 DEF UnitDone, Written
<1> QED  BY <1>2, <1>3, <1>4, <1>5

\* Explanations and flag rows cite what is there when they are written.
LEMMA SaveExplained ==
    ASSUME NEW s \in Submissions, runs[s] \in Run, NEW t \in Table,
           Explained(t), Accepts(t, s), NEW u, u = Saved(t, s)
    PROVE  Explained(u)
<1>1. t.findings \subseteq u.findings
  BY SaveKeeps DEF Keeps
<1>2. CASE runs[s].at = 6
  <2>1. u.explanations = [t.explanations EXCEPT ![NextFlag(s)] =
                              Refs(runs[s].found, NextFlag(s))]
    BY <1>2, SavedFields
  <2>2. Refs(runs[s].found, NextFlag(s)) \subseteq t.findings
    BY <1>2, UnitAt DEF Accepts
  <2> QED  BY <1>1, <2>1, <2>2 DEF Explained, Table
<1>3. CASE runs[s].at # 6
  <2>1. u.explanations = t.explanations
    BY <1>3, SavedFields
  <2> QED  BY <1>1, <2>1 DEF Explained
<1> QED  BY <1>2, <1>3

LEMMA SaveProjected ==
    ASSUME NEW s \in Submissions, runs[s] \in Run, NEW t \in Table,
           Projected(t), Written(t, s, runs[s]), NEW u, u = Saved(t, s)
    PROVE  Projected(u)
<1> DEFINE found == runs[s].found
           new == [flags |-> FlagsOf(found), at |-> runs[s].now]
<1>1. /\ t.findings \subseteq u.findings
      /\ \A f \in Flags : t.states[f] # NoRecord => u.states[f] # NoRecord
  BY SaveKeeps DEF Keeps
<1>2. CASE runs[s].at = 5
  <2>1. u.states = SavedStates(t, found) /\ u.snapshots = SavedSnapshots(t, new)
    BY <1>2, SavedFields
  <2>2. found \in SUBSET FindingIds /\ runs[s].now \in Nat
    BY DEF Run
  <2>3. found \subseteq t.findings
    BY <1>2 DEF Written
  <2>4. \A f \in FlagsOf(found) : Refs(found, f) # {} /\ Refs(found, f) \subseteq found
    BY DEF FlagsOf, Refs
  <2>5. \A f \in FlagsOf(found) : u.states[f] # NoRecord
    <3>1. \A f : Refs(found, f) # NoRecord
      BY <2>2, RefsType, CitesAreRecords
    <3> QED  BY <2>1, <2>2, <3>1, FlagsOfType DEF SavedStates
  <2>6. u.snapshots \subseteq t.snapshots \cup {new}
    <3>1. new \in Snapshot
      BY <2>2, FlagsOfType DEF Snapshot
    <3> QED  BY <2>1, <3>1, SavedSnapshotsType
  <2>7. \A f \in Flags : u.states[f] # NoRecord =>
           u.states[f] # {} /\ u.states[f] \subseteq u.findings
    BY <1>1, <2>1, <2>3, <2>4 DEF SavedStates, Projected
  <2>8. \A x \in u.snapshots : \A f \in x.flags : u.states[f] # NoRecord
    <3> SUFFICES ASSUME NEW x \in u.snapshots, NEW f \in x.flags
                 PROVE  u.states[f] # NoRecord
      OBVIOUS
    <3>1. CASE x = new
      BY <2>5, <3>1
    <3>2. CASE x \in t.snapshots
      BY <1>1, <3>2 DEF Projected, Table, Snapshot
    <3> QED  BY <2>6, <3>1, <3>2
  <2> QED  BY <2>7, <2>8 DEF Projected
<1>3. CASE runs[s].at # 5
  <2>1. u.states = t.states /\ u.snapshots = t.snapshots
    BY <1>3, SavedFields
  <2> QED  BY <1>1, <2>1 DEF Projected
<1> QED  BY <1>2, <1>3

-------------------------------------------------------------------------------
(* Types are kept, and at most one thread works where there is one.          *)

\* What an action of s does to the runs and the two settings.
ActsFor(s) ==
    /\ UNCHANGED <<backend, overlap>> /\ torn' \in {torn, torn + 1}
    /\ runs' \in [Submissions -> Run \cup {NoRecord}]
    /\ \A x \in Submissions \ {s} : runs'[x] = runs[x]
    /\ ~overlap => \A x \in Submissions \ {s} : ~Active(x)

LEMMA BecomesActs ==
    ASSUME NEW s \in Submissions, NEW run \in Run \cup {NoRecord}, TypesOK, Alone,
           UNCHANGED <<backend, overlap>>, torn' \in {torn, torn + 1}, Becomes(s, run),
           Active(s) \/ (~overlap => \A x \in Submissions : ~Active(x))
    PROVE  ActsFor(s) /\ runs'[s] = run
BY DEF ActsFor, Becomes, TypesOK, Alone, Active

LEMMA GoesOnActs ==
    ASSUME NEW s \in Submissions, TypesOK, Alone, Active(s), GoesOn(s),
           UNCHANGED <<backend, overlap, torn>>
    PROVE  /\ ActsFor(s)
           /\ answers' \in [Submissions -> Answer \cup {NoRecord}]
           /\ \A x \in Submissions \ {s} : answers'[x] = answers[x]
           /\ \/ /\ runs[s].at = 7 /\ runs'[s] = NoRecord
                 /\ answers'[s] = AnswerOf(s)
              \/ /\ runs[s].at # 7 /\ runs'[s] = Advanced(runs[s])
                 /\ answers' = answers
<1>1. /\ runs[s] \in Run
      /\ answers' \in [Submissions -> Answer \cup {NoRecord}]
      /\ \/ /\ runs[s].at = 7
            /\ Becomes(s, NoRecord)
            /\ answers' = [answers EXCEPT ![s] = AnswerOf(s)]
         \/ /\ runs[s].at # 7
            /\ Becomes(s, Advanced(runs[s]))
            /\ answers' = answers
  BY GoesOnCases
<1>2. CASE runs[s].at = 7
  <2>1. ActsFor(s) /\ runs'[s] = NoRecord
    BY <1>1, <1>2, BecomesActs
  <2> QED  BY <1>1, <1>2, <2>1 DEF TypesOK
<1>3. CASE runs[s].at # 7
  <2>1. Advanced(runs[s]) \in Run
    BY <1>1, <1>3, AdvancedFields
  <2>2. ActsFor(s) /\ runs'[s] = Advanced(runs[s])
    BY <1>1, <1>3, <2>1, BecomesActs
  <2> QED  BY <1>1, <1>3, <2>2 DEF TypesOK
<1> QED  BY <1>2, <1>3

\* Only a unit of work that begins takes a copy.
LEMMA AloneStep ==
    ASSUME NEW s \in Submissions, TypesOK, Alone, ActsFor(s),
           backend = "postgres" /\ Active(s)' => runs'[s].undo = NoRecord,
           Active(s)' => Whole(runs[s])'
    PROVE  Alone'
<1>1. ASSUME NEW x \in Submissions \ {s}, Active(x)' PROVE Whole(runs[x])'
  <2>1. runs'[x] = runs[x] /\ Whole(runs[x])
    BY <1>1 DEF Alone, ActsFor, Active
  <2>2. Shared' = Shared /\ (torn > 0 => torn' > 0)
    BY DEF ActsFor, Shared, TypesOK
  <2> QED  BY <2>1, <2>2 DEF Whole
<1>2. ~overlap' => \A x, y \in Submissions : Active(x)' /\ Active(y)' => x = y
  BY DEF Alone, ActsFor, Active
<1>3. backend' = "postgres" => \A x \in Submissions : Active(x)' => runs'[x].undo = NoRecord
  BY DEF Alone, ActsFor, Active
<1> QED  BY <1>1, <1>2, <1>3 DEF Alone

LEMMA ActionsOfStart ==
    ASSUME NEW s \in Submissions, IInv, ProcessBid(s) \/ Retry(s)
    PROVE  /\ TypesOK' /\ Alone' /\ ActsFor(s)
           /\ runs'[s] \in {NewRun(s), [NewRun(s) EXCEPT !.at = 2]}
           /\ UNCHANGED <<files, answers, clock, raised, torn>>
<1>0. TypesOK /\ Alone
  BY DEF IInv
<1>1. \E run \in {NewRun(s), [NewRun(s) EXCEPT !.at = 2]} : Becomes(s, run)
  BY DEF ProcessBid, Retry
<1>2. PICK run \in {NewRun(s), [NewRun(s) EXCEPT !.at = 2]} : Becomes(s, run)
  BY <1>1
<1>3. run \in Run /\ run.undo = NoRecord /\ run.done = 0 /\ run.phase = "between"
  BY <1>2, NewRunType DEF NewRun
<1>4. /\ UNCHANGED <<backend, overlap, torn>>
      /\ ~overlap => \A x \in Submissions : ~Active(x)
  BY DEF ProcessBid, Retry, MayStart, fixed
<1>5. ActsFor(s) /\ runs'[s] = run
  BY <1>0, <1>2, <1>3, <1>4, BecomesActs
<1>6. Alone'
  BY <1>0, <1>3, <1>5, AloneStep DEF Whole
<1>7. tables' \in Table
  <2>1. CASE ProcessBid(s)
    BY <1>0, <2>1 DEF ProcessBid, TypesOK
  <2>2. CASE Retry(s)
    BY <1>0, <2>2 DEF Retry, TypesOK, Table, Mark
  <2> QED  BY <2>1, <2>2
<1>8. UNCHANGED <<files, answers, clock, raised, torn>>
  BY DEF ProcessBid, Retry
<1>9. TypesOK'
  BY <1>0, <1>4, <1>5, <1>7, <1>8 DEF TypesOK, ActsFor
<1> QED  BY <1>2, <1>5, <1>6, <1>8, <1>9

LEMMA BeginActs ==
    ASSUME NEW s \in Submissions, IInv, BeginsWhole(s)
    PROVE  /\ TypesOK' /\ Alone' /\ ActsFor(s)
           /\ Active(s) /\ runs[s] \in Run /\ runs[s].phase = "between"
           /\ runs'[s] \in Run
           /\ Skips(s, runs'[s]) \/ Begins(s, runs'[s])
           /\ UNCHANGED <<tables, files, answers, raised, torn>>
           /\ clock' = IF runs[s].at = 5 THEN clock + 1 ELSE clock
<1>0. TypesOK /\ Alone /\ Active(s)
  BY DEF IInv, BeginsWhole, Begin
<1>1. /\ runs[s] \in Run /\ runs[s].phase = "between"
      /\ clock' = IF runs[s].at = 5 THEN clock + 1 ELSE clock
  BY <1>0, BeginEnters DEF BeginsWhole
<1>9. runs[s].done = 0 /\ (backend = "postgres" => runs[s].undo = NoRecord)
  BY <1>0, <1>1 DEF Alone, Whole
<1>2. PICK run \in Run : Becomes(s, run) /\ (Skips(s, run) \/ Begins(s, run))
  BY <1>0, <1>9, BeginCases
<1>3. UNCHANGED <<backend, overlap, tables, files, answers, raised, torn>>
  BY DEF BeginsWhole, Begin, fixed
<1>4. ActsFor(s) /\ runs'[s] = run
  BY <1>0, <1>2, <1>3, BecomesActs
<1>5. backend = "postgres" => run.undo = NoRecord
  BY <1>2, <1>9 DEF Skips, Begins
<1>6. Alone'
  <2>1. run.done = 0 /\ run.phase \in {"between", "begun"}
    BY <1>2 DEF Skips, Begins
  <2> QED  BY <1>0, <1>4, <1>5, <2>1, AloneStep DEF Whole
<1>7. TypesOK'
  BY <1>0, <1>1, <1>3, <1>4 DEF TypesOK, ActsFor
<1> QED  BY <1>0, <1>1, <1>2, <1>3, <1>4, <1>6, <1>7

\* The two files of a put.
LEMMA PutActs ==
    ASSUME NEW s \in Submissions, IInv, StartPut(s) \/ FinishPut(s)
    PROVE  /\ TypesOK' /\ Alone' /\ ActsFor(s)
           /\ Active(s) /\ runs[s] \in Run /\ runs[s].at = 1
           /\ runs'[s] \in { [runs[s] EXCEPT !.phase = "half"],
                             [runs[s] EXCEPT !.phase = "stored"] }
           /\ UNCHANGED <<tables, answers, clock, raised, torn>>
           /\ FilesOK' /\ "blob" \in files'[ContentOf[s]]
           /\ \A c \in Contents : files[c] \subseteq files'[c]
<1>0. TypesOK /\ Alone /\ FilesOK /\ Active(s) /\ ContentOf[s] \in Contents
  BY StoreAssumption DEF IInv, OKInv, StartPut, FinishPut
<1>1. runs[s] \in Run /\ RunOK(runs[s], s)
  BY <1>0 DEF TypesOK, Active, IInv, OKInv
<1>2. runs[s].at = 1
  <2>1. CASE StartPut(s)
    BY <1>1, <2>1, UnitAt DEF StartPut
  <2>2. CASE FinishPut(s)
    BY <1>1, <2>2 DEF FinishPut, RunOK
  <2> QED  BY <2>1, <2>2
<1>3. \E phase \in {"half", "stored"} : Becomes(s, [runs[s] EXCEPT !.phase = phase])
  BY DEF StartPut, FinishPut
<1>4. PICK phase \in {"half", "stored"} : Becomes(s, [runs[s] EXCEPT !.phase = phase])
  BY <1>3
<1> DEFINE run == [runs[s] EXCEPT !.phase = phase]
<1>5. run \in Run /\ run.undo = runs[s].undo /\ run.done = runs[s].done /\ run.phase = phase
  BY <1>1, <1>4 DEF Run, Phase
<1>6. UNCHANGED <<backend, overlap, tables, answers, clock, raised, torn>>
  BY DEF StartPut, FinishPut, fixed
<1>7. ActsFor(s) /\ runs'[s] = run
  BY <1>0, <1>4, <1>5, <1>6, BecomesActs
<1>8. Alone'
  <2>1. backend = "postgres" => run.undo = NoRecord
    BY <1>0, <1>5 DEF Alone
  <2>2. runs[s].phase \in {"begun", "half"} /\ Whole(runs[s])
    BY <1>0 DEF Alone, StartPut, FinishPut
  <2>3. Whole(runs[s])'
    BY <1>4, <1>5, <1>7, <2>2 DEF Whole
  <2> QED  BY <1>0, <1>7, <2>1, <2>3, AloneStep
<1>9. /\ files' \in [Contents -> SUBSET {"blob", "meta"}]
      /\ FilesOK' /\ "blob" \in files'[ContentOf[s]]
      /\ \A c \in Contents : files[c] \subseteq files'[c]
  <2>1. CASE StartPut(s) /\ "meta" \in files[ContentOf[s]]
    BY <1>0, <2>1 DEF StartPut, FilesOK, TypesOK
  <2>2. CASE StartPut(s) /\ "meta" \notin files[ContentOf[s]]
    <3>1. files' = [files EXCEPT ![ContentOf[s]] = @ \cup {"blob"}]
      BY <2>2 DEF StartPut, PutOrder
    <3> QED  BY <1>0, <3>1 DEF FilesOK, TypesOK
  <2>3. CASE FinishPut(s)
    <3>1. files' = [files EXCEPT ![ContentOf[s]] = @ \cup {"meta"}]
      BY <2>3 DEF FinishPut, PutOrder
    <3>2. "blob" \in files[ContentOf[s]]
      BY <1>1, <2>3 DEF FinishPut, RunOK
    <3> QED  BY <1>0, <3>1, <3>2 DEF FilesOK, TypesOK
  <2> QED  BY <2>1, <2>2, <2>3
<1>10. TypesOK'
  BY <1>0, <1>6, <1>7, <1>9 DEF TypesOK, ActsFor
<1> QED  BY <1>0, <1>1, <1>2, <1>4, <1>6, <1>7, <1>8, <1>9, <1>10

\* The three ways a unit writes: the rows, the events after them, or both.
UnitActs(s) ==
    /\ runs[s] \in Run /\ runs[s].phase # "failing"
    /\ \/ runs[s].phase \in {"begun", "stored"} /\ Accepts(tables, s)
             /\ tables' \in {Saved(tables, s), Logged(Saved(tables, s), s)}
       \/ runs[s].phase = "saved" /\ tables' = Logged(tables, s)
    /\ \/ /\ runs[s].at \in {1, 5} /\ tables' = Saved(tables, s)
          /\ runs'[s] = [runs[s] EXCEPT !.phase = "saved"]
          /\ answers' = answers
       \/ /\ runs[s].at = 7 /\ runs'[s] = NoRecord
          /\ answers'[s] = AnswerOf(s)
       \/ /\ runs[s].at # 7 /\ runs'[s] = Advanced(runs[s])
          /\ runs[s].at = 5 => runs[s].now \in tables'.audited
          /\ answers' = answers
    /\ \A x \in Submissions \ {s} : answers'[x] = answers[x]

LEMMA WritingActs ==
    ASSUME NEW s \in Submissions, IInv,
           SaveRows(s) \/ AddEvents(s) \/ CommitTransaction(s)
    PROVE  /\ TypesOK' /\ Alone' /\ ActsFor(s) /\ Active(s) /\ UnitActs(s)
           /\ UNCHANGED <<files, clock, raised, torn>>
<1>0. /\ TypesOK /\ Alone /\ Active(s)
      /\ UNCHANGED <<backend, overlap, files, clock, raised, torn>>
  BY DEF IInv, SaveRows, AddEvents, CommitTransaction, CanSave, fixed
<1>1. runs[s] \in Run /\ RunOK(runs[s], s) /\ tables \in Table
  BY <1>0 DEF TypesOK, Active, IInv, OKInv
<1>2. /\ Saved(tables, s) \in Table
      /\ Logged(Saved(tables, s), s) \in Table
      /\ Logged(tables, s) \in Table
  BY <1>1, SavedFields, LoggedFields
<1>3. /\ runs[s].phase # "failing"
      /\ \/ runs[s].phase \in {"begun", "stored"} /\ Accepts(tables, s)
               /\ tables' \in {Saved(tables, s), Logged(Saved(tables, s), s)}
         \/ runs[s].phase = "saved" /\ tables' = Logged(tables, s)
      /\ tables' \in Table
  BY <1>2 DEF SaveRows, AddEvents, CommitTransaction, CanSave
<1>7. runs[s].done = 0
  BY <1>0, <1>3 DEF Alone, Whole
<1>4. CASE SaveRows(s) /\ HasEvents(s)
  <2> DEFINE run == [runs[s] EXCEPT !.phase = "saved"]
  <2>1. /\ run \in Run /\ run.undo = runs[s].undo /\ Becomes(s, run)
        /\ run.done = runs[s].done /\ run.phase = "saved"
    BY <1>1, <1>4 DEF Run, Phase, SaveRows
  <2>2. answers' = answers /\ tables' = Saved(tables, s) /\ runs[s].at \in {1, 5}
    BY <1>1, <1>4, UnitAt DEF SaveRows, HasEvents
  <2>3. ActsFor(s) /\ runs'[s] = run
    BY <1>0, <2>1, BecomesActs
  <2>4. Alone'
    <3>1. backend = "postgres" => run.undo = NoRecord
      BY <1>0, <2>1 DEF Alone
    <3>2. Whole(runs[s])'
      BY <1>7, <2>1, <2>3 DEF Whole
    <3> QED  BY <1>0, <2>3, <3>1, <3>2, AloneStep
  <2>5. TypesOK'
    BY <1>0, <1>3, <2>2, <2>3 DEF TypesOK, ActsFor
  <2> QED  BY <1>0, <1>1, <1>3, <2>2, <2>3, <2>4, <2>5 DEF UnitActs
<1>5. CASE GoesOn(s) /\ (SaveRows(s) => ~HasEvents(s))
  <2>1. /\ ActsFor(s)
        /\ answers' \in [Submissions -> Answer \cup {NoRecord}]
        /\ \A x \in Submissions \ {s} : answers'[x] = answers[x]
        /\ \/ /\ runs[s].at = 7 /\ runs'[s] = NoRecord
              /\ answers'[s] = AnswerOf(s)
           \/ /\ runs[s].at # 7 /\ runs'[s] = Advanced(runs[s])
              /\ answers' = answers
    BY <1>0, <1>5, GoesOnActs
  <2>2. Active(s)' => /\ runs'[s].undo = NoRecord /\ runs'[s].done = 0
                      /\ runs'[s].phase = "between"
    BY <1>1, <1>7, <2>1, AdvancedFields DEF Active
  <2>3. Alone'
    BY <1>0, <2>1, <2>2, AloneStep DEF Whole
  <2>4. TypesOK'
    BY <1>0, <1>3, <2>1 DEF TypesOK, ActsFor
  <2>5. runs[s].at = 5 => runs[s].now \in tables'.audited
    <3> SUFFICES ASSUME runs[s].at = 5 PROVE runs[s].now \in tables'.audited
      OBVIOUS
    <3>1. HasEvents(s)
      BY <1>1, UnitAt DEF HasEvents
    <3>2. tables' \in {Logged(Saved(tables, s), s), Logged(tables, s)}
      BY <1>5, <3>1 DEF SaveRows, AddEvents, CommitTransaction
    <3>3. PICK t \in Table : tables' = Logged(t, s)
      BY <1>1, <1>2, <3>2
    <3>4. Logged(t, s).audited = t.audited \cup {runs[s].now}
      BY <1>1, LoggedFields
    <3> QED  BY <3>3, <3>4
  <2> QED  BY <1>0, <1>1, <1>3, <2>1, <2>3, <2>4, <2>5 DEF UnitActs
<1>6. GoesOn(s) \/ (SaveRows(s) /\ HasEvents(s))
  BY DEF SaveRows, AddEvents, CommitTransaction
<1> QED  BY <1>4, <1>5, <1>6 DEF SaveRows

LEMMA FailingFields ==
    ASSUME NEW old \in Run, NEW run,
           run = [old EXCEPT !.phase = "failing", !.undo = NoRecord, !.done = 0]
    PROVE  /\ run \in Run /\ run.at = old.at /\ run.now = old.now
           /\ run.phase = "failing" /\ run.undo = NoRecord /\ run.done = 0
<1>1. 0 \in 0 .. End - 1 /\ "failing" \in Phase
  BY DEF End, TableOrder, Phase
<1> QED  BY <1>1 DEF Run

\* An exception, and the fate of the run.  A copy that fails leaves the tables.
RaiseActs(s) ==
    /\ runs[s] \in Run
    /\ tables' = IF runs[s].undo = NoRecord \/ runs[s].phase = "copying"
                 THEN tables ELSE runs[s].undo
    /\ runs'[s] \in {NoRecord, [runs[s] EXCEPT !.phase = "failing", !.undo = NoRecord,
                                               !.done = 0]}

LEMMA RaiseCases ==
    ASSUME NEW s \in Submissions, TypesOK, Alone, RaisesWhole(s)
    PROVE  /\ tables' = IF runs[s].undo = NoRecord \/ runs[s].phase = "copying"
                        THEN tables ELSE runs[s].undo
           /\ \E run \in {NoRecord, [runs[s] EXCEPT !.phase = "failing", !.undo = NoRecord,
                                                     !.done = 0]} : Becomes(s, run)
<1>1. /\ runs[s] \in Run /\ tables \in Table
      /\ Whole(runs[s]) /\ runs[s].phase # "restoring"
  BY DEF TypesOK, Alone, Active, RaisesWhole, Raise
<1>2. CASE runs[s].undo = NoRecord \/ runs[s].phase = "copying"
  BY <1>2 DEF RaisesWhole, Raise
<1>3. CASE ~(runs[s].undo = NoRecord \/ runs[s].phase = "copying")
  <2>1. PICK to \in Reaches(0) : Restores(s, to)
    BY <1>3 DEF RaisesWhole, Raise
  <2>2. to = End
    BY <2>1 DEF Restores, Interrupted, RaisesWhole, TypesOK
  <2>3. runs[s].done = 0 /\ runs[s].undo \in Table
    BY <1>1, <1>3 DEF Whole, Run
  <2>4. tables' = runs[s].undo
    BY <1>1, <2>1, <2>2, <2>3, WholeRollback DEF Restores
  <2> QED  BY <1>3, <2>1, <2>2, <2>4 DEF Restores
<1> QED  BY <1>2, <1>3

LEMMA FailureActs ==
    ASSUME NEW s \in Submissions, IInv, RaisesWhole(s) \/ FailSubmission(s)
    PROVE  /\ TypesOK' /\ Alone' /\ ActsFor(s) /\ Active(s)
           /\ UNCHANGED <<files, answers, clock, torn>>
           /\ RaisesWhole(s) => RaiseActs(s)
           /\ FailSubmission(s) => runs'[s] = NoRecord
<1>0. /\ TypesOK /\ Alone /\ Active(s)
      /\ UNCHANGED <<backend, overlap, files, answers, clock, torn>>
  BY DEF IInv, RaisesWhole, Raise, FailSubmission, fixed
<1>1. runs[s] \in Run /\ tables \in Table
  BY <1>0 DEF TypesOK, Active
<1> DEFINE failing == [runs[s] EXCEPT !.phase = "failing", !.undo = NoRecord, !.done = 0]
<1>2. /\ failing \in Run /\ failing.undo = NoRecord /\ failing.done = 0
      /\ failing.phase = "failing"
  BY <1>1, FailingFields
<1>3. CASE RaisesWhole(s)
  <2>1. /\ tables' = IF runs[s].undo = NoRecord \/ runs[s].phase = "copying"
                     THEN tables ELSE runs[s].undo
        /\ \E run \in {NoRecord, failing} : Becomes(s, run)
    BY <1>0, <1>3, RaiseCases
  <2>2. PICK run \in {NoRecord, failing} : Becomes(s, run)
    BY <2>1
  <2>3. ActsFor(s) /\ runs'[s] = run
    BY <1>0, <1>2, <2>2, BecomesActs
  <2>4. Alone'
    BY <1>0, <1>2, <2>2, <2>3, AloneStep DEF Active, Whole
  <2>6. tables' \in Table
    BY <1>1, <2>1 DEF Run
  <2>7. TypesOK'
    BY <1>0, <2>3, <2>6 DEF TypesOK, ActsFor
  <2>8. FailSubmission(s) => FALSE
    BY <1>3 DEF RaisesWhole, Raise, FailSubmission
  <2> QED  BY <1>0, <1>1, <2>1, <2>2, <2>3, <2>4, <2>7, <2>8 DEF RaiseActs
<1>4. CASE FailSubmission(s)
  <2>1. ActsFor(s) /\ runs'[s] = NoRecord
    BY <1>0, <1>4, BecomesActs DEF FailSubmission
  <2>2. Alone'
    BY <1>0, <2>1, AloneStep DEF Active
  <2>3. tables' \in Table
    BY <1>1, <1>4 DEF FailSubmission, Table, Mark
  <2>4. TypesOK'
    BY <1>0, <2>1, <2>3 DEF TypesOK, ActsFor
  <2>5. RaisesWhole(s) => FALSE
    BY <1>4 DEF RaisesWhole, Raise, FailSubmission
  <2> QED  BY <1>0, <2>1, <2>2, <2>4, <2>5
<1> QED  BY <1>3, <1>4

\* What an interrupted copy or rollback makes of the tables and of the copy of
\* the unit, for lack of which it starts from nothing.
Before(s) == IF runs[s].undo = NoRecord THEN EmptyTables ELSE runs[s].undo

PieceOf(s, run) ==
    /\ run \in Run /\ run.at = runs[s].at
    /\ run.phase \in {"copying", "begun", "restoring", "failing"}
    /\ run.phase \in {"copying", "restoring"} => run.undo # NoRecord
    /\ run.phase \in {"begun", "failing"} => run.done = 0
    /\ run.undo # NoRecord => Within(run.undo, tables, Before(s))
    /\ \/ clock' = clock + 1 /\ run.now = clock'
       \/ /\ clock' = clock /\ run.now = runs[s].now
          /\ run.at = 5 /\ run.phase \in {"copying", "begun"} => runs[s].phase = "copying"

PieceActs(s) ==
    /\ Shared /\ torn' > 0 /\ torn' \in {torn, torn + 1}
    /\ Active(s) /\ runs[s] \in Run
    /\ Within(tables', tables, Before(s))
    /\ UNCHANGED <<backend, overlap, files, answers>>
    /\ \/ Becomes(s, NoRecord) /\ clock' = clock
       \/ \E run : Becomes(s, run) /\ PieceOf(s, run)

LEMMA WithinItself == ASSUME NEW t \in Table, NEW u PROVE Within(t, t, u)
BY DEF Within

\* A copy that has come as far as to.
LEMMA CopiesPiece ==
    ASSUME NEW s \in Submissions, TypesOK, NEW run \in Run, NEW to \in 1 .. End,
           run.undo \in Table, Within(run.undo, EmptyTables, Before(s))
    PROVE  LET next == [run EXCEPT !.phase = IF to = End THEN "begun" ELSE "copying",
                                   !.done = IF to = End THEN 0 ELSE to,
                                   !.undo = Patched(@, tables, Copied(run.done, to))]
           IN  /\ next \in Run /\ next.at = run.at /\ next.now = run.now
               /\ next.phase = IF to = End THEN "begun" ELSE "copying"
               /\ next.done = IF to = End THEN 0 ELSE to
               /\ next.undo # NoRecord
               /\ Within(next.undo, tables, Before(s))
<1> DEFINE undo == Patched(run.undo, tables, Copied(run.done, to))
           done == IF to = End THEN 0 ELSE to
           phase == IF to = End THEN "begun" ELSE "copying"
           next == [run EXCEPT !.phase = phase, !.done = done, !.undo = undo]
<1>1. Within(undo, run.undo, tables)
  BY PatchedWithin DEF TypesOK
<1>2. undo \in Table /\ undo # NoRecord
  BY <1>1, TablesAreRecords DEF Within
<1>3. done \in 0 .. End - 1 /\ phase \in Phase
  BY DEF End, TableOrder, Phase
<1>4. EmptyTables.documents = {} /\ EmptyTables.snapshots = {} /\ EmptyTables.audited = {}
  BY DEF EmptyTables
<1>5. Within(undo, tables, Before(s))
  BY <1>1, <1>4 DEF Within
<1> HIDE DEF undo, done, phase
<1>6. /\ next \in Run /\ next.at = run.at /\ next.now = run.now /\ next.phase = phase
      /\ next.done = done /\ next.undo = undo
  BY <1>2, <1>3 DEF Run
<1> QED  BY <1>2, <1>5, <1>6 DEF undo, done, phase

\* A rollback that has come as far as to.
LEMMA RestoresPiece ==
    ASSUME NEW s \in Submissions, TypesOK, runs[s] \in Run, runs[s].undo # NoRecord,
           NEW to \in 1 .. End
    PROVE  /\ Within(PutBack(tables, runs[s].undo, runs[s].done, to), tables, Before(s))
           /\ LET next == [runs[s] EXCEPT !.phase = "restoring", !.done = to]
              IN  to # End => /\ next \in Run /\ next.at = runs[s].at
                              /\ next.now = runs[s].now /\ next.phase = "restoring"
                              /\ next.undo = runs[s].undo
           /\ LET next == [runs[s] EXCEPT !.phase = "failing", !.undo = NoRecord, !.done = 0]
              IN  /\ next \in Run /\ next.at = runs[s].at /\ next.now = runs[s].now
                  /\ next.phase = "failing" /\ next.undo = NoRecord /\ next.done = 0
<1>1. runs[s].undo \in Table /\ tables \in Table /\ Before(s) = runs[s].undo
  BY DEF TypesOK, Run, Before
<1>2. Within(PutBack(tables, runs[s].undo, runs[s].done, to), tables, Before(s))
  BY <1>1, PutBackWithin
<1>3. "restoring" \in Phase /\ (to # End => to \in 0 .. End - 1)
  BY DEF End, TableOrder, Phase
<1> DEFINE left == [runs[s] EXCEPT !.phase = "restoring", !.done = to]
           failing == [runs[s] EXCEPT !.phase = "failing", !.undo = NoRecord, !.done = 0]
<1>4. to # End => /\ left \in Run /\ left.at = runs[s].at
                  /\ left.now = runs[s].now /\ left.phase = "restoring"
                  /\ left.undo = runs[s].undo
  BY <1>3 DEF Run
<1>5. /\ failing \in Run /\ failing.at = runs[s].at /\ failing.now = runs[s].now
      /\ failing.phase = "failing" /\ failing.undo = NoRecord /\ failing.done = 0
  BY FailingFields
<1> QED  BY <1>2, <1>4, <1>5

LEMMA PieceCases ==
    ASSUME NEW s \in Submissions, IInv, BreaksUp(s)
    PROVE  PieceActs(s)
<1>0. /\ TypesOK /\ Alone /\ Active(s) /\ torn \in Nat
      /\ UNCHANGED <<backend, overlap, files, answers>>
  BY DEF IInv, TypesOK, BreaksUp, Begin, Raise, CopyOn, RestoreOn, fixed
<1>1. /\ runs[s] \in Run /\ tables \in Table /\ Whole(runs[s])
      /\ runs[s].undo # NoRecord => runs[s].undo \in Table
  BY <1>0 DEF TypesOK, Active, Alone, Run
<1>2. Within(tables, tables, Before(s))
  BY <1>1, WithinItself
<1>3. \A done \in 0 .. End : \A to \in Reaches(done) :
         to \in 1 .. End /\ (to # End => Shared)
  BY DEF Reaches, End, TableOrder
<1>4. runs[s].done \in 0 .. End /\ 0 \in 0 .. End
  BY <1>1 DEF Run, End, TableOrder
<1>5. ASSUME torn' # torn, Begin(s)
      PROVE  PieceActs(s)
  <2>1. PICK found \in SUBSET FindingIds, to \in Reaches(0) :
           Copies(s, [Entered(s, found) EXCEPT !.undo = EmptyTables], to)
    BY <1>0, <1>5, BeginEnters, Zenon
  <2>2. /\ clock' = IF runs[s].at = 5 THEN clock + 1 ELSE clock
        /\ tables' = tables
    BY <1>0, <1>5, BeginEnters DEF Begin
  <2>3. /\ Entered(s, found) \in Run /\ Entered(s, found).at = runs[s].at
        /\ Entered(s, found).now = IF runs[s].at = 5 THEN clock + 1 ELSE runs[s].now
    BY <1>0, <1>1, EnteredFields
  <2> DEFINE run == [Entered(s, found) EXCEPT !.undo = EmptyTables]
  <2>4. /\ run \in Run /\ run.at = runs[s].at /\ run.undo = EmptyTables
        /\ run.now = IF runs[s].at = 5 THEN clock + 1 ELSE runs[s].now
    BY <2>3, EmptyType DEF Run
  <2>5. Copies(s, run, to)
    BY <2>1
  <2> HIDE DEF run
  <2>6. to \in 1 .. End /\ to # End /\ Shared /\ torn' = torn + 1
    BY <1>3, <1>4, <1>5, <2>5 DEF Copies, Interrupted
  <2> DEFINE next == [run EXCEPT !.phase = IF to = End THEN "begun" ELSE "copying",
                                 !.done = IF to = End THEN 0 ELSE to,
                                 !.undo = Patched(@, tables, Copied(run.done, to))]
  <2>7. Within(run.undo, EmptyTables, Before(s))
    BY <2>4, EmptyType, WithinItself
  <2>8. /\ next \in Run /\ next.at = run.at /\ next.now = run.now
        /\ next.phase = IF to = End THEN "begun" ELSE "copying"
        /\ next.done = IF to = End THEN 0 ELSE to
        /\ next.undo # NoRecord /\ Within(next.undo, tables, Before(s))
    <3>1. run \in Run /\ to \in 1 .. End /\ run.undo \in Table
      BY <2>4, <2>6, EmptyType
    <3> QED  BY <1>0, <2>7, <3>1, CopiesPiece
  <2>9. Becomes(s, next)
    BY <2>5 DEF Copies
  <2> HIDE DEF next
  <2>10. PieceOf(s, next)
    BY <1>0, <2>2, <2>4, <2>6, <2>8 DEF PieceOf
  <2> QED  BY <1>0, <1>1, <1>2, <2>2, <2>6, <2>9, <2>10 DEF PieceActs
<1>6. ASSUME CopyOn(s)
      PROVE  PieceActs(s)
  <2>1. PICK to \in Reaches(runs[s].done) : Copies(s, runs[s], to)
    BY <1>6 DEF CopyOn
  <2>2. UNCHANGED <<tables, clock>> /\ runs[s].phase = "copying"
    BY <1>6 DEF CopyOn
  <2>3. /\ to \in 1 .. End /\ Shared /\ torn > 0 /\ runs[s].undo # NoRecord
        /\ torn' \in {torn, torn + 1} /\ torn' > 0
    BY <1>0, <1>1, <1>3, <1>4, <2>1, <2>2 DEF Whole, Copies, Interrupted
  <2> DEFINE next == [runs[s] EXCEPT !.phase = IF to = End THEN "begun" ELSE "copying",
                                     !.done = IF to = End THEN 0 ELSE to,
                                     !.undo = Patched(@, tables, Copied(runs[s].done, to))]
  <2>4. Within(runs[s].undo, EmptyTables, Before(s))
    BY <1>1, <2>3 DEF Within, Before
  <2>5. /\ next \in Run /\ next.at = runs[s].at /\ next.now = runs[s].now
        /\ next.phase = IF to = End THEN "begun" ELSE "copying"
        /\ next.done = IF to = End THEN 0 ELSE to
        /\ next.undo # NoRecord /\ Within(next.undo, tables, Before(s))
    BY <1>0, <1>1, <2>3, <2>4, CopiesPiece
  <2>6. Becomes(s, next)
    BY <2>1 DEF Copies
  <2> HIDE DEF next
  <2>7. PieceOf(s, next)
    BY <2>2, <2>5 DEF PieceOf
  <2> QED  BY <1>0, <1>1, <1>2, <2>2, <2>3, <2>6, <2>7 DEF PieceActs
<1>7. ASSUME NEW to \in 1 .. End, Restores(s, to), runs[s].undo # NoRecord, Shared,
             torn' > 0, UNCHANGED clock
      PROVE  PieceActs(s)
  <2> DEFINE left == [runs[s] EXCEPT !.phase = "restoring", !.done = to]
             failing == [runs[s] EXCEPT !.phase = "failing", !.undo = NoRecord, !.done = 0]
  <2>1. /\ Within(tables', tables, Before(s))
        /\ to # End => /\ left \in Run /\ left.at = runs[s].at /\ left.now = runs[s].now
                       /\ left.phase = "restoring" /\ left.undo = runs[s].undo
        /\ failing \in Run /\ failing.at = runs[s].at /\ failing.now = runs[s].now
        /\ failing.phase = "failing" /\ failing.undo = NoRecord /\ failing.done = 0
    BY <1>0, <1>1, <1>7, RestoresPiece DEF Restores
  <2>2. \/ Becomes(s, NoRecord) \/ Becomes(s, failing)
        \/ to # End /\ Becomes(s, left)
    BY <1>7 DEF Restores
  <2>3. Within(runs[s].undo, tables, Before(s))
    BY <1>1, <1>7 DEF Within, Before
  <2>4. torn' \in {torn, torn + 1}
    BY <1>7 DEF Restores, Interrupted
  <2> HIDE DEF left, failing
  <2>5. PieceOf(s, failing) /\ (to # End => PieceOf(s, left))
    BY <1>7, <2>1, <2>3 DEF PieceOf
  <2> QED  BY <1>0, <1>1, <1>7, <2>1, <2>2, <2>4, <2>5 DEF PieceActs
<1>8. ASSUME torn' # torn, Raise(s)
      PROVE  PieceActs(s)
  <2>1. /\ runs[s].undo # NoRecord /\ UNCHANGED clock
        /\ \E to \in Reaches(0) : Restores(s, to)
    BY <1>8 DEF Raise
  <2>2. PICK to \in Reaches(0) : Restores(s, to)
    BY <2>1
  <2>3. to \in 1 .. End /\ Shared /\ torn' = torn + 1
    BY <1>3, <1>4, <1>8, <2>2 DEF Restores, Interrupted
  <2> QED  BY <1>0, <1>7, <2>1, <2>2, <2>3
<1>9. ASSUME RestoreOn(s)
      PROVE  PieceActs(s)
  <2>1. PICK to \in Reaches(runs[s].done) : Restores(s, to)
    BY <1>9 DEF RestoreOn
  <2>2. UNCHANGED clock /\ Shared /\ torn > 0 /\ runs[s].undo # NoRecord
    BY <1>1, <1>9 DEF RestoreOn, Whole
  <2>3. to \in 1 .. End /\ torn' > 0
    BY <1>0, <1>3, <1>4, <2>1, <2>2 DEF Restores, Interrupted
  <2> QED  BY <1>7, <2>1, <2>2, <2>3
<1> QED  BY <1>5, <1>6, <1>8, <1>9 DEF BreaksUp

\* The run and the tables after an interrupted copy or rollback.
LEMMA PieceStep ==
    ASSUME NEW s \in Submissions, IInv, BreaksUp(s)
    PROVE  /\ TypesOK' /\ Alone' /\ ActsFor(s) /\ Shared
           /\ UNCHANGED <<files, answers>> /\ torn' > 0 /\ clock' \in {clock, clock + 1}
           /\ Active(s) /\ runs[s] \in Run /\ tables' \in Table
           /\ Within(tables', tables, Before(s))
           /\ Active(s)' => PieceOf(s, runs'[s])
<1>0. /\ TypesOK /\ Alone /\ Active(s) /\ PieceActs(s)
      /\ UNCHANGED <<backend, overlap>> /\ torn' \in {torn, torn + 1}
  BY PieceCases DEF IInv, PieceActs
<1>1. /\ runs[s] \in Run /\ Shared /\ torn' > 0 /\ UNCHANGED <<files, answers>>
      /\ Within(tables', tables, Before(s)) /\ tables' \in Table
  BY <1>0 DEF PieceActs, Within
<1>2. backend = "memory"
  BY <1>1 DEF Shared
<1>3. CASE Becomes(s, NoRecord) /\ clock' = clock
  <2>1. ActsFor(s) /\ runs'[s] = NoRecord
    BY <1>0, <1>3, BecomesActs
  <2>2. Alone'
    BY <1>0, <2>1, AloneStep DEF Active
  <2>3. TypesOK'
    BY <1>0, <1>1, <1>3, <2>1 DEF TypesOK, ActsFor
  <2> QED  BY <1>0, <1>1, <1>3, <2>1, <2>2, <2>3 DEF Active
<1>4. CASE \E run : Becomes(s, run) /\ PieceOf(s, run)
  <2>1. PICK run : Becomes(s, run) /\ PieceOf(s, run)
    BY <1>4
  <2>2. run \in Run
    BY <2>1 DEF PieceOf
  <2>3. ActsFor(s) /\ runs'[s] = run
    BY <1>0, <2>1, <2>2, BecomesActs
  <2>4. Shared'
    BY <1>0, <1>1 DEF Shared
  <2>5. Whole(run)'
    BY <1>1, <2>1, <2>4 DEF Whole, PieceOf
  <2>6. Alone'
    BY <1>0, <1>2, <2>3, <2>5, AloneStep
  <2>7. clock' \in {clock, clock + 1} /\ clock \in Nat
    BY <1>0, <2>1 DEF PieceOf, TypesOK
  <2>8. TypesOK'
    BY <1>0, <1>1, <2>3, <2>7 DEF TypesOK, ActsFor
  <2> QED  BY <1>0, <1>1, <2>1, <2>3, <2>6, <2>7, <2>8
<1> QED  BY <1>0, <1>3, <1>4 DEF PieceActs

-------------------------------------------------------------------------------
(* Documents and explanations: kept by every action, whatever overlaps.      *)

LEMMA StaysReadable ==
    ASSUME NEW t \in Table, Readable(t, files),
           \A c \in Contents : files[c] \subseteq files'[c]
    PROVE  Readable(t, files')
<1>1. \A s \in t.documents : ContentOf[s] \in Contents
  BY StoreAssumption DEF Table
<1> QED  BY <1>1 DEF Readable

LEMMA OKStep ==
    ASSUME NEW s \in Submissions, TypesOK, OKInv, ActsFor(s), FilesOK',
           \A c \in Contents : files[c] \subseteq files'[c],
           torn' = 0 => Explained(tables'), Readable(tables', files'),
           Active(s)' => RunOK(runs[s], s)'
    PROVE  OKInv'
<1>1. ASSUME NEW x \in Submissions \ {s}, Active(x)'
      PROVE  RunOK(runs[x], x)'
  <2>1. runs'[x] = runs[x] /\ Active(x) /\ runs[x] \in Run
    BY <1>1 DEF ActsFor, Active, TypesOK
  <2>2. RunOK(runs[x], x)
    BY <2>1 DEF OKInv
  <2>3. runs[x].undo # NoRecord => TableOK(runs[x].undo)'
    <3>1. runs[x].undo # NoRecord => runs[x].undo \in Table
      BY <2>1 DEF Run
    <3>2. runs[x].undo # NoRecord => Readable(runs[x].undo, files')
      BY <2>2, <3>1, StaysReadable DEF RunOK, TableOK
    <3>3. torn' = 0 => torn = 0
      BY DEF TypesOK, ActsFor
    <3> QED  BY <2>1, <2>2, <3>2, <3>3 DEF RunOK, TableOK
  <2>4. "blob" \in files[ContentOf[x]] => "blob" \in files'[ContentOf[x]]
    BY StoreAssumption
  <2> QED  BY <2>1, <2>2, <2>3, <2>4 DEF RunOK
<1>2. TableOK(tables)'
  BY DEF TableOK
<1> QED  BY <1>1, <1>2 DEF OKInv

\* Tables and files as they are.
LEMMA SameFiles ==
    ASSUME OKInv, UNCHANGED files
    PROVE  /\ FilesOK'
           /\ \A c \in Contents : files[c] \subseteq files'[c]
BY DEF OKInv, FilesOK

LEMMA StartOK ==
    ASSUME NEW s \in Submissions, IInv, ProcessBid(s) \/ Retry(s)
    PROVE  OKInv'
<1>1. TypesOK /\ OKInv /\ ActsFor(s) /\ UNCHANGED <<files, torn>>
  BY ActionsOfStart DEF IInv
<1>2. tables' = tables \/ tables' = [tables EXCEPT !.submissions[s] = "OPEN"]
  BY DEF ProcessBid, Retry
<1>3. /\ tables'.documents = tables.documents
      /\ tables'.explanations = tables.explanations
      /\ tables'.findings = tables.findings
  BY <1>1, <1>2 DEF TypesOK, Table
<1>4. (torn' = 0 => Explained(tables')) /\ Readable(tables', files')
  BY <1>1, <1>3 DEF OKInv, TableOK, Explained, Readable
<1>5. RunOK(runs[s], s)'
  <2>1. runs'[s].undo = NoRecord /\ runs'[s].phase = "between"
    BY ActionsOfStart DEF NewRun
  <2> QED  BY <2>1 DEF RunOK
<1> QED  BY <1>1, <1>4, <1>5, OKStep, SameFiles

LEMMA BeginOK ==
    ASSUME NEW s \in Submissions, IInv, BeginsWhole(s)
    PROVE  OKInv'
<1>1. /\ TypesOK /\ OKInv /\ ActsFor(s) /\ UNCHANGED <<tables, files, torn>>
      /\ Active(s) /\ runs'[s] \in Run
      /\ Skips(s, runs'[s]) \/ Begins(s, runs'[s])
  BY BeginActs DEF IInv
<1>2. (torn' = 0 => Explained(tables')) /\ Readable(tables', files')
  BY <1>1 DEF OKInv, TableOK
<1>3. RunOK(runs[s], s)'
  <2>1. runs'[s].phase \in {"between", "begun"}
    BY <1>1 DEF Skips, Begins
  <2>2. runs'[s].undo # NoRecord => TableOK(runs'[s].undo)
    BY <1>1 DEF OKInv, RunOK, Skips, Begins
  <2>3. TableOK(runs'[s].undo) => TableOK(runs[s].undo)'
    BY <1>1 DEF TableOK
  <2> QED  BY <2>1, <2>2, <2>3 DEF RunOK
<1> QED  BY <1>1, <1>2, <1>3, OKStep, SameFiles

LEMMA PutOK ==
    ASSUME NEW s \in Submissions, IInv, StartPut(s) \/ FinishPut(s)
    PROVE  OKInv'
<1>1. /\ TypesOK /\ OKInv /\ ActsFor(s) /\ UNCHANGED <<tables, torn>>
      /\ Active(s) /\ runs[s] \in Run /\ runs[s].at = 1
      /\ FilesOK' /\ "blob" \in files'[ContentOf[s]]
      /\ \A c \in Contents : files[c] \subseteq files'[c]
  BY PutActs DEF IInv
<1>2. /\ runs'[s].phase \in {"half", "stored"}
      /\ runs'[s].at = 1 /\ runs'[s].undo = runs[s].undo
  BY <1>1, PutActs DEF Run
<1>3. (torn' = 0 => Explained(tables')) /\ Readable(tables', files')
  BY <1>1, StaysReadable DEF OKInv, TableOK, TypesOK
<1>4. RunOK(runs[s], s)'
  <2>1. runs[s].undo # NoRecord => runs[s].undo \in Table /\ TableOK(runs[s].undo)
    BY <1>1 DEF OKInv, RunOK, Run
  <2>2. runs'[s].undo # NoRecord => TableOK(runs[s].undo)'
    BY <1>1, <1>2, <2>1, StaysReadable DEF TableOK
  <2> QED  BY <1>1, <1>2, <2>2 DEF RunOK
<1> QED  BY <1>1, <1>3, <1>4, OKStep

LEMMA FailureOK ==
    ASSUME NEW s \in Submissions, IInv, RaisesWhole(s) \/ FailSubmission(s)
    PROVE  OKInv'
<1>1. TypesOK /\ OKInv /\ ActsFor(s) /\ Active(s) /\ UNCHANGED <<files, torn>>
  BY FailureActs DEF IInv
<1>2. /\ (torn' = 0 => Explained(tables')) /\ Readable(tables', files')
      /\ Active(s)' => RunOK(runs[s], s)'
  <2>1. CASE RaisesWhole(s)
    <3>1. /\ RaiseActs(s) /\ RunOK(runs[s], s)
      BY <1>1, <2>1, FailureActs DEF OKInv
    <3>2. TableOK(tables')
      BY <1>1, <3>1 DEF RaiseActs, OKInv, RunOK
    <3>3. Active(s)' => runs'[s].undo = NoRecord /\ runs'[s].phase = "failing"
      BY <3>1 DEF RaiseActs, Run, Active
    <3> QED  BY <1>1, <3>2, <3>3 DEF TableOK, RunOK
  <2>2. CASE FailSubmission(s)
    <3>1. ~Active(s)'
      BY <2>2, FailureActs DEF Active
    <3>2. /\ tables'.documents = tables.documents
          /\ tables'.explanations = tables.explanations
          /\ tables'.findings = tables.findings
      BY <1>1, <2>2 DEF FailSubmission, TypesOK, Table
    <3> QED  BY <1>1, <3>1, <3>2 DEF OKInv, TableOK, Explained, Readable
  <2> QED  BY <2>1, <2>2
<1> QED  BY <1>1, <1>2, OKStep, SameFiles

LEMMA WritingOK ==
    ASSUME NEW s \in Submissions, IInv,
           SaveRows(s) \/ AddEvents(s) \/ CommitTransaction(s)
    PROVE  OKInv'
<1>1. /\ TypesOK /\ OKInv /\ ActsFor(s) /\ Active(s) /\ UnitActs(s)
      /\ UNCHANGED <<files, torn>>
      /\ runs[s] \in Run /\ tables \in Table /\ RunOK(runs[s], s) /\ TableOK(tables)
  BY WritingActs DEF IInv, OKInv, UnitActs, TypesOK
<1>2. ASSUME NEW t \in Table, TableOK(t), NEW u, u = Logged(t, s)
      PROVE  TableOK(u)
  <2>1. /\ u.documents = t.documents
        /\ u.explanations = t.explanations
        /\ u.findings = t.findings
    BY <1>1, <1>2, LoggedFields
  <2> QED  BY <1>2, <2>1 DEF TableOK, Explained, Readable
<1>3. TableOK(tables')
  <2>1. CASE runs[s].phase \in {"begun", "stored"} /\ Accepts(tables, s)
               /\ tables' \in {Saved(tables, s), Logged(Saved(tables, s), s)}
    <3> DEFINE u == Saved(tables, s)
    <3>1. u \in Table /\ u.documents = IF runs[s].at = 1 THEN tables.documents \cup {s}
                                                         ELSE tables.documents
      BY <1>1, SavedFields
    <3>2. runs[s].at = 1 => "blob" \in files[ContentOf[s]]
      <4>1. CanSave(s)
        BY <1>1, <2>1 DEF SaveRows, AddEvents, CommitTransaction
      <4>2. runs[s].at = 1 => runs[s].phase = "stored"
        BY <1>1, <4>1, UnitAt DEF CanSave
      <4> QED  BY <1>1, <4>2 DEF RunOK
    <3>3. Readable(u, files)
      BY <1>1, <3>1, <3>2 DEF TableOK, Readable
    <3>4. torn = 0 => Explained(u)
      BY <1>1, <2>1, SaveExplained DEF TableOK
    <3>5. TableOK(u)
      BY <3>3, <3>4 DEF TableOK
    <3> HIDE DEF u
    <3>6. TableOK(Logged(u, s))
      BY <1>2, <3>1, <3>5
    <3> QED  BY <2>1, <3>5, <3>6 DEF u
  <2>2. CASE runs[s].phase = "saved" /\ tables' = Logged(tables, s)
    BY <1>1, <1>2, <2>2
  <2> QED  BY <1>1, <2>1, <2>2 DEF UnitActs
<1>4. Active(s)' => RunOK(runs[s], s)'
  <2>1. CASE runs[s].at \in {1, 5} /\ runs'[s] = [runs[s] EXCEPT !.phase = "saved"]
    <3>1. runs'[s].phase = "saved" /\ runs'[s].at \in {1, 5} /\ runs'[s].undo = runs[s].undo
      BY <1>1, <2>1 DEF Run
    <3>2. runs'[s].undo # NoRecord => TableOK(runs[s].undo)'
      BY <1>1, <3>1 DEF RunOK, TableOK
    <3> QED  BY <3>1, <3>2 DEF RunOK
  <2>2. CASE runs'[s] = NoRecord
    BY <2>2 DEF Active
  <2>3. CASE runs[s].at # 7 /\ runs'[s] = Advanced(runs[s])
    <3>1. runs'[s].phase = "between" /\ runs'[s].undo = NoRecord
      BY <1>1, <2>3, AdvancedFields
    <3> QED  BY <3>1 DEF RunOK
  <2> QED  BY <1>1, <2>1, <2>2, <2>3 DEF UnitActs
<1>5. (torn' = 0 => Explained(tables')) /\ Readable(tables', files')
  BY <1>1, <1>3 DEF TableOK
<1> QED  BY <1>1, <1>4, <1>5, OKStep, SameFiles

\* In pieces: documents are of the tables before or of the copy.
LEMMA PieceOK ==
    ASSUME NEW s \in Submissions, IInv, BreaksUp(s)
    PROVE  OKInv'
<1>1. /\ TypesOK /\ OKInv /\ ActsFor(s) /\ UNCHANGED files /\ torn' > 0
      /\ Active(s) /\ runs[s] \in Run
      /\ Within(tables', tables, Before(s))
      /\ Active(s)' => PieceOf(s, runs'[s])
  BY PieceStep DEF IInv
<1>2. Readable(tables, files) /\ Readable(Before(s), files)
  BY <1>1 DEF OKInv, RunOK, TableOK, Before, Readable, EmptyTables
<1>3. ASSUME NEW v, Within(v, tables, Before(s)) PROVE Readable(v, files')
  BY <1>1, <1>2, <1>3 DEF Within, Readable
<1>4. Active(s)' => RunOK(runs[s], s)'
  <2>1. Active(s)' =>
           /\ runs'[s].undo # NoRecord => Readable(runs'[s].undo, files')
           /\ runs'[s].phase \notin {"half", "stored", "saved"}
    BY <1>1, <1>3 DEF PieceOf
  <2> QED  BY <1>1, <2>1 DEF RunOK, TableOK
<1> QED  BY <1>1, <1>3, <1>4, OKStep, SameFiles

-------------------------------------------------------------------------------
(* Flags and answers: kept where units do not undo what others did.          *)

LEMMA KeepsItself == ASSUME NEW s, NEW t PROVE Keeps(t, t, s)
BY DEF Keeps

\* A step of s that takes nothing from the others.
LEMMA GoodStep ==
    ASSUME NEW s \in Submissions, IInv, Isolated, ActsFor(s),
           Keeps(tables, tables', s), Projected(tables'),
           \A x \in Submissions \ {s} : answers'[x] = answers[x],
           answers'[s] # NoRecord => OnRecord(tables, s)',
           Active(s)' => RunGood(runs[s], s)'
    PROVE  GoodInv'
<1>0. TypesOK /\ Alone /\ TableGood(tables)
  BY DEF IInv, GoodInv
<1>1. ASSUME NEW x \in Submissions \ {s}, answers'[x] # NoRecord
      PROVE  OnRecord(tables, x)'
  <2>1. answers'[x] = answers[x] /\ answers[x] \in Answer
    BY <1>0, <1>1 DEF TypesOK
  <2>2. OnRecord(tables, x)
    BY <1>0, <1>1, <2>1 DEF TableGood
  <2>3. OnRecord(tables', x)
    BY <2>1, <2>2, KeptOnRecord
  <2> QED  BY <2>1, <2>3 DEF OnRecord
<1>2. ASSUME NEW x \in Submissions \ {s}, Active(x)'
      PROVE  RunGood(runs[x], x)'
  <2>1. runs'[x] = runs[x] /\ Active(x) /\ runs[x] \in Run
    BY <1>0, <1>2 DEF ActsFor, Active, TypesOK
  <2>2. backend = "postgres" /\ runs[x].undo = NoRecord
    BY <1>0, <2>1 DEF ActsFor, Isolated, Alone
  <2>3. RunGood(runs[x], x)
    BY <2>1 DEF IInv, GoodInv
  <2>4. runs[x].phase # "failing" => Written(tables', x, runs[x])
    BY <2>1, <2>3, KeptWritten DEF RunGood
  <2> QED  BY <2>1, <2>2, <2>3, <2>4 DEF RunGood
<1>3. TableGood(tables)'
  BY <1>1 DEF TableGood
<1> QED  BY <1>2, <1>3 DEF GoodInv

LEMMA StillIsolated ==
    ASSUME NEW s, ActsFor(s), Isolated' PROVE Isolated
BY DEF ActsFor, Isolated

LEMMA StartGood ==
    ASSUME NEW s \in Submissions, IInv, ProcessBid(s) \/ Retry(s)
    PROVE  GoodInv'
<1>1. /\ TypesOK /\ ActsFor(s) /\ UNCHANGED <<files, answers>>
      /\ runs'[s] \in {NewRun(s), [NewRun(s) EXCEPT !.at = 2]}
  BY ActionsOfStart DEF IInv
<1> SUFFICES ASSUME Isolated PROVE GoodInv'
  BY <1>1, StillIsolated DEF GoodInv
<1>2. TableGood(tables)
  BY DEF IInv, GoodInv
<1>3. answers[s] = NoRecord
  <2>1. CASE ProcessBid(s)
    BY <2>1 DEF ProcessBid
  <2>2. CASE Retry(s)
    BY <1>2, <2>2 DEF Retry, TableGood, OnRecord
  <2> QED  BY <2>1, <2>2
<1>4. tables' = tables \/ tables' = [tables EXCEPT !.submissions[s] = "OPEN"]
  BY DEF ProcessBid, Retry
<1>5. Keeps(tables, tables', s) /\ Projected(tables')
  <2>1. CASE tables' = tables
    BY <1>2, <2>1, KeepsItself DEF TableGood
  <2>2. CASE tables' = [tables EXCEPT !.submissions[s] = "OPEN"]
    <3>1. /\ tables'.findings = tables.findings /\ tables'.results = tables.results
          /\ tables'.audited = tables.audited /\ tables'.states = tables.states
          /\ tables'.explanations = tables.explanations
          /\ tables'.snapshots = tables.snapshots
          /\ \A x \in Submissions \ {s} :
                tables'.submissions[x] = tables.submissions[x]
      BY <1>1, <2>2 DEF TypesOK, Table
    <3> QED  BY <1>2, <3>1 DEF Keeps, Projected, TableGood
  <2> QED  BY <1>4, <2>1, <2>2
<1>6. RunGood(runs[s], s)'
  <2>1. runs'[s].undo = NoRecord /\ runs'[s].at \in {1, 2}
    BY <1>1 DEF NewRun
  <2>2. Written(tables', s, runs'[s])
    BY <2>1 DEF Written
  <2> QED  BY <1>1, <1>3, <2>1, <2>2 DEF RunGood
<1> QED  BY <1>1, <1>3, <1>5, <1>6, GoodStep

LEMMA BeginGood ==
    ASSUME NEW s \in Submissions, IInv, BeginsWhole(s)
    PROVE  GoodInv'
<1>1. /\ TypesOK /\ ActsFor(s) /\ UNCHANGED <<tables, files, answers>>
      /\ Active(s) /\ runs[s] \in Run /\ runs[s].phase = "between"
      /\ runs'[s] \in Run
      /\ Skips(s, runs'[s]) \/ Begins(s, runs'[s])
  BY BeginActs DEF IInv
<1> SUFFICES ASSUME Isolated PROVE GoodInv'
  BY <1>1, StillIsolated DEF GoodInv
<1>2. TableGood(tables) /\ RunGood(runs[s], s)
  BY <1>1 DEF IInv, GoodInv
<1>3. TableGood(tables)'
  BY <1>1, <1>2 DEF TableGood, OnRecord
<1>4. runs'[s].undo # NoRecord => TableGood(runs[s].undo)'
  <2>1. runs'[s].undo # NoRecord => TableGood(runs'[s].undo)
    BY <1>1, <1>2 DEF RunGood, Skips, Begins
  <2>2. TableGood(runs'[s].undo) => TableGood(runs[s].undo)'
    BY <1>1 DEF TableGood, OnRecord
  <2> QED  BY <2>1, <2>2
<1>5. Written(tables, s, runs'[s])
  <2>0. Written(tables, s, runs[s])
    BY <1>1, <1>2 DEF RunGood
  <2>1. runs[s].at \in 1 .. 7 /\ runs'[s].at \in 1 .. 7
    BY <1>1 DEF Run
  <2>2. CASE Skips(s, runs'[s]) /\ runs[s].at = 4
    <3>1. runs[s].found = FromRules(runs[s].found) \cup FromAI(runs[s].found)
      BY DEF FromRules, FromAI
    <3> QED  BY <2>0, <2>2, <3>1 DEF Skips, Written
  <2>3. CASE Skips(s, runs'[s]) /\ runs[s].at = 6
    BY <2>0, <2>3 DEF Skips, Written
  <2>4. CASE Begins(s, runs'[s])
    BY <2>0, <2>1, <2>4 DEF Begins, Written
  <2> QED  BY <1>1, <2>2, <2>3, <2>4 DEF Skips
<1>6. RunGood(runs[s], s)'
  BY <1>1, <1>2, <1>4, <1>5 DEF RunGood
<1> QED  BY <1>1, <1>2, <1>6, GoodStep, KeepsItself DEF TableGood, RunGood

LEMMA PutGood ==
    ASSUME NEW s \in Submissions, IInv, StartPut(s) \/ FinishPut(s)
    PROVE  GoodInv'
<1>1. /\ TypesOK /\ ActsFor(s) /\ UNCHANGED <<tables, answers>>
      /\ Active(s) /\ runs[s] \in Run /\ runs[s].at = 1
      /\ runs'[s] \in { [runs[s] EXCEPT !.phase = "half"],
                        [runs[s] EXCEPT !.phase = "stored"] }
  BY PutActs DEF IInv
<1> SUFFICES ASSUME Isolated PROVE GoodInv'
  BY <1>1, StillIsolated DEF GoodInv
<1>2. TableGood(tables) /\ RunGood(runs[s], s)
  BY <1>1 DEF IInv, GoodInv
<1>3. runs'[s].at = 1 /\ runs'[s].undo = runs[s].undo
  BY <1>1 DEF Run
<1>4. Written(tables', s, runs'[s])
  BY <1>3 DEF Written
<1>5. runs[s].undo # NoRecord => TableGood(runs[s].undo)'
  BY <1>1, <1>2, <1>3 DEF RunGood, TableGood, OnRecord
<1>6. RunGood(runs[s], s)'
  BY <1>1, <1>2, <1>3, <1>4, <1>5 DEF RunGood
<1> QED  BY <1>1, <1>2, <1>6, GoodStep, KeepsItself DEF TableGood, RunGood

LEMMA FailureGood ==
    ASSUME NEW s \in Submissions, IInv, RaisesWhole(s) \/ FailSubmission(s)
    PROVE  GoodInv'
<1>1. TypesOK /\ Alone /\ ActsFor(s) /\ Active(s) /\ UNCHANGED <<files, answers>>
  BY FailureActs DEF IInv
<1> SUFFICES ASSUME Isolated PROVE GoodInv'
  BY <1>1, StillIsolated DEF GoodInv
<1>2. TableGood(tables) /\ RunGood(runs[s], s)
  BY <1>1 DEF IInv, GoodInv
<1>3. CASE RaisesWhole(s)
  <2>1. RaiseActs(s)
    BY <1>3, FailureActs
  <2>2. Active(s)' => RunGood(runs[s], s)'
    <3>1. Active(s)' => runs'[s].undo = NoRecord /\ runs'[s].phase = "failing"
      BY <2>1 DEF RaiseActs, Run, Active
    <3> QED  BY <1>1, <1>2, <3>1 DEF RunGood
  <2>3. CASE runs[s].undo = NoRecord \/ runs[s].phase = "copying"
    <3>1. tables' = tables
      BY <2>1, <2>3 DEF RaiseActs
    <3>2. answers'[s] = NoRecord
      BY <1>1, <1>2 DEF RunGood
    <3> QED  BY <1>1, <1>2, <2>2, <3>1, <3>2, GoodStep, KeepsItself DEF TableGood
  <2>4. CASE ~(runs[s].undo = NoRecord \/ runs[s].phase = "copying")
    \* The unit of a lone thread in memory: nobody else has written.
    <3>1. tables' = runs[s].undo /\ TableGood(runs[s].undo)
      BY <1>2, <2>1, <2>4 DEF RaiseActs, RunGood
    <3>2. TableGood(tables)'
      BY <1>1, <3>1 DEF TableGood, OnRecord
    <3>3. \A x \in Submissions \ {s} : ~Active(x)'
      BY <1>1, <2>4 DEF ActsFor, Alone, Isolated, Active, TypesOK
    <3> QED  BY <2>2, <3>2, <3>3 DEF GoodInv
  <2> QED  BY <2>3, <2>4
<1>4. CASE FailSubmission(s)
  <2>1. ~Active(s)'
    BY <1>4, FailureActs DEF Active
  <2>2. /\ tables'.findings = tables.findings /\ tables'.results = tables.results
        /\ tables'.audited = tables.audited /\ tables'.states = tables.states
        /\ tables'.explanations = tables.explanations
        /\ tables'.snapshots = tables.snapshots
        /\ \A x \in Submissions \ {s} :
              tables'.submissions[x] = tables.submissions[x]
    BY <1>1, <1>4 DEF FailSubmission, TypesOK, Table
  <2>3. Keeps(tables, tables', s) /\ Projected(tables')
    BY <1>2, <2>2 DEF Keeps, Projected, TableGood
  <2>4. answers'[s] = NoRecord
    BY <1>1, <1>2 DEF RunGood
  <2> QED  BY <1>1, <2>1, <2>3, <2>4, GoodStep
<1> QED  BY <1>3, <1>4

\* The tables after a unit of s has written.
LEMMA WrittenTables ==
    ASSUME NEW s \in Submissions, IInv, Isolated, Active(s), UnitActs(s)
    PROVE  /\ Keeps(tables, tables', s) /\ Projected(tables')
           /\ UnitDone(tables', s)
<1>1. /\ runs[s] \in Run /\ tables \in Table /\ runs[s].phase # "failing"
  BY DEF UnitActs, IInv, TypesOK
<1>2. Projected(tables) /\ Written(tables, s, runs[s])
  BY <1>1 DEF IInv, GoodInv, TableGood, RunGood
<1> DEFINE u == Saved(tables, s)
<1>3. ASSUME NEW t \in Table, Projected(t), NEW v, v = Logged(t, s)
      PROVE  Projected(v) /\ v.states = t.states
  <2>1. /\ v.states = t.states /\ v.snapshots = t.snapshots /\ v.findings = t.findings
    BY <1>1, <1>3, LoggedFields
  <2> QED  BY <1>3, <2>1 DEF Projected
<1>4. CASE runs[s].phase \in {"begun", "stored"}
             /\ tables' \in {Saved(tables, s), Logged(Saved(tables, s), s)}
  <2>1. u \in Table /\ Keeps(tables, u, s) /\ Projected(u) /\ UnitDone(u, s)
    BY <1>1, <1>2, <1>4, SavedFields, SaveKeeps, SaveProjected, SaveDone
  <2> HIDE DEF u
  <2>2. /\ Keeps(u, Logged(u, s), s) /\ Projected(Logged(u, s))
        /\ UnitDone(Logged(u, s), s)
    BY <1>1, <1>3, <2>1, LogKeeps, LogDone
  <2>3. Keeps(tables, Logged(u, s), s)
    BY <2>1, <2>2 DEF Keeps
  <2> QED  BY <1>4, <2>1, <2>2, <2>3 DEF u
<1>5. CASE runs[s].phase = "saved" /\ tables' = Logged(tables, s)
  <2>1. /\ Keeps(tables, Logged(tables, s), s) /\ Projected(Logged(tables, s))
        /\ Logged(tables, s).states = tables.states
    BY <1>1, <1>2, <1>3, LogKeeps
  <2>2. runs[s].at \in {1, 5}
    BY <1>5 DEF IInv, OKInv, RunOK
  <2>3. UnitDone(tables, s)
    BY <1>2, <1>5, <2>2 DEF Written, UnitDone
  <2>4. UnitDone(Logged(tables, s), s)
    BY <1>1, <2>3, LogDone
  <2> QED  BY <1>5, <2>1, <2>4
<1> QED  BY <1>4, <1>5 DEF UnitActs

LEMMA WritingGood ==
    ASSUME NEW s \in Submissions, IInv,
           SaveRows(s) \/ AddEvents(s) \/ CommitTransaction(s)
    PROVE  GoodInv'
<1>1. /\ TypesOK /\ ActsFor(s) /\ Active(s) /\ UnitActs(s)
      /\ runs[s] \in Run
  BY WritingActs DEF IInv, UnitActs
<1> SUFFICES ASSUME Isolated PROVE GoodInv'
  BY <1>1, StillIsolated DEF GoodInv
<1>2. TableGood(tables) /\ RunGood(runs[s], s)
  BY <1>1 DEF IInv, GoodInv
<1>3. Keeps(tables, tables', s) /\ Projected(tables') /\ UnitDone(tables', s)
  BY <1>1, WrittenTables
<1>4. \A x \in Submissions \ {s} : answers'[x] = answers[x]
  BY <1>1 DEF UnitActs
<1>5. CASE /\ runs[s].at \in {1, 5} /\ answers' = answers
           /\ runs'[s] = [runs[s] EXCEPT !.phase = "saved"]
  <2>1. /\ runs'[s].phase = "saved" /\ runs'[s].undo = runs[s].undo
        /\ runs'[s].at = runs[s].at /\ runs'[s].found = runs[s].found
        /\ runs'[s].todo = runs[s].todo
    BY <1>1, <1>5 DEF Run
  <2>2. Written(tables', s, runs'[s])
    BY <1>3, <1>5, <2>1 DEF UnitDone, Written
  <2>3. runs'[s].undo # NoRecord => TableGood(runs[s].undo)'
    BY <1>2, <1>5, <2>1 DEF RunGood, TableGood, OnRecord
  <2>4. RunGood(runs[s], s)'
    BY <1>2, <1>5, <2>2, <2>3 DEF RunGood
  <2> QED  BY <1>1, <1>2, <1>3, <1>4, <1>5, <2>4, GoodStep DEF RunGood
<1>6. CASE runs[s].at = 7 /\ runs'[s] = NoRecord /\ answers'[s] = AnswerOf(s)
  <2> DEFINE found == runs[s].found
  <2>1. /\ answers'[s].results = ResultsOf(s, found)
        /\ answers'[s].findings = found
        /\ answers'[s].at = runs[s].now
        /\ answers'[s].flags = FlagsOf(found)
    BY <1>6 DEF AnswerOf
  <2>2. /\ ResultsOf(s, found) \subseteq tables'.results
        /\ found \subseteq tables'.findings
        /\ runs[s].now \in tables'.audited
        /\ \A f \in FlagsOf(found) :
              tables'.states[f] # NoRecord /\ tables'.explanations[f] # NoRecord
        /\ tables'.submissions[s] = "COMPLETE"
    BY <1>3, <1>6 DEF UnitDone
  <2>3. \A x \in ResultsOf(s, found) : x.submission = s
    BY ResultsAreOfSubmission
  <2>4. OnRecord(tables, s)'
    BY <2>1, <2>2, <2>3 DEF OnRecord
  <2>5. ~Active(s)'
    BY <1>6 DEF Active
  <2> QED  BY <1>1, <1>3, <1>4, <2>4, <2>5, GoodStep
<1>7. CASE /\ runs[s].at # 7 /\ runs'[s] = Advanced(runs[s])
           /\ runs[s].at = 5 => runs[s].now \in tables'.audited
           /\ answers' = answers
  <2>1. Written(tables', s, runs'[s])
    BY <1>1, <1>3, <1>7, AdvancedWritten
  <2>2. runs'[s].undo = NoRecord
    BY <1>1, <1>7, AdvancedFields
  <2>3. RunGood(runs[s], s)'
    BY <1>2, <1>7, <2>1, <2>2 DEF RunGood
  <2> QED  BY <1>1, <1>2, <1>3, <1>4, <1>7, <2>3, GoodStep DEF RunGood
<1> QED  BY <1>1, <1>5, <1>6, <1>7 DEF UnitActs

\* Copies and rollbacks are interrupted only where units undo what others did.
LEMMA PieceGood ==
    ASSUME NEW s \in Submissions, IInv, BreaksUp(s)
    PROVE  GoodInv'
BY PieceStep DEF ActsFor, Shared, Isolated, GoodInv

-------------------------------------------------------------------------------
(* The invariant is inductive, and what follows from it.                     *)

Acts(s) ==
    \/ ProcessBid(s) \/ Retry(s) \/ BeginsWhole(s) \/ StartPut(s) \/ FinishPut(s)
    \/ SaveRows(s) \/ AddEvents(s) \/ CommitTransaction(s)
    \/ RaisesWhole(s) \/ FailSubmission(s) \/ BreaksUp(s)

LEMMA NextActs == Next => \E s \in Submissions : Acts(s)
BY DEF Next, Acts, BeginsWhole, RaisesWhole, BreaksUp

LEMMA NextIInv == IInv /\ [Next]_vars => IInv'
<1> SUFFICES ASSUME IInv, [Next]_vars PROVE IInv'
  OBVIOUS
<1>1. CASE Next
  <2>1. PICK s \in Submissions : Acts(s)
    BY <1>1, NextActs
  <2>2. CASE ProcessBid(s) \/ Retry(s)
    BY <2>2, ActionsOfStart, StartOK, StartGood DEF IInv
  <2>3. CASE BeginsWhole(s)
    BY <2>3, BeginActs, BeginOK, BeginGood DEF IInv
  <2>4. CASE StartPut(s) \/ FinishPut(s)
    BY <2>4, PutActs, PutOK, PutGood DEF IInv
  <2>5. CASE SaveRows(s) \/ AddEvents(s) \/ CommitTransaction(s)
    BY <2>5, WritingActs, WritingOK, WritingGood DEF IInv
  <2>6. CASE RaisesWhole(s) \/ FailSubmission(s)
    BY <2>6, FailureActs, FailureOK, FailureGood DEF IInv
  <2>7. CASE BreaksUp(s)
    BY <2>7, PieceStep, PieceOK, PieceGood DEF IInv
  <2> QED  BY <2>1, <2>2, <2>3, <2>4, <2>5, <2>6, <2>7 DEF Acts
<1>2. CASE UNCHANGED vars
  <2>1. TypesOK'
    BY <1>2 DEF IInv, TypesOK, vars
  <2>2. Alone'
    BY <1>2 DEF IInv, Alone, Whole, Shared, Active, vars
  <2>3. OKInv'
    BY <1>2 DEF IInv, OKInv, TableOK, RunOK, FilesOK, Active, vars
  <2>4. GoodInv'
    BY <1>2 DEF IInv, GoodInv, Isolated, TableGood, OnRecord, RunGood, Active, vars
  <2> QED  BY <2>1, <2>2, <2>3, <2>4 DEF IInv
<1> QED  BY <1>1, <1>2

LEMMA Invariance == Spec => []IInv
BY InitIInv, NextIInv, PTL DEF Spec

\* Every document on record has its bytes in the artifact store, in whatever
\* way puts of one content break off and are made good by others.
THEOREM ReadableThroughout == Spec => []DocumentsAreReadable
<1>1. IInv => DocumentsAreReadable
  BY DEF IInv, OKInv, TableOK, Readable, DocumentsAreReadable
<1> QED  BY <1>1, Invariance, PTL

\* Explanations cite stored findings, with either store and also when the
\* rollback of one thread puts back the tables under another, for as long as no
\* copy and no rollback has been interrupted between two tables.
THEOREM ExplanationsCiteFindings == Spec => []ExplanationsAreGrounded
<1>1. IInv => ExplanationsAreGrounded
  BY DEF IInv, OKInv, TableOK, Explained, ExplanationsAreGrounded, ReferencesHold
<1> QED  BY <1>1, Invariance, PTL

\* Flag rows cite stored findings and snapshots have a row for each of their
\* flags, with transactions or with one thread.
THEOREM FlagsCiteFindings == Spec => []FlagsAreGrounded
<1>1. IInv => FlagsAreGrounded
  BY DEF IInv, GoodInv, TableGood, Projected, FlagsAreGrounded
<1> QED  BY <1>1, Invariance, PTL

\* What process_bid answered stays in the tables, with transactions or with one
\* thread, through every later run, failure and retry of the bidder.
THEOREM AnswersStay == Spec => []AnswersAreOnRecord
<1>1. IInv => AnswersAreOnRecord
  BY DEF IInv, GoodInv, TableGood, OnRecord, AnswersAreOnRecord
<1> QED  BY <1>1, Invariance, PTL

-------------------------------------------------------------------------------
(* What is read back.  Times of snapshots, in either store.                  *)

\* Nothing is dated ahead of the clock.
Aged(t) ==
    /\ \A x \in t.snapshots : x.at \in 1 .. clock
    /\ t.audited \subseteq 1 .. clock

RunAged(run) ==
    /\ run.undo # NoRecord => Aged(run.undo)
    /\ run.at >= 6 \/ (run.at = 5 /\ run.phase \in {"copying", "begun", "saved"}) =>
          run.now \in 1 .. clock

AgeInv ==
    /\ Aged(tables)
    /\ \A s \in Submissions : Active(s) => RunAged(runs[s])
    /\ \A s \in Submissions : answers[s] # NoRecord => answers[s].at \in 1 .. clock
\* Later, a table is no younger.
LEMMA AgedLater ==
    ASSUME clock \in Nat, clock' \in {clock, clock + 1}
    PROVE  /\ \A n \in 1 .. clock : n \in 1 .. clock'
           /\ \A x \in Submissions : Active(x) /\ runs'[x] = runs[x] /\ RunAged(runs[x])
                                     => RunAged(runs[x])'
           /\ Aged(tables) /\ tables' = tables => Aged(tables)'
<1>1. \A n \in 1 .. clock : n \in 1 .. clock'
  OBVIOUS
<1>2. ASSUME NEW x \in Submissions, runs'[x] = runs[x], RunAged(runs[x])
      PROVE  RunAged(runs[x])'
  <2>1. runs[x].undo # NoRecord => Aged(runs[x].undo)'
    BY <1>1, <1>2 DEF RunAged, Aged
  <2> QED  BY <1>1, <1>2, <2>1 DEF RunAged
<1>3. Aged(tables) /\ tables' = tables => Aged(tables)'
  BY <1>1 DEF Aged
<1> QED  BY <1>1, <1>2, <1>3

LEMMA AgeStep ==
    ASSUME NEW s \in Submissions, TypesOK, AgeInv, ActsFor(s),
           clock' \in {clock, clock + 1}, Aged(tables)',
           Active(s)' => RunAged(runs[s])',
           \A x \in Submissions \ {s} : answers'[x] = answers[x],
           answers'[s] # NoRecord => answers'[s].at \in 1 .. clock'
    PROVE  AgeInv'
<1>0. clock \in Nat
  BY DEF TypesOK
<1>1. ASSUME NEW x \in Submissions \ {s}, Active(x)'
      PROVE  RunAged(runs[x])'
  <2>1. runs'[x] = runs[x] /\ Active(x)
    BY <1>1 DEF ActsFor, Active
  <2>2. RunAged(runs[x])
    BY <2>1 DEF AgeInv
  <2> QED  BY <1>0, <2>1, <2>2, AgedLater
<1>2. ASSUME NEW x \in Submissions \ {s}, answers'[x] # NoRecord
      PROVE  answers'[x].at \in 1 .. clock'
  <2>1. answers'[x] = answers[x] /\ answers[x].at \in 1 .. clock
    BY <1>2 DEF AgeInv
  <2> QED  BY <1>0, <2>1, AgedLater
<1> QED  BY <1>1, <1>2 DEF AgeInv

\* The tables a unit writes are dated like the tables before, or like the run.
LEMMA WrittenSnapshots ==
    ASSUME NEW s \in Submissions, IInv, Active(s), UnitActs(s)
    PROVE  LET new == [flags |-> FlagsOf(runs[s].found), at |-> runs[s].now] IN
           /\ tables'.snapshots =
                 IF runs[s].at = 5 /\ runs[s].phase = "begun"
                 THEN SavedSnapshots(tables, new) ELSE tables.snapshots
           /\ tables'.audited \subseteq tables.audited
                 \cup (IF runs[s].at = 5 THEN {runs[s].now} ELSE {})
           /\ runs[s].at = 5 => runs[s].phase \in {"begun", "saved"}
           /\ new \in Snapshot
           /\ runs[s].at \in 1 .. 7
<1> DEFINE new == [flags |-> FlagsOf(runs[s].found), at |-> runs[s].now]
           u == Saved(tables, s)
<1>0. /\ runs[s] \in Run /\ tables \in Table /\ runs[s].at \in 1 .. 7
      /\ RunOK(runs[s], s)
  BY DEF UnitActs, IInv, TypesOK, Run, OKInv
<1>1. u \in Table /\ u.audited = tables.audited
      /\ u.snapshots = IF runs[s].at = 5 THEN SavedSnapshots(tables, new)
                                         ELSE tables.snapshots
  BY <1>0, SavedFields
<1> HIDE DEF u
<1>2. new \in Snapshot
  BY <1>0, FlagsOfType DEF Run, Snapshot
<1>3. ASSUME NEW t \in Table
      PROVE  /\ Logged(t, s).snapshots = t.snapshots
             /\ Logged(t, s).audited = IF runs[s].at = 5 THEN t.audited \cup {runs[s].now}
                                                         ELSE t.audited
  BY <1>0, LoggedFields
<1>4. CASE runs[s].phase \in {"begun", "stored"}
             /\ tables' \in {Saved(tables, s), Logged(Saved(tables, s), s)}
  <2>1. tables' \in {u, Logged(u, s)}
    BY <1>4 DEF u
  <2>2. runs[s].at = 5 => runs[s].phase = "begun"
    BY <1>0, <1>4 DEF RunOK
  <2>3. tables'.snapshots = u.snapshots
    BY <1>1, <1>3, <2>1
  <2>4. tables'.audited \subseteq tables.audited
                 \cup (IF runs[s].at = 5 THEN {runs[s].now} ELSE {})
    BY <1>1, <1>3, <2>1
  <2>5. tables'.snapshots = IF runs[s].at = 5 /\ runs[s].phase = "begun"
                            THEN SavedSnapshots(tables, new) ELSE tables.snapshots
    BY <1>1, <2>2, <2>3
  <2> QED  BY <1>0, <1>2, <2>2, <2>4, <2>5
<1>5. CASE runs[s].phase = "saved" /\ tables' = Logged(tables, s)
  BY <1>0, <1>2, <1>3, <1>5
<1> QED  BY <1>4, <1>5 DEF UnitActs

\* An interrupted copy or rollback brings in nothing younger.
LEMMA PieceAge ==
    ASSUME NEW s \in Submissions, IInv, AgeInv, BreaksUp(s)
    PROVE  AgeInv'
<1>1. /\ TypesOK /\ ActsFor(s) /\ UNCHANGED answers /\ clock' \in {clock, clock + 1}
      /\ Active(s) /\ runs[s] \in Run
      /\ Within(tables', tables, Before(s))
      /\ Active(s)' => PieceOf(s, runs'[s])
  BY PieceStep DEF IInv
<1>2. Aged(tables) /\ Aged(Before(s)) /\ RunAged(runs[s]) /\ clock \in Nat
  BY <1>1 DEF AgeInv, RunAged, Before, Aged, EmptyTables, TypesOK
<1>3. \A n \in 1 .. clock : n \in 1 .. clock'
  BY <1>1, <1>2
<1>4. ASSUME NEW v, Within(v, tables, Before(s))
      PROVE  /\ \A x \in v.snapshots : x.at \in 1 .. clock'
             /\ v.audited \subseteq 1 .. clock'
  BY <1>2, <1>3, <1>4 DEF Within, Aged
<1>5. Aged(tables)'
  BY <1>1, <1>4 DEF Aged
<1>6. ASSUME Active(s)' PROVE RunAged(runs[s])'
  <2>1. PieceOf(s, runs'[s])
    BY <1>1, <1>6
  <2>2. runs'[s].undo # NoRecord => Aged(runs[s].undo)'
    BY <1>4, <2>1 DEF PieceOf, Aged
  <2>3. runs'[s].at >= 6 \/ (runs'[s].at = 5 /\ runs'[s].phase \in {"copying", "begun", "saved"})
           => runs'[s].now \in 1 .. clock'
    <3>1. CASE clock' = clock + 1 /\ runs'[s].now = clock'
      BY <1>2, <3>1
    <3>2. CASE /\ clock' = clock /\ runs'[s].now = runs[s].now
               /\ runs'[s].at = 5 /\ runs'[s].phase \in {"copying", "begun"}
                     => runs[s].phase = "copying"
      BY <1>2, <2>1, <3>2 DEF PieceOf, RunAged
    <3> QED  BY <2>1, <3>1, <3>2 DEF PieceOf
  <2> QED  BY <2>2, <2>3 DEF RunAged
<1>7. answers'[s] # NoRecord => answers'[s].at \in 1 .. clock'
  BY <1>1, <1>3 DEF AgeInv
<1> QED  BY <1>1, <1>5, <1>6, <1>7, AgeStep

LEMMA NextAge ==
    ASSUME NEW s \in Submissions, IInv, AgeInv,
           Acts(s)
    PROVE  AgeInv'
<1>0. TypesOK /\ clock \in Nat
  BY DEF IInv, TypesOK
<1>1. CASE ProcessBid(s) \/ Retry(s)
  <2>1. /\ ActsFor(s) /\ UNCHANGED <<answers, clock>>
        /\ runs'[s] \in {NewRun(s), [NewRun(s) EXCEPT !.at = 2]}
    BY <1>1, ActionsOfStart
  <2>2. tables'.snapshots = tables.snapshots /\ tables'.audited = tables.audited
    BY <1>0, <1>1 DEF ProcessBid, Retry, TypesOK, Table
  <2>3. Aged(tables)'
    BY <2>1, <2>2 DEF AgeInv, Aged
  <2>4. runs'[s].undo = NoRecord /\ runs'[s].at \in {1, 2}
    BY <2>1 DEF NewRun
  <2>5. RunAged(runs[s])'
    BY <2>4 DEF RunAged
  <2> QED  BY <1>0, <2>1, <2>3, <2>5, AgeStep DEF AgeInv
<1>2. CASE BeginsWhole(s)
  <2>1. /\ ActsFor(s) /\ UNCHANGED <<tables, answers>>
        /\ Active(s) /\ runs[s] \in Run /\ runs[s].phase = "between"
        /\ runs'[s] \in Run
        /\ Skips(s, runs'[s]) \/ Begins(s, runs'[s])
        /\ clock' = IF runs[s].at = 5 THEN clock + 1 ELSE clock
    BY <1>2, BeginActs
  <2>2. clock' \in {clock, clock + 1} /\ RunAged(runs[s])
    BY <2>1 DEF AgeInv
  <2>3. Aged(tables)'
    BY <1>0, <2>1, <2>2, AgedLater DEF AgeInv
  <2>4. runs'[s].undo # NoRecord => runs'[s].undo = tables \/ runs'[s].undo = runs[s].undo
    BY <2>1 DEF Skips, Begins
  <2>5. runs'[s].undo # NoRecord => Aged(runs[s].undo)'
    BY <1>0, <2>1, <2>2, <2>3, <2>4, AgedLater DEF RunAged, Aged
  <2>6. runs'[s].at >= 6 \/ (runs'[s].at = 5 /\ runs'[s].phase \in {"copying", "begun", "saved"})
           => runs'[s].now \in 1 .. clock'
    <3>1. runs[s].at \in 1 .. 7
      BY <2>1 DEF Run
    <3>2. CASE Skips(s, runs'[s])
      BY <1>0, <2>1, <2>2, <3>1, <3>2 DEF Skips, RunAged
    <3>3. CASE Begins(s, runs'[s])
      BY <1>0, <2>1, <2>2, <3>1, <3>3 DEF Begins, RunAged
    <3> QED  BY <2>1, <3>2, <3>3
  <2>7. RunAged(runs[s])'
    BY <2>5, <2>6 DEF RunAged
  <2>8. answers'[s] # NoRecord => answers'[s].at \in 1 .. clock'
    BY <1>0, <2>1, <2>2, AgedLater DEF AgeInv
  <2> QED  BY <1>0, <2>1, <2>2, <2>3, <2>7, <2>8, AgeStep
<1>3. CASE StartPut(s) \/ FinishPut(s)
  <2>1. /\ ActsFor(s) /\ UNCHANGED <<tables, answers, clock>>
        /\ Active(s) /\ runs[s] \in Run /\ runs[s].at = 1
        /\ runs'[s] \in { [runs[s] EXCEPT !.phase = "half"],
                          [runs[s] EXCEPT !.phase = "stored"] }
    BY <1>3, PutActs
  <2>2. runs'[s].at = 1 /\ runs'[s].undo = runs[s].undo
    BY <2>1 DEF Run
  <2>3. RunAged(runs[s])'
    BY <2>1, <2>2 DEF AgeInv, RunAged, Aged
  <2>4. Aged(tables)'
    BY <2>1 DEF AgeInv, Aged
  <2> QED  BY <1>0, <2>1, <2>3, <2>4, AgeStep DEF AgeInv
<1>4. CASE SaveRows(s) \/ AddEvents(s) \/ CommitTransaction(s)
  <2>1. /\ ActsFor(s) /\ Active(s) /\ UnitActs(s) /\ runs[s] \in Run
        /\ UNCHANGED clock
    BY <1>4, WritingActs DEF UnitActs
  <2> DEFINE new == [flags |-> FlagsOf(runs[s].found), at |-> runs[s].now]
  <2>2. /\ tables'.snapshots =
               IF runs[s].at = 5 /\ runs[s].phase = "begun"
               THEN SavedSnapshots(tables, new) ELSE tables.snapshots
        /\ tables'.audited \subseteq tables.audited
               \cup (IF runs[s].at = 5 THEN {runs[s].now} ELSE {})
        /\ runs[s].at = 5 => runs[s].phase \in {"begun", "saved"}
        /\ new \in Snapshot /\ runs[s].at \in 1 .. 7
    BY <2>1, WrittenSnapshots
  <2>3. RunAged(runs[s]) /\ Aged(tables)
    BY <2>1 DEF AgeInv
  <2>4. runs[s].at >= 5 => runs[s].now \in 1 .. clock
    BY <2>2, <2>3 DEF RunAged
  <2>5. Aged(tables)'
    <3>1. tables'.audited \subseteq 1 .. clock
      BY <2>2, <2>3, <2>4 DEF Aged
    <3>2. tables'.snapshots \subseteq
             tables.snapshots \cup (IF runs[s].at = 5 THEN {new} ELSE {})
      BY <1>0, <2>2, SavedSnapshotsType DEF TypesOK
    <3>3. \A x \in tables'.snapshots : x.at \in 1 .. clock
      BY <2>3, <2>4, <3>2 DEF Aged
    <3> QED  BY <2>1, <3>1, <3>3 DEF Aged
  <2>6. \A x \in Submissions \ {s} : answers'[x] = answers[x]
    BY <2>1 DEF UnitActs
  <2>7. CASE /\ runs[s].at \in {1, 5} /\ answers' = answers
             /\ runs'[s] = [runs[s] EXCEPT !.phase = "saved"]
    <3>1. /\ runs'[s].at = runs[s].at /\ runs'[s].undo = runs[s].undo
          /\ runs'[s].now = runs[s].now
      BY <2>1, <2>7 DEF Run
    <3>2. RunAged(runs[s])'
      BY <2>1, <2>3, <2>4, <2>7, <3>1 DEF RunAged, Aged
    <3> QED  BY <1>0, <2>1, <2>5, <2>6, <2>7, <3>2, AgeStep DEF AgeInv
  <2>8. CASE runs[s].at = 7 /\ runs'[s] = NoRecord /\ answers'[s] = AnswerOf(s)
    <3>1. answers'[s].at \in 1 .. clock'
      BY <2>1, <2>4, <2>8 DEF AnswerOf
    <3> QED  BY <1>0, <2>1, <2>5, <2>6, <2>8, <3>1, AgeStep DEF Active
  <2>9. CASE /\ runs[s].at # 7 /\ runs'[s] = Advanced(runs[s])
             /\ answers' = answers
    <3>1. /\ runs'[s].undo = NoRecord /\ runs'[s].now = runs[s].now
          /\ runs'[s].phase = "between"
          /\ (runs'[s].at = 6 /\ runs[s].at = 6) \/ runs'[s].at = runs[s].at + 1
      BY <2>1, <2>9, AdvancedFields
    <3>2. RunAged(runs[s])'
      BY <2>1, <2>2, <2>4, <3>1 DEF RunAged
    <3> QED  BY <1>0, <2>1, <2>5, <2>6, <2>9, <3>2, AgeStep DEF AgeInv
  <2> QED  BY <2>1, <2>7, <2>8, <2>9 DEF UnitActs
<1>5. CASE RaisesWhole(s)
  <2>1. ActsFor(s) /\ Active(s) /\ UNCHANGED <<answers, clock>> /\ RaiseActs(s)
    BY <1>5, FailureActs
  <2>2. RunAged(runs[s]) /\ Aged(tables)
    BY <2>1 DEF AgeInv
  <2>3. Aged(tables')
    BY <2>1, <2>2 DEF RaiseActs, RunAged
  <2>4. Aged(tables)'
    BY <2>1, <2>3 DEF Aged
  <2>5. Active(s)' => /\ runs'[s].undo = NoRecord /\ runs'[s].phase = "failing"
                      /\ runs'[s].at = runs[s].at /\ runs'[s].now = runs[s].now
    BY <2>1 DEF RaiseActs, Run, Active
  <2>6. Active(s)' => RunAged(runs[s])'
    BY <2>1, <2>2, <2>5 DEF RunAged
  <2> QED  BY <1>0, <2>1, <2>4, <2>6, AgeStep DEF AgeInv
<1>6. CASE FailSubmission(s)
  <2>1. ActsFor(s) /\ UNCHANGED <<answers, clock>> /\ ~Active(s)'
    BY <1>6, FailureActs DEF Active
  <2>2. tables'.snapshots = tables.snapshots /\ tables'.audited = tables.audited
    BY <1>0, <1>6 DEF FailSubmission, TypesOK, Table
  <2>3. Aged(tables)'
    BY <2>1, <2>2 DEF AgeInv, Aged
  <2> QED  BY <1>0, <2>1, <2>3, AgeStep DEF AgeInv
<1> QED  BY <1>1, <1>2, <1>3, <1>4, <1>5, <1>6, PieceAge DEF Acts
-------------------------------------------------------------------------------
(* One thread on the memory store: the newest snapshot is that of the last   *)
(* answer.                                                                   *)

Lone == backend = "memory" /\ ~overlap

Unanswered == \A s \in Submissions : ~AnsweredLast(s)

\* Times tell snapshots apart, and one is that of the last answer.
Latest(t) ==
    /\ \A x, y \in t.snapshots : x.at = y.at => x = y
    /\ \A s \in Submissions : AnsweredLast(s) =>
          [flags |-> answers[s].flags, at |-> clock] \in t.snapshots

\* A run that has taken the time for its snapshot is the last to do so.
RunLatest(run) ==
    /\ run.undo # NoRecord => Latest(run.undo)
    /\ run.at = 5 /\ run.phase = "begun" =>
          /\ run.now = clock /\ Unanswered
          /\ \A x \in tables.snapshots : x.at # clock
    /\ run.phase # "failing" /\ (run.at >= 6 \/ (run.at = 5 /\ run.phase = "saved")) =>
          /\ run.now = clock /\ Unanswered
          /\ [flags |-> FlagsOf(run.found), at |-> clock] \in tables.snapshots

FlagInv ==
    Lone => /\ Latest(tables)
            /\ \A s \in Submissions : Active(s) => RunLatest(runs[s])
LEMMA FlagStep ==
    ASSUME NEW s \in Submissions, ActsFor(s),
           Lone => Latest(tables)' /\ (Active(s)' => RunLatest(runs[s])')
    PROVE  FlagInv'
<1> SUFFICES ASSUME Lone PROVE FlagInv'
  BY DEF FlagInv, Lone, ActsFor
<1>1. \A x \in Submissions \ {s} : ~Active(x)'
  BY DEF Lone, ActsFor, Active
<1> QED  BY <1>1 DEF FlagInv

\* A new snapshot replaces the one with its flags.
LEMMA LatestSaved ==
    ASSUME NEW t, NEW new, Lone, \A x, y \in t.snapshots : x.at = y.at => x = y,
           \A x \in t.snapshots : x.at # new.at
    PROVE  /\ new \in SavedSnapshots(t, new)
           /\ \A x, y \in SavedSnapshots(t, new) : x.at = y.at => x = y
<1>1. SavedSnapshots(t, new) = {x \in t.snapshots : x.flags # new.flags} \cup {new}
  BY DEF SavedSnapshots, Lone
<1> QED  BY <1>1

LEMMA BeginFlag ==
    ASSUME NEW s \in Submissions, IInv, AgeInv, FlagInv, BeginsWhole(s)
    PROVE  FlagInv'
<1>1. /\ TypesOK /\ ActsFor(s) /\ UNCHANGED <<tables, answers>>
      /\ Active(s) /\ runs[s] \in Run /\ runs[s].phase = "between"
      /\ runs'[s] \in Run
      /\ Skips(s, runs'[s]) \/ Begins(s, runs'[s])
      /\ clock' = IF runs[s].at = 5 THEN clock + 1 ELSE clock
  BY BeginActs DEF IInv
<1>2. clock \in Nat /\ runs[s].at \in 1 .. 7
  BY <1>1 DEF TypesOK, Run
<1> SUFFICES ASSUME Lone PROVE Latest(tables)' /\ RunLatest(runs[s])'
  BY <1>1, FlagStep
<1>3. Latest(tables) /\ RunLatest(runs[s])
  BY <1>1 DEF FlagInv
<1>4. CASE runs[s].at = 5
  <2>1. /\ Begins(s, runs'[s]) /\ runs'[s].phase = "begun" /\ runs'[s].at = 5
        /\ runs'[s].undo = tables /\ runs'[s].now = clock'
    BY <1>1, <1>4 DEF Skips, Begins, Lone
  <2>2. clock' \notin 1 .. clock
    BY <1>1, <1>2, <1>4
  <2>3. \A x \in Submissions : ~(answers'[x] # NoRecord /\ answers'[x].at = clock')
    BY <1>1, <2>2 DEF AgeInv
  <2>4. Unanswered'
    BY <2>3 DEF Unanswered, AnsweredLast
  <2>5. \A x \in tables'.snapshots : x.at # clock'
    BY <1>1, <2>2 DEF AgeInv, Aged
  <2>6. Latest(tables)'
    BY <1>1, <1>3, <2>3 DEF Latest, AnsweredLast
  <2>7. tables'.snapshots = runs'[s].undo.snapshots
    BY <1>1, <2>1
  <2>8. Latest(runs[s].undo)'
    BY <2>6, <2>7 DEF Latest
  <2> QED  BY <2>1, <2>4, <2>5, <2>6, <2>8 DEF RunLatest
<1>5. CASE runs[s].at # 5
  <2>1. Latest(tables)'
    BY <1>1, <1>3, <1>5 DEF Latest, AnsweredLast
  <2>2. runs'[s].undo # NoRecord => runs'[s].undo = tables \/ runs'[s].undo = runs[s].undo
    BY <1>1 DEF Skips, Begins
  <2>3. runs'[s].undo # NoRecord => Latest(runs[s].undo)'
    BY <1>1, <1>3, <1>5, <2>2 DEF Latest, AnsweredLast, RunLatest
  <2>4. /\ runs'[s].phase # "saved"
        /\ runs'[s].at = 5 => runs'[s].phase # "begun"
        /\ runs'[s].at >= 6 => /\ runs[s].at >= 6
                               /\ runs'[s].now = runs[s].now
                               /\ runs'[s].found = runs[s].found
    BY <1>1, <1>2, <1>5 DEF Skips, Begins
  <2>5. runs'[s].at >= 6 =>
           /\ runs'[s].now = clock' /\ Unanswered'
           /\ [flags |-> FlagsOf(runs'[s].found), at |-> clock'] \in tables'.snapshots
    BY <1>1, <1>3, <1>5, <2>4 DEF RunLatest, Unanswered, AnsweredLast
  <2> QED  BY <2>1, <2>3, <2>4, <2>5 DEF RunLatest
<1> QED  BY <1>4, <1>5

LEMMA WritingFlag ==
    ASSUME NEW s \in Submissions, IInv, FlagInv,
           SaveRows(s) \/ AddEvents(s) \/ CommitTransaction(s)
    PROVE  FlagInv'
<1>1. /\ ActsFor(s) /\ Active(s) /\ UnitActs(s) /\ runs[s] \in Run
      /\ UNCHANGED clock
  BY WritingActs DEF UnitActs
<1> DEFINE new == [flags |-> FlagsOf(runs[s].found), at |-> runs[s].now]
<1>2. /\ tables'.snapshots =
             IF runs[s].at = 5 /\ runs[s].phase = "begun"
             THEN SavedSnapshots(tables, new) ELSE tables.snapshots
      /\ runs[s].at = 5 => runs[s].phase \in {"begun", "saved"}
      /\ runs[s].at \in 1 .. 7 /\ runs[s].phase # "failing"
  BY <1>1, WrittenSnapshots DEF UnitActs
<1> SUFFICES ASSUME Lone PROVE Latest(tables)' /\ (Active(s)' => RunLatest(runs[s])')
  BY <1>1, FlagStep
<1>3. Latest(tables) /\ RunLatest(runs[s])
  BY <1>1 DEF FlagInv
<1>4. runs[s].at >= 5 => runs[s].now = clock /\ Unanswered /\ new \in tables'.snapshots
  <2>1. CASE runs[s].at = 5 /\ runs[s].phase = "begun"
    BY <1>2, <1>3, <2>1, LatestSaved DEF RunLatest, Latest
  <2>2. CASE runs[s].at >= 6 \/ (runs[s].at = 5 /\ runs[s].phase = "saved")
    BY <1>2, <1>3, <2>2 DEF RunLatest
  <2> QED  BY <1>2, <2>1, <2>2
<1>5. \A x, y \in tables'.snapshots : x.at = y.at => x = y
  <2>1. CASE runs[s].at = 5 /\ runs[s].phase = "begun"
    BY <1>2, <1>3, <2>1, LatestSaved DEF RunLatest, Latest
  <2>2. CASE ~(runs[s].at = 5 /\ runs[s].phase = "begun")
    BY <1>2, <1>3, <2>2 DEF Latest
  <2> QED  BY <2>1, <2>2
<1>6. ASSUME answers' = answers PROVE Latest(tables)' /\ (Unanswered => Unanswered')
  <2>1. CASE runs[s].at >= 5
    BY <1>1, <1>4, <1>5, <1>6, <2>1 DEF Latest, Unanswered, AnsweredLast
  <2>2. CASE ~(runs[s].at >= 5)
    BY <1>1, <1>2, <1>3, <1>5, <1>6, <2>2 DEF Latest, Unanswered, AnsweredLast
  <2> QED  BY <2>1, <2>2
<1>7. CASE /\ runs[s].at \in {1, 5} /\ answers' = answers
           /\ runs'[s] = [runs[s] EXCEPT !.phase = "saved"]
  <2>1. /\ runs'[s].at = runs[s].at /\ runs'[s].undo = runs[s].undo
        /\ runs'[s].now = runs[s].now /\ runs'[s].phase = "saved"
        /\ runs'[s].found = runs[s].found
    BY <1>1, <1>7 DEF Run
  <2>2. runs'[s].undo # NoRecord => Latest(runs[s].undo)'
    BY <1>1, <1>3, <1>7, <2>1 DEF RunLatest, Latest, AnsweredLast
  <2>3. runs'[s].at >= 5 =>
           /\ runs'[s].now = clock' /\ Unanswered'
           /\ [flags |-> FlagsOf(runs'[s].found), at |-> clock'] \in tables'.snapshots
    BY <1>1, <1>4, <1>6, <1>7, <2>1
  <2> QED  BY <1>2, <1>6, <1>7, <2>1, <2>2, <2>3 DEF RunLatest
<1>8. CASE runs[s].at = 7 /\ runs'[s] = NoRecord /\ answers'[s] = AnswerOf(s)
  <2>1. \A x \in Submissions \ {s} : answers'[x] = answers[x]
    BY <1>1 DEF UnitActs
  <2>2. answers'[s].flags = FlagsOf(runs[s].found)
    BY <1>8 DEF AnswerOf
  <2>3. [flags |-> answers'[s].flags, at |-> clock'] \in tables'.snapshots
    BY <1>1, <1>4, <1>8, <2>2
  <2>4. \A x \in Submissions \ {s} : ~AnsweredLast(x)'
    BY <1>1, <1>4, <1>8, <2>1 DEF Unanswered, AnsweredLast
  <2>5. Latest(tables)'
    BY <1>5, <2>3, <2>4 DEF Latest
  <2> QED  BY <1>8, <2>5 DEF Active
<1>9. CASE /\ runs[s].at # 7 /\ runs'[s] = Advanced(runs[s])
           /\ answers' = answers
  <2>1. /\ runs'[s].undo = NoRecord /\ runs'[s].now = runs[s].now
        /\ runs'[s].phase = "between" /\ runs'[s].found = runs[s].found
        /\ (runs'[s].at = 6 /\ runs[s].at = 6) \/ runs'[s].at = runs[s].at + 1
    BY <1>1, <1>9, AdvancedFields
  <2>2. runs'[s].at >= 6 =>
           /\ runs'[s].now = clock' /\ Unanswered'
           /\ [flags |-> FlagsOf(runs'[s].found), at |-> clock'] \in tables'.snapshots
    BY <1>1, <1>2, <1>4, <1>6, <1>9, <2>1
  <2> QED  BY <1>6, <1>9, <2>1, <2>2 DEF RunLatest
<1> QED  BY <1>1, <1>7, <1>8, <1>9 DEF UnitActs

LEMMA NextFlagInv ==
    ASSUME NEW s \in Submissions, IInv, AgeInv, FlagInv,
           Acts(s)
    PROVE  FlagInv'
<1>0. TypesOK
  BY DEF IInv
<1>1. CASE ProcessBid(s) \/ Retry(s)
  <2>1. /\ ActsFor(s) /\ UNCHANGED <<answers, clock>>
        /\ runs'[s] \in {NewRun(s), [NewRun(s) EXCEPT !.at = 2]}
    BY <1>1, ActionsOfStart
  <2>2. tables'.snapshots = tables.snapshots
    BY <1>0, <1>1 DEF ProcessBid, Retry, TypesOK, Table
  <2>3. runs'[s].undo = NoRecord /\ runs'[s].at \in {1, 2}
    BY <2>1 DEF NewRun
  <2>4. Lone => Latest(tables)'
    BY <2>1, <2>2 DEF FlagInv, Latest, AnsweredLast
  <2>5. RunLatest(runs[s])'
    BY <2>3 DEF RunLatest
  <2> QED  BY <2>1, <2>4, <2>5, FlagStep
<1>3. CASE StartPut(s) \/ FinishPut(s)
  <2>1. /\ ActsFor(s) /\ UNCHANGED <<tables, answers, clock>>
        /\ Active(s) /\ runs[s] \in Run /\ runs[s].at = 1
        /\ runs'[s] \in { [runs[s] EXCEPT !.phase = "half"],
                          [runs[s] EXCEPT !.phase = "stored"] }
    BY <1>3, PutActs
  <2>2. runs'[s].at = 1 /\ runs'[s].undo = runs[s].undo
    BY <2>1 DEF Run
  <2>3. Lone => RunLatest(runs[s])'
    <3>1. Lone /\ runs'[s].undo # NoRecord => Latest(runs[s].undo)
      BY <2>1, <2>2 DEF FlagInv, RunLatest
    <3>2. Lone /\ runs'[s].undo # NoRecord => Latest(runs[s].undo)'
      BY <2>1, <2>2, <3>1 DEF Latest, AnsweredLast
    <3> QED  BY <2>2, <3>2 DEF RunLatest
  <2>4. Lone => Latest(tables)'
    BY <2>1 DEF FlagInv, Latest, AnsweredLast
  <2> QED  BY <2>1, <2>3, <2>4, FlagStep
<1>5. CASE RaisesWhole(s)
  <2>1. ActsFor(s) /\ Active(s) /\ UNCHANGED <<answers, clock>> /\ RaiseActs(s)
    BY <1>5, FailureActs
  <2>2. Lone => Latest(tables')
    BY <2>1 DEF RaiseActs, FlagInv, RunLatest
  <2>3. Lone => Latest(tables)'
    BY <2>1, <2>2 DEF Latest, AnsweredLast
  <2>4. Active(s)' => runs'[s].undo = NoRecord /\ runs'[s].phase = "failing"
    BY <2>1 DEF RaiseActs, Run, Active
  <2>5. Active(s)' => RunLatest(runs[s])'
    BY <2>4 DEF RunLatest
  <2> QED  BY <2>1, <2>3, <2>5, FlagStep
<1>6. CASE FailSubmission(s)
  <2>1. ActsFor(s) /\ UNCHANGED <<answers, clock>> /\ ~Active(s)'
    BY <1>6, FailureActs DEF Active
  <2>2. tables'.snapshots = tables.snapshots
    BY <1>0, <1>6 DEF FailSubmission, TypesOK, Table
  <2>3. Lone => Latest(tables)'
    BY <2>1, <2>2 DEF FlagInv, Latest, AnsweredLast
  <2> QED  BY <2>1, <2>3, FlagStep
<1>7. CASE BreaksUp(s)
  BY <1>7, PieceStep DEF Shared, Lone, ActsFor, FlagInv
<1> QED  BY <1>1, <1>3, <1>5, <1>6, <1>7, BeginFlag, WritingFlag DEF Acts
-------------------------------------------------------------------------------
(* And where nothing was raised, a bidder with one run has nothing but what  *)
(* that run has stored.                                                      *)

Holding(t, results, findings, explained) ==
    /\ t.results = results /\ t.findings = findings
    /\ \A f \in Flags : t.explanations[f] # NoRecord <=> f \in explained

\* Everything in the tables is of the run so far.
Stored(t, s, run) ==
    Holding(t,
        IF run.at >= 4 THEN ResultsOf(s, run.found) ELSE {},
        IF run.at >= 5 THEN run.found ELSE IF run.at = 4 THEN FromRules(run.found) ELSE {},
        IF run.at >= 6 THEN FlagsOf(run.found) \ run.todo ELSE {})

Mine(s) ==
    (\A x \in Submissions \ {s} : ~Active(x) /\ answers[x] = NoRecord) =>
        /\ Active(s) => Stored(tables, s, runs[s])
        /\ answers[s] # NoRecord =>
              Holding(tables, answers[s].results, answers[s].findings, answers[s].explained)
        /\ ~Active(s) /\ answers[s] = NoRecord => Holding(tables, {}, {}, {})

\* What the next unit asks for is there.
Provided(s, run) ==
    /\ run.phase # "failing"
    /\ run.at = 1 /\ run.phase # "saved" => tables.submissions[s] = NoRecord
    /\ run.at >= 2 \/ run.phase = "saved" =>
          s \in tables.documents /\ tables.submissions[s] # NoRecord
    /\ run.at >= 3 => s \in tables.evidence
    /\ run.at >= 6 => run.todo \subseteq FlagsOf(run.found)
    /\ run.at = 6 /\ run.phase # "between" => run.todo # {}

\* Nothing counts backwards.
Counted == raised \in Nat /\ started \in Nat

CalmInv ==
    Lone /\ raised = 0 => \A s \in Submissions :
        /\ tables.submissions[s] # "FAILED"
        /\ Active(s) => Provided(s, runs[s])
        /\ Mine(s)
LEMMA CalmStep ==
    ASSUME NEW s \in Submissions, ActsFor(s),
           Lone /\ raised' = 0 =>
              /\ \A x \in Submissions : tables'.submissions[x] # "FAILED"
              /\ Active(s)' => Provided(s, runs[s])'
              /\ Mine(s)'
              /\ Active(s)' \/ answers'[s] # NoRecord
    PROVE  CalmInv'
<1> SUFFICES ASSUME Lone, raised' = 0
             PROVE  \A x \in Submissions : /\ tables'.submissions[x] # "FAILED"
                                           /\ Active(x)' => Provided(x, runs[x])'
                                           /\ Mine(x)'
  BY DEF CalmInv, Lone, ActsFor
<1>1. \A x \in Submissions \ {s} : ~Active(x)'
  BY DEF Lone, ActsFor, Active
<1>2. \A x \in Submissions \ {s} : Mine(x)'
  BY DEF Mine
<1> QED  BY <1>1, <1>2

\* What the others may not have done, they have not done before either.
LEMMA MineStep ==
    ASSUME NEW s \in Submissions, Lone, ActsFor(s), Mine(s), Active(s), answers[s] = NoRecord,
           \A x \in Submissions \ {s} : answers'[x] = answers[x],
           Stored(tables, s, runs[s]) =>
              /\ Active(s)' => Stored(tables, s, runs[s])' /\ answers'[s] = NoRecord
              /\ ~Active(s)' => /\ answers'[s] # NoRecord
                                /\ Holding(tables, answers[s].results, answers[s].findings,
                                           answers[s].explained)'
    PROVE  Mine(s)'
<1> SUFFICES ASSUME \A x \in Submissions \ {s} : ~Active(x)' /\ answers'[x] = NoRecord
             PROVE  /\ Active(s)' => Stored(tables, s, runs[s])'
                    /\ answers'[s] # NoRecord =>
                          Holding(tables, answers[s].results, answers[s].findings,
                                  answers[s].explained)'
                    /\ ~Active(s)' /\ answers'[s] = NoRecord => Holding(tables, {}, {}, {})'
  BY DEF Mine
<1>1. \A x \in Submissions \ {s} : ~Active(x) /\ answers[x] = NoRecord
  BY DEF Lone, ActsFor
<1>2. Stored(tables, s, runs[s])
  BY <1>1 DEF Mine
<1> QED  BY <1>2

LEMMA StartCalm ==
    ASSUME NEW s \in Submissions, IInv, CalmInv, ProcessBid(s) \/ Retry(s)
    PROVE  CalmInv'
<1>1. TypesOK /\ ActsFor(s) /\ UNCHANGED <<answers, clock, raised>>
  BY ActionsOfStart DEF IInv
<1> SUFFICES ASSUME Lone, raised = 0
             PROVE  /\ \A x \in Submissions : tables'.submissions[x] # "FAILED"
                    /\ Active(s)' => Provided(s, runs[s])'
                    /\ Mine(s)'
                    /\ Active(s)' \/ answers'[s] # NoRecord
  BY <1>1, CalmStep DEF CalmInv
<1>2. ProcessBid(s)
  BY DEF Retry, CalmInv
<1>3. /\ runs'[s] = NewRun(s) /\ tables' = tables /\ answers[s] = NoRecord
      /\ tables.submissions[s] = NoRecord /\ ~Active(s)
  BY <1>1, <1>2 DEF ProcessBid, MayStart, Becomes, TypesOK
<1>4. runs'[s].at = 1 /\ runs'[s].phase = "between" /\ runs'[s] # NoRecord
  <2>1. NewRun(s) \in Run
    BY NewRunType
  <2>2. runs'[s] # NoRecord
    BY <1>3, <2>1, StoreAssumption
  <2> QED  BY <1>3, <2>2 DEF NewRun
<1>5. Active(s)'
  BY <1>4 DEF Active
<1>6. Provided(s, runs[s])'
  BY <1>3, <1>4 DEF Provided
<1>7. Mine(s)'
  <2> SUFFICES ASSUME \A x \in Submissions \ {s} : ~Active(x)' /\ answers'[x] = NoRecord
               PROVE  Stored(tables, s, runs[s])'
    BY <1>1, <1>3, <1>5 DEF Mine
  <2>1. \A x \in Submissions \ {s} : ~Active(x) /\ answers[x] = NoRecord
    BY <1>1 DEF Lone, ActsFor
  <2>2. Holding(tables, {}, {}, {})
    BY <1>3, <2>1 DEF CalmInv, Mine
  <2> QED  BY <1>3, <1>4, <2>2 DEF Stored, Holding
<1> QED  BY <1>3, <1>5, <1>6, <1>7 DEF CalmInv

LEMMA BeginCalm ==
    ASSUME NEW s \in Submissions, IInv, CalmInv, BeginsWhole(s)
    PROVE  CalmInv'
<1>1. /\ ActsFor(s) /\ UNCHANGED <<tables, answers, raised>>
      /\ Active(s) /\ runs[s] \in Run /\ runs[s].phase = "between"
      /\ runs'[s] \in Run
      /\ Skips(s, runs'[s]) \/ Begins(s, runs'[s])
  BY BeginActs
<1> SUFFICES ASSUME Lone, raised = 0
             PROVE  /\ \A x \in Submissions : tables'.submissions[x] # "FAILED"
                    /\ Active(s)' => Provided(s, runs[s])'
                    /\ Mine(s)'
                    /\ Active(s)' \/ answers'[s] # NoRecord
  BY <1>1, CalmStep DEF CalmInv
<1>2. /\ Provided(s, runs[s]) /\ Mine(s) /\ answers[s] = NoRecord
      /\ runs[s].at \in 1 .. 7 /\ runs'[s].at \in 1 .. 7
  BY <1>1 DEF CalmInv, IInv, GoodInv, Isolated, Lone, RunGood, Run
<1>3. Active(s)'
  BY <1>1, StoreAssumption DEF Active
<1>4. Provided(s, runs[s])'
  <2>1. CASE Skips(s, runs'[s])
    BY <1>1, <1>2, <2>1 DEF Skips, Provided
  <2>2. CASE Begins(s, runs'[s])
    BY <1>1, <1>2, <2>2 DEF Begins, Provided
  <2> QED  BY <1>1, <2>1, <2>2
<1>5. ASSUME Stored(tables, s, runs[s]) PROVE Stored(tables, s, runs[s])'
  <2>1. CASE Skips(s, runs'[s]) /\ runs[s].at = 4
    <3>1. FromRules(runs[s].found) = runs[s].found
      BY <2>1 DEF Skips, FromRules, FromAI
    <3> QED  BY <1>1, <1>5, <2>1, <3>1 DEF Skips, Stored, Holding
  <2>2. CASE Skips(s, runs'[s]) /\ runs[s].at = 6
    BY <1>1, <1>5, <2>2 DEF Skips, Stored, Holding
  <2>3. CASE Begins(s, runs'[s])
    BY <1>1, <1>2, <1>5, <2>3 DEF Begins, Stored, Holding
  <2> QED  BY <1>1, <2>1, <2>2, <2>3 DEF Skips
<1>6. Mine(s)'
  BY <1>1, <1>2, <1>3, <1>5, MineStep
<1> QED  BY <1>1, <1>3, <1>4, <1>6 DEF CalmInv

LEMMA PutCalm ==
    ASSUME NEW s \in Submissions, IInv, CalmInv, StartPut(s) \/ FinishPut(s)
    PROVE  CalmInv'
<1>1. /\ ActsFor(s) /\ UNCHANGED <<tables, answers, raised>>
      /\ Active(s) /\ runs[s] \in Run /\ runs[s].at = 1
      /\ runs'[s] \in { [runs[s] EXCEPT !.phase = "half"],
                        [runs[s] EXCEPT !.phase = "stored"] }
      /\ runs[s].phase # "saved"
  BY PutActs DEF StartPut, FinishPut
<1> SUFFICES ASSUME Lone, raised = 0
             PROVE  /\ \A x \in Submissions : tables'.submissions[x] # "FAILED"
                    /\ Active(s)' => Provided(s, runs[s])'
                    /\ Mine(s)'
                    /\ Active(s)' \/ answers'[s] # NoRecord
  BY <1>1, CalmStep DEF CalmInv
<1>2. Provided(s, runs[s]) /\ Mine(s) /\ answers[s] = NoRecord
  BY <1>1 DEF CalmInv, IInv, GoodInv, Isolated, Lone, RunGood
<1>3. /\ runs'[s] \in Run /\ runs'[s].at = 1 /\ runs'[s].phase \in {"half", "stored"}
  BY <1>1 DEF Run, Phase
<1>4. Active(s)'
  BY <1>3, StoreAssumption DEF Active
<1>5. Provided(s, runs[s])'
  BY <1>1, <1>2, <1>3 DEF Provided
<1>6. Stored(tables, s, runs[s]) => Stored(tables, s, runs[s])'
  BY <1>1, <1>3 DEF Stored, Holding
<1>7. Mine(s)'
  BY <1>1, <1>2, <1>4, <1>6, MineStep
<1> QED  BY <1>1, <1>4, <1>5, <1>7 DEF CalmInv

\* The rows that say how far a submission has come.
LEMMA SavedProgress ==
    ASSUME NEW s \in Submissions, runs[s] \in Run, NEW t \in Table,
           NEW u, u = Saved(t, s)
    PROVE  /\ u.evidence = IF runs[s].at = 2 THEN t.evidence \cup {s} ELSE t.evidence
           /\ u.submissions = IF runs[s].at = 1 THEN [t.submissions EXCEPT ![s] = "OPEN"]
                              ELSE IF runs[s].at = 7
                              THEN [t.submissions EXCEPT ![s] = "COMPLETE"]
                              ELSE t.submissions
           /\ u.documents = IF runs[s].at = 1 THEN t.documents \cup {s} ELSE t.documents
           /\ u \in Table
<1>1. u.evidence = IF runs[s].at = 2 THEN t.evidence \cup {s} ELSE t.evidence
  <2>1. Unit(s) \in {"ingest", "evidence", "engine", "findings", "flags", "explain", "complete"}
    BY UnitAt
  <2>2. CASE Unit(s) = "ingest"
    BY <2>2, UnitAt DEF Saved, Table
  <2>3. CASE Unit(s) = "evidence"
    BY <2>3, UnitAt DEF Saved, Table
  <2>4. CASE Unit(s) = "engine"
    BY <2>4, UnitAt DEF Saved, Table
  <2>5. CASE Unit(s) = "findings"
    BY <2>5, UnitAt DEF Saved, Table
  <2>6. CASE Unit(s) = "flags"
    BY <2>6, UnitAt DEF Saved, Table
  <2>7. CASE Unit(s) = "explain"
    BY <2>7, UnitAt DEF Saved, Table
  <2>8. CASE Unit(s) = "complete"
    BY <2>8, UnitAt DEF Saved, Table
  <2> QED  BY <2>1, <2>2, <2>3, <2>4, <2>5, <2>6, <2>7, <2>8
<1> QED  BY <1>1, SavedFields

LEMMA LoggedProgress ==
    ASSUME NEW s \in Submissions, runs[s] \in Run, NEW t \in Table,
           NEW u, u = Logged(t, s)
    PROVE  /\ u.submissions = t.submissions /\ u.documents = t.documents
           /\ u.evidence = t.evidence /\ u.results = t.results
           /\ u.findings = t.findings /\ u.explanations = t.explanations
BY UnitAt DEF Logged, Table, Run

\* The tables hold what the run has stored with the unit it is in.
StoredNow(t, s, run) ==
    Holding(t,
        IF run.at >= 3 THEN ResultsOf(s, run.found) ELSE {},
        IF run.at >= 4 THEN run.found ELSE IF run.at = 3 THEN FromRules(run.found) ELSE {},
        IF run.at = 6 THEN FlagsOf(run.found) \ (run.todo \ {NextFlag(s)})
        ELSE IF run.at = 7 THEN FlagsOf(run.found) \ run.todo ELSE {})

LEMMA SavedNow ==
    ASSUME NEW s \in Submissions, runs[s] \in Run, NEW t \in Table,
           NEW u, u = Saved(t, s), Stored(t, s, runs[s]), Provided(s, runs[s]),
           runs[s].phase # "between"
    PROVE  StoredNow(u, s, runs[s])
<1> DEFINE at == runs[s].at
           found == runs[s].found
<1>0. found \in SUBSET FindingIds /\ at \in 1 .. 7 /\ runs[s].todo \in SUBSET Flags
  BY DEF Run
<1>1. /\ u.results = IF at = 3 THEN SavedResults(t, ResultsOf(s, found)) ELSE t.results
      /\ u.findings = IF at = 3 THEN t.findings \cup FromRules(found)
                      ELSE IF at = 4 THEN t.findings \cup FromAI(found) ELSE t.findings
      /\ u.explanations = IF at = 6
             THEN [t.explanations EXCEPT ![NextFlag(s)] = Refs(found, NextFlag(s))]
             ELSE t.explanations
  BY SavedFields
<1>2. /\ t.results = IF at >= 4 THEN ResultsOf(s, found) ELSE {}
      /\ t.findings = IF at >= 5 THEN found ELSE IF at = 4 THEN FromRules(found) ELSE {}
      /\ \A f \in Flags : t.explanations[f] # NoRecord
            <=> f \in (IF at >= 6 THEN FlagsOf(found) \ runs[s].todo ELSE {})
  BY DEF Stored, Holding
<1>3. u.results = IF at >= 3 THEN ResultsOf(s, found) ELSE {}
  <2>1. CASE at = 3
    BY <1>1, <1>2, <2>1 DEF SavedResults
  <2>2. CASE at # 3
    BY <1>0, <1>1, <1>2, <2>2
  <2> QED  BY <2>1, <2>2
<1>4. u.findings = IF at >= 4 THEN found ELSE IF at = 3 THEN FromRules(found) ELSE {}
  <2>1. FromRules(found) \cup FromAI(found) = found
    BY DEF FromRules, FromAI
  <2>2. CASE at = 3
    BY <1>1, <1>2, <2>2
  <2>3. CASE at = 4
    BY <1>1, <1>2, <2>1, <2>3
  <2>4. CASE at \notin {3, 4}
    BY <1>0, <1>1, <1>2, <2>4
  <2> QED  BY <2>2, <2>3, <2>4
<1>5. \A f \in Flags : u.explanations[f] # NoRecord
         <=> f \in (IF at = 6 THEN FlagsOf(found) \ (runs[s].todo \ {NextFlag(s)})
                    ELSE IF at = 7 THEN FlagsOf(found) \ runs[s].todo ELSE {})
  <2>1. CASE at = 6
    <3>1. NextFlag(s) \in runs[s].todo /\ NextFlag(s) \in FlagsOf(found)
      BY <2>1 DEF Provided, NextFlag, First
    <3>2. Refs(found, NextFlag(s)) # NoRecord
      BY <1>0, RefsType, CitesAreRecords
    <3>3. \A f \in Flags : u.explanations[f] =
             IF f = NextFlag(s) THEN Refs(found, NextFlag(s)) ELSE t.explanations[f]
      BY <1>1, <2>1 DEF Table
    <3> QED  BY <1>2, <2>1, <3>1, <3>2, <3>3
  <2>2. CASE at # 6
    BY <1>0, <1>1, <1>2, <2>2
  <2> QED  BY <2>1, <2>2
<1> QED  BY <1>3, <1>4, <1>5 DEF StoredNow, Holding

\* What a unit of a run that nothing disturbs leaves behind.
LEMMA WritingProgress ==
    ASSUME NEW s \in Submissions, IInv, Active(s), UnitActs(s), Provided(s, runs[s])
    PROVE  /\ s \in tables'.documents /\ tables'.submissions[s] # NoRecord
           /\ runs[s].at >= 2 => s \in tables'.evidence
           /\ \A x \in Submissions : tables'.submissions[x] = "FAILED" =>
                                        tables.submissions[x] = "FAILED"
           /\ Stored(tables, s, runs[s]) => StoredNow(tables', s, runs[s])
<1> DEFINE u == Saved(tables, s)
<1>0. /\ runs[s] \in Run /\ tables \in Table /\ runs[s].at \in 1 .. 7
      /\ RunOK(runs[s], s) /\ runs[s].phase # "between"
  BY DEF UnitActs, IInv, TypesOK, Run, OKInv
<1>1. ASSUME NEW t \in Table, NEW v, v = Logged(t, s)
      PROVE  /\ v.submissions = t.submissions /\ v.documents = t.documents
             /\ v.evidence = t.evidence /\ v.results = t.results
             /\ v.findings = t.findings /\ v.explanations = t.explanations
  <2> HIDE DEF u
  <2>1. runs[s] \in Run
    BY <1>0
  <2> QED  BY <1>1, <2>1, LoggedProgress
<1>2. CASE runs[s].phase \in {"begun", "stored"}
             /\ tables' \in {Saved(tables, s), Logged(Saved(tables, s), s)}
  <2>1. /\ u.evidence = IF runs[s].at = 2 THEN tables.evidence \cup {s} ELSE tables.evidence
        /\ u.submissions = IF runs[s].at = 1 THEN [tables.submissions EXCEPT ![s] = "OPEN"]
                           ELSE IF runs[s].at = 7
                           THEN [tables.submissions EXCEPT ![s] = "COMPLETE"]
                           ELSE tables.submissions
        /\ u.documents = IF runs[s].at = 1 THEN tables.documents \cup {s}
                                           ELSE tables.documents
        /\ u \in Table
    BY <1>0, SavedProgress
  <2>2. Stored(tables, s, runs[s]) => StoredNow(u, s, runs[s])
    BY <1>0, SavedNow
  <2>3. tables' \in {u, Logged(u, s)}
    BY <1>2
  <2> HIDE DEF u
  <2>4. /\ tables'.submissions = u.submissions /\ tables'.documents = u.documents
        /\ tables'.evidence = u.evidence /\ tables'.results = u.results
        /\ tables'.findings = u.findings /\ tables'.explanations = u.explanations
    BY <1>1, <2>1, <2>3
  <2>5. Stored(tables, s, runs[s]) => StoredNow(tables', s, runs[s])
    BY <2>2, <2>4 DEF StoredNow, Holding
  <2>6. s \in tables'.documents /\ tables'.submissions[s] # NoRecord
    BY <1>0, <2>1, <2>4, StoreAssumption DEF Provided, Table
  <2>7. runs[s].at >= 2 => s \in tables'.evidence
    BY <1>0, <2>1, <2>4 DEF Provided
  <2>8. \A x \in Submissions : tables'.submissions[x] = "FAILED" =>
                                  tables.submissions[x] = "FAILED"
    BY <1>0, <2>1, <2>4 DEF Table
  <2> QED  BY <2>5, <2>6, <2>7, <2>8
<1>3. CASE runs[s].phase = "saved" /\ tables' = Logged(tables, s)
  <2>1. /\ tables'.submissions = tables.submissions /\ tables'.documents = tables.documents
        /\ tables'.evidence = tables.evidence /\ tables'.results = tables.results
        /\ tables'.findings = tables.findings /\ tables'.explanations = tables.explanations
    BY <1>0, <1>1, <1>3
  <2>2. runs[s].at \in {1, 5}
    BY <1>0, <1>3 DEF RunOK
  <2>3. Stored(tables, s, runs[s]) => StoredNow(tables', s, runs[s])
    BY <2>1, <2>2 DEF Stored, StoredNow, Holding
  <2> QED  BY <1>3, <2>1, <2>2, <2>3 DEF Provided
<1> QED  BY <1>2, <1>3 DEF UnitActs

LEMMA WritingCalm ==
    ASSUME NEW s \in Submissions, IInv, CalmInv,
           SaveRows(s) \/ AddEvents(s) \/ CommitTransaction(s)
    PROVE  CalmInv'
<1>1. /\ ActsFor(s) /\ Active(s) /\ UnitActs(s) /\ runs[s] \in Run
      /\ UNCHANGED raised /\ TypesOK'
  BY WritingActs DEF UnitActs
<1> SUFFICES ASSUME Lone, raised = 0
             PROVE  /\ \A x \in Submissions : tables'.submissions[x] # "FAILED"
                    /\ Active(s)' => Provided(s, runs[s])'
                    /\ Mine(s)'
                    /\ Active(s)' \/ answers'[s] # NoRecord
  BY <1>1, CalmStep DEF CalmInv
<1> DEFINE found == runs[s].found
<1>2. /\ Provided(s, runs[s]) /\ Mine(s) /\ answers[s] = NoRecord
      /\ runs[s].at \in 1 .. 7 /\ runs[s].phase \notin {"failing", "between"}
      /\ Written(tables, s, runs[s])
  BY <1>1 DEF CalmInv, IInv, GoodInv, Isolated, Lone, RunGood, Run, UnitActs
<1>3. /\ s \in tables'.documents /\ tables'.submissions[s] # NoRecord
      /\ runs[s].at >= 2 => s \in tables'.evidence
      /\ \A x \in Submissions : tables'.submissions[x] # "FAILED"
      /\ Stored(tables, s, runs[s]) => StoredNow(tables', s, runs[s])
  BY <1>1, <1>2, WritingProgress DEF CalmInv
<1>4. \A x \in Submissions \ {s} : answers'[x] = answers[x]
  BY <1>1 DEF UnitActs
<1>5. CASE /\ runs[s].at \in {1, 5} /\ answers' = answers
           /\ runs'[s] = [runs[s] EXCEPT !.phase = "saved"]
  <2>1. /\ runs'[s].at = runs[s].at /\ runs'[s].phase = "saved"
        /\ runs'[s].found = runs[s].found /\ runs'[s].todo = runs[s].todo
        /\ runs'[s] \in Run
    BY <1>1, <1>5 DEF Run, Phase
  <2>2. Active(s)'
    BY <2>1, StoreAssumption DEF Active
  <2>3. Provided(s, runs[s])'
    BY <1>2, <1>3, <1>5, <2>1 DEF Provided
  <2>4. Stored(tables, s, runs[s]) => Stored(tables, s, runs[s])'
    BY <1>3, <1>5, <2>1 DEF Stored, StoredNow, Holding
  <2>5. Mine(s)'
    BY <1>1, <1>2, <1>4, <1>5, <2>2, <2>4, MineStep
  <2> QED  BY <1>3, <2>2, <2>3, <2>5
<1>6. CASE runs[s].at = 7 /\ runs'[s] = NoRecord /\ answers'[s] = AnswerOf(s)
  <2>1. /\ answers'[s].results = ResultsOf(s, found)
        /\ answers'[s].findings = found
        /\ answers'[s].explained = FlagsOf(found)
    BY <1>6 DEF AnswerOf
  <2>2. ~Active(s)' /\ answers'[s] # NoRecord
    BY <1>1, <1>6, AnswerType, StoreAssumption DEF Active
  <2>3. Stored(tables, s, runs[s]) =>
           Holding(tables, answers[s].results, answers[s].findings, answers[s].explained)'
    <3>1. runs[s].todo = {}
      BY <1>2, <1>6 DEF Written
    <3> QED  BY <1>3, <1>6, <2>1, <3>1 DEF StoredNow, Holding
  <2>4. Mine(s)'
    BY <1>1, <1>2, <1>4, <2>2, <2>3, MineStep
  <2> QED  BY <1>3, <2>2, <2>4
<1>7. CASE /\ runs[s].at # 7 /\ runs'[s] = Advanced(runs[s])
           /\ answers' = answers
  <2>1. /\ runs'[s] \in Run
        /\ runs'[s].phase = "between" /\ runs'[s].found = runs[s].found
        /\ runs'[s].todo = IF runs[s].at = 6 THEN runs[s].todo \ {NextFlag(s)} ELSE runs[s].todo
        /\ runs'[s].at = IF runs[s].at = 6 /\ runs'[s].todo # {} THEN 6 ELSE runs[s].at + 1
    BY <1>1, <1>7, AdvancedFields
  <2>2. Active(s)'
    BY <2>1, StoreAssumption DEF Active
  <2>3. runs[s].at = 5 => runs[s].todo = FlagsOf(found)
    BY <1>2 DEF Written
  <2>4. Provided(s, runs[s])'
    <3>1. runs'[s].at >= 6 => runs'[s].todo \subseteq FlagsOf(runs'[s].found)
      BY <1>2, <1>7, <2>1, <2>3 DEF Provided
    <3>2. runs'[s].at >= 2
      BY <1>2, <1>7, <2>1
    <3>3. runs'[s].at >= 3 => runs[s].at >= 2
      BY <1>2, <1>7, <2>1
    <3> QED  BY <1>3, <2>1, <3>1, <3>2, <3>3 DEF Provided
  <2>5. Stored(tables, s, runs[s]) => Stored(tables, s, runs[s])'
    <3> SUFFICES ASSUME StoredNow(tables', s, runs[s])
                 PROVE  Stored(tables, s, runs[s])'
      BY <1>3
    <3>1. CASE runs[s].at \in 1 .. 4
      <4>1. /\ runs'[s].at = runs[s].at + 1
            /\ runs'[s].at >= 4 <=> runs[s].at >= 3
            /\ runs'[s].at >= 5 <=> runs[s].at >= 4
            /\ runs'[s].at = 4 <=> runs[s].at = 3
            /\ ~(runs'[s].at >= 6) /\ runs[s].at \notin {6, 7}
        BY <2>1, <3>1
      <4> QED  BY <2>1, <4>1 DEF StoredNow, Stored, Holding
    <3>2. CASE runs[s].at = 5
      BY <2>1, <2>3, <3>2 DEF StoredNow, Stored, Holding
    <3>3. CASE runs[s].at = 6
      BY <2>1, <3>3 DEF StoredNow, Stored, Holding
    <3> QED  BY <1>2, <1>7, <3>1, <3>2, <3>3
  <2>6. Mine(s)'
    BY <1>1, <1>2, <1>4, <1>7, <2>2, <2>5, MineStep
  <2> QED  BY <1>3, <2>2, <2>4, <2>6
<1> QED  BY <1>1, <1>5, <1>6, <1>7 DEF UnitActs

\* Where nothing is raised no unit is refused, so nothing fails.
LEMMA AcceptsCalm ==
    ASSUME NEW s \in Submissions, IInv, CalmInv, Lone, raised = 0, Active(s),
           runs[s].phase = IF Unit(s) = "ingest" THEN "stored" ELSE "begun"
    PROVE  Accepts(tables, s)
<1>1. /\ runs[s] \in Run /\ Provided(s, runs[s]) /\ runs[s].at \in 1 .. 7
      /\ runs[s].phase # "failing" => Written(tables, s, runs[s])
  BY DEF IInv, TypesOK, Active, Run, CalmInv, GoodInv, Isolated, Lone, RunGood
<1>2. Unit(s) \in {"ingest", "evidence", "engine", "findings", "flags", "explain", "complete"}
  BY <1>1, UnitAt
<1>3. CASE Unit(s) = "ingest"
  BY <1>1, <1>3, UnitAt DEF Accepts, Provided
<1>4. CASE Unit(s) \in {"evidence", "engine"}
  <2>1. runs[s].at \in {2, 3}
    BY <1>1, <1>4, UnitAt
  <2>2. /\ s \in tables.documents
        /\ runs[s].at = 3 => s \in tables.evidence
    BY <1>1, <2>1 DEF Provided
  <2>3. Unit(s) = "engine" => runs[s].at = 3
    BY <1>1, UnitAt
  <2>4. CASE Unit(s) = "evidence"
    BY <2>2, <2>4 DEF Accepts
  <2>5. CASE Unit(s) = "engine"
    BY <2>2, <2>3, <2>5 DEF Accepts
  <2> QED  BY <1>4, <2>4, <2>5
<1>5. CASE Unit(s) \in {"findings", "flags"}
  <2>1. runs[s].at \in {4, 5}
    BY <1>1, <1>5, UnitAt
  <2>2. tables.submissions[s] # NoRecord
    BY <1>1, <2>1 DEF Provided
  <2> QED  BY <1>5, <2>2 DEF Accepts
<1>6. CASE Unit(s) = "explain"
  <2>1. runs[s].at = 6
    BY <1>1, <1>6, UnitAt
  <2>2. Refs(runs[s].found, NextFlag(s)) \subseteq tables.findings
    BY <1>1, <1>6, <2>1 DEF Written, Refs
  <2> QED  BY <1>6, <2>2 DEF Accepts
<1>7. CASE Unit(s) = "complete"
  BY <1>1, <1>7, UnitAt DEF Accepts, Provided
<1> QED  BY <1>2, <1>3, <1>4, <1>5, <1>6, <1>7

LEMMA FailureCalm ==
    ASSUME NEW s \in Submissions, IInv, Counted, CalmInv, RaisesWhole(s) \/ FailSubmission(s)
    PROVE  CalmInv'
<1>1. ActsFor(s) /\ Active(s)
  BY FailureActs
<1>2. ~(Lone /\ raised' = 0)
  <2> SUFFICES ASSUME Lone, raised' = 0 PROVE FALSE
    OBVIOUS
  <2>1. CASE RaisesWhole(s)
    <3>1. /\ raised = 0
          /\ runs[s].phase = IF Unit(s) = "ingest" THEN "stored" ELSE "begun"
          /\ ~Accepts(tables, s)
      BY <2>1 DEF RaisesWhole, Raise, Counted
    <3> QED  BY <1>1, <3>1, AcceptsCalm
  <2>2. CASE FailSubmission(s)
    <3>1. raised = 0 /\ runs[s].phase = "failing"
      BY <2>2 DEF FailSubmission
    <3> QED  BY <1>1, <3>1 DEF CalmInv, Provided
  <2> QED  BY <2>1, <2>2
<1> QED  BY <1>1, <1>2 DEF CalmInv, Lone, ActsFor

LEMMA PieceCalm ==
    ASSUME NEW s \in Submissions, IInv, BreaksUp(s)
    PROVE  CalmInv'
BY PieceStep DEF Shared, Lone, ActsFor, CalmInv

-------------------------------------------------------------------------------
(* What is read back is what was answered.                                   *)

ReadInv == AgeInv /\ FlagInv /\ Counted /\ CalmInv

LEMMA InitReadInv == Init => ReadInv
<1> SUFFICES ASSUME Init PROVE ReadInv
  OBVIOUS
<1>1. \A s \in Submissions : ~Active(s) /\ answers[s] = NoRecord
  BY DEF Init, Active
<1>2. /\ tables.snapshots = {} /\ tables.audited = {} /\ tables.results = {}
      /\ tables.findings = {}
      /\ \A f \in Flags : tables.explanations[f] = NoRecord
      /\ \A s \in Submissions : tables.submissions[s] # "FAILED"
  BY StoreAssumption DEF Init, EmptyTables
<1>3. AgeInv
  BY <1>1, <1>2 DEF AgeInv, Aged
<1>4. FlagInv
  BY <1>1, <1>2 DEF FlagInv, Latest, AnsweredLast
<1>5. CalmInv
  BY <1>1, <1>2 DEF CalmInv, Mine, Holding
<1>6. Counted
  BY DEF Init, Counted
<1> QED  BY <1>3, <1>4, <1>5, <1>6 DEF ReadInv

LEMMA NextReadInv == IInv /\ ReadInv /\ [Next]_vars => ReadInv'
<1> SUFFICES ASSUME IInv, ReadInv, [Next]_vars PROVE ReadInv'
  OBVIOUS
<1>1. CASE Next
  <2>1. PICK s \in Submissions : Acts(s)
    BY <1>1, NextActs
  <2>2. AgeInv'
    BY <2>1, NextAge DEF ReadInv
  <2>3. FlagInv'
    BY <2>1, NextFlagInv DEF ReadInv
  <2>4. Counted'
    <3>1. raised' \in {raised, raised + 1}
      BY <2>1 DEF Acts, BeginsWhole, RaisesWhole, BreaksUp, ProcessBid, Retry, Begin, CopyOn,
                  StartPut, FinishPut, SaveRows, AddEvents, CommitTransaction, Raise,
                  RestoreOn, FailSubmission
    <3>2. started' \in {started, started + 1}
      BY <2>1 DEF Acts, BeginsWhole, RaisesWhole, BreaksUp, ProcessBid, Retry, MayStart, Begin,
                  CopyOn, StartPut, FinishPut, SaveRows, AddEvents, CommitTransaction, Raise,
                  RestoreOn, FailSubmission
    <3> QED  BY <3>1, <3>2 DEF ReadInv, Counted
  <2>5. CalmInv'
    BY <2>1, StartCalm, BeginCalm, PutCalm, WritingCalm, FailureCalm, PieceCalm DEF ReadInv, Acts
  <2> QED  BY <2>2, <2>3, <2>4, <2>5 DEF ReadInv
<1>2. CASE UNCHANGED vars
  <2>1. AgeInv'
    BY <1>2 DEF ReadInv, AgeInv, Aged, RunAged, Active, vars
  <2>2. FlagInv'
    BY <1>2 DEF ReadInv, FlagInv, Lone, Latest, RunLatest, Unanswered, AnsweredLast,
                Active, vars
  <2>3. Counted'
    BY <1>2 DEF ReadInv, Counted, vars
  <2>4. CalmInv'
    BY <1>2 DEF ReadInv, CalmInv, Lone, Provided, Mine, Stored, Holding, Active, vars
  <2> QED  BY <2>1, <2>2, <2>3, <2>4 DEF ReadInv
<1> QED  BY <1>1, <1>2

LEMMA ReadInvariance == Spec => [](IInv /\ ReadInv)
<1>1. Init => IInv /\ ReadInv
  BY InitIInv, InitReadInv
<1>2. (IInv /\ ReadInv) /\ [Next]_vars => (IInv /\ ReadInv)'
  BY NextIInv, NextReadInv
<1> QED  BY <1>1, <1>2, PTL DEF Spec

\* Every variable keeps its type, with either store and however threads and
\* rollbacks interleave; no snapshot and no audit event is dated in the future.
THEOREM TypeCorrect == Spec => []TypeOK
<1>1. IInv /\ ReadInv => TypeOK
  BY DEF IInv, TypesOK, ReadInv, AgeInv, Aged, Counted, TypeOK
<1> QED  BY <1>1, ReadInvariance, PTL

\* With the memory store and one thread, the submission processed last reads
\* back the flags it was answered, and all of its answer if it is the only run
\* of its bidder.
THEOREM AnswersReadBack == Spec => []ReadBackAgrees
<1>1. IInv /\ ReadInv => ReadBackAgrees
  <2> SUFFICES ASSUME IInv, ReadInv, Lone, NEW s \in Submissions, AnsweredLast(s)
               PROVE  /\ Reconstructed.flags = answers[s].flags
                      /\ OnlyRun(s) =>
                            /\ Reconstructed.results = answers[s].results
                            /\ Reconstructed.findings = answers[s].findings
                            /\ Reconstructed.explained = answers[s].explained
    BY DEF ReadBackAgrees, Lone
  <2> DEFINE last == [flags |-> answers[s].flags, at |-> clock]
  <2>1. /\ last \in tables.snapshots
        /\ \A x, y \in tables.snapshots : x.at = y.at => x = y
        /\ \A x \in tables.snapshots : x.at \in 1 .. clock
        /\ clock \in Nat
    BY DEF ReadInv, FlagInv, Latest, AgeInv, Aged, IInv, TypesOK
  <2>2. \A y \in tables.snapshots : y.at <= last.at
    BY <2>1
  <2>3. \A x \in tables.snapshots :
           (\A y \in tables.snapshots : y.at <= x.at) => x = last
    BY <2>1
  <2>4. Newest(tables) = last
    <3> HIDE DEF last
    <3> QED  BY <2>1, <2>2, <2>3 DEF Newest
  <2>5. Reconstructed.flags = answers[s].flags
    BY <2>4 DEF Reconstructed
  <2>6. ASSUME OnlyRun(s)
        PROVE  /\ Reconstructed.results = answers[s].results
               /\ Reconstructed.findings = answers[s].findings
               /\ Reconstructed.explained = answers[s].explained
    <3>1. /\ raised = 0 /\ answers[s] # NoRecord
          /\ \A x \in Submissions \ {s} : ~Active(x) /\ answers[x] = NoRecord
      BY <2>6 DEF OnlyRun, AnsweredLast
    <3>2. Holding(tables, answers[s].results, answers[s].findings, answers[s].explained)
      BY <3>1 DEF ReadInv, CalmInv, Mine
    <3>3. answers[s].explained \subseteq Flags
      BY <3>1 DEF IInv, TypesOK, Answer
    <3>4. {f \in Flags : tables.explanations[f] # NoRecord} = answers[s].explained
      BY <3>2, <3>3 DEF Holding
    <3> QED  BY <3>2, <3>4 DEF Reconstructed, Holding
  <2> QED  BY <2>5, <2>6
<1> QED  BY <1>1, ReadInvariance, PTL
===============================================================================

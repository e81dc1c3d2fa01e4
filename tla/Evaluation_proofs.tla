--------------------------- MODULE Evaluation_proofs ---------------------------
(***************************************************************************)
(* Proofs about the evaluation service for any archive, any number of      *)
(* Celery workers, requests and deliveries, and every set of faults.       *)
(***************************************************************************)
EXTENDS Evaluation, FiniteSetTheorems, TLAPS

-------------------------------------------------------------------------------
(* The invariant.                                                          *)

Over == {"idle", "over"}

Steps == Over \cup
         {"unzip", "group", "collect", "grouped", "text", "entities", "failing",
          "list", "judge", "replace", "insert"}

Activity ==
    [at : Steps, delivery : 0 .. MaxDeliveries, todo : SUBSET Folders,
     failed : SUBSET FAILURES, goneResults : SUBSET Row, goneScores : SUBSET Row]

Status == {NoRecord, "uploaded", "extracted", "grouped", "text_extracted",
           "COMPLETED", "VERIFIED", "failed", "FAILED"} \cup FAILURES

\* The steps of module 4 that have the list of folders, and those with one of
\* them in hand.
Verifying == {"judge", "replace", "insert"}
Replacing == {"replace", "insert"}

Typed ==
    /\ status \in Status
    /\ deliveries \in 0 .. MaxDeliveries
    /\ folders \subseteq Folders /\ documents \subseteq folders
    /\ results \subseteq Row /\ scores \subseteq results
    /\ proc \in [Processes -> Activity]

\* The rows that are stored, and those a transaction is about to delete although
\* another may have done so before.
Known == results \cup UNION {proc[q].goneResults : q \in Processes}

\* A row names its author and the author's delivery, so a process that has still
\* to judge a folder has left no row of it anywhere: what it inserts is new, and
\* nobody who deletes rows now has it among them.
NotYet(p, r) ==
    (r.by = p /\ r.delivery = proc[p].delivery) =>
        /\ p \in Requests => ~At(p, "idle")
        /\ \/ proc[p].at \in Over \cup {"failing"}
           \/ proc[p].at \in Verifying /\ r.folder \notin proc[p].todo

\* What a process holds, whatever the others do.
ActivityOK(p) ==
    /\ proc[p].at \in Over => Resting(p)
    /\ proc[p].todo \subseteq folders
    /\ proc[p].at \in {"unzip", "group", "collect"} => proc[p].delivery # 0
    /\ proc[p].delivery <= deliveries
    /\ p \in Requests => proc[p].delivery = 0
    /\ proc[p].at \in Replacing => proc[p].todo # {}
    /\ At(p, "insert") => proc[p].goneResults \cap scores \subseteq proc[p].goneScores
    /\ \A r \in proc[p].goneResults :
          proc[p].at \in Replacing /\ r.folder = NextFolder(p)

Judged(f) == \E r \in results : r.folder = f /\ r.verdict \notin FAILURES

\* What a process may rely on that works alone.
AloneOK(p) ==
    /\ proc[p].at \in Replacing => proc[p].goneResults = RowsOf(results, NextFolder(p))
    /\ At(p, "insert") => proc[p].goneScores = RowsOf(scores, NextFolder(p))
    /\ proc[p].at \in Verifying =>
          \A f \in folders \ proc[p].todo :
             \E r \in results :
                /\ r.folder = f
                /\ r.verdict \in FAILURES => r.verdict \in proc[p].failed
    /\ At(p, "group") => status # "VERIFIED"
    /\ (proc[p].at \in Verifying \cup {"list"} /\ status = "VERIFIED") => folders = {}

TablesOK ==
    /\ \A r, s \in results : r.folder = s.folder => r = s
    /\ scores = {r \in results : r.verdict = "VERIFIED"}
    /\ status = "VERIFIED" => \A f \in folders : Judged(f)

OneWorks == \A p, q \in Processes : ~Resting(p) /\ ~Resting(q) => p = q

Alone == OneWorks /\ TablesOK /\ \A p \in Processes : AloneOK(p)

IInv ==
    /\ Typed
    /\ \A r \in Known : r.delivery <= deliveries
    /\ \A p \in Processes : ActivityOK(p) /\ \A r \in Known : NotYet(p, r)
    /\ ~overlap => Alone

-------------------------------------------------------------------------------
(* Processes at rest.                                                      *)

LEMMA Rested ==
    ASSUME NEW p \in Processes
    PROVE  /\ Idle \in Activity /\ Rest(p) \in Activity
           /\ \A a \in {Idle, Rest(p)} :
                 /\ a.at \in Over /\ a.delivery = 0 /\ a.todo = {}
                 /\ a.goneResults = {} /\ a.goneScores = {}
           /\ Rest(p).at = "idle" => p \in Workers
<1>1. 0 \in 0 .. MaxDeliveries
  BY EvaluationAssumption
<1>2. /\ Idle \in Activity /\ Idle.at = "idle" /\ Idle.delivery = 0 /\ Idle.todo = {}
      /\ Idle.goneResults = {} /\ Idle.goneScores = {}
  BY <1>1 DEF Idle, Activity, Steps, Over
<1>3. PICK a : a = [Idle EXCEPT !.at = "over"]
  OBVIOUS
<1>4. /\ a \in Activity /\ a.at = "over" /\ a.delivery = 0 /\ a.todo = {}
      /\ a.goneResults = {} /\ a.goneScores = {}
  BY <1>1, <1>3 DEF Idle, Activity, Steps, Over
<1>5. Rest(p) = IF p \in Workers THEN Idle ELSE a
  BY <1>3 DEF Rest
<1> QED  BY <1>2, <1>4, <1>5 DEF Over

LEMMA InitIInv == Init => IInv
<1> SUFFICES ASSUME Init PROVE IInv
  OBVIOUS
<1>1. ASSUME NEW p \in Processes
      PROVE  /\ proc[p] = Idle /\ Idle \in Activity /\ Idle.at = "idle"
             /\ Idle.todo = {} /\ Idle.goneResults = {} /\ Idle.delivery = 0
             /\ Resting(p)
  BY Rested DEF Init, Resting, Idle
<1>2. Known = {}
  BY <1>1 DEF Known, Init
<1>3. Typed
  <2>1. 0 \in 0 .. MaxDeliveries
    BY EvaluationAssumption
  <2> QED  BY <1>1, <2>1 DEF Init, Typed, Status
<1>4. Alone
  BY <1>1 DEF Init, Alone, OneWorks, TablesOK, AloneOK, At, Verifying, Replacing
<1>5. \A p \in Processes : ActivityOK(p)
  BY <1>1 DEF ActivityOK, Replacing, At, Init
<1> QED  BY <1>2, <1>3, <1>4, <1>5 DEF IInv

-------------------------------------------------------------------------------
(* What a step of one process asks for.                                    *)

\* Whoever works alone, or starts to, finds the others at rest.
LEMMA OthersRest ==
    ASSUME IInv, ~overlap, NEW p \in Processes,
           proc[p].at \notin Over \/ MayStart(p)
    PROVE  \A q \in Processes \ {p} : Resting(q)
<1>1. CASE MayStart(p)
  BY <1>1 DEF MayStart
<1>2. CASE proc[p].at \notin Over
  <2>1. ~Resting(p)
    BY <1>2, Rested DEF Resting
  <2> QED  BY <2>1 DEF IInv, Alone, OneWorks
<1> QED  BY <1>1, <1>2

LEMMA AloneAgain ==
    ASSUME IInv, ~overlap, NEW p \in Processes, NEW a \in Activity, Becomes(p, a),
           \A q \in Processes \ {p} : Resting(q),
           TablesOK', AloneOK(p)'
    PROVE  Alone'
<1>1. \A q \in Processes \ {p} : proc'[q] = proc[q]
  BY DEF Becomes, IInv, Typed
<1>2. OneWorks'
  BY <1>1 DEF OneWorks, Resting
<1>3. ASSUME NEW q \in Processes \ {p} PROVE AloneOK(q)'
  <2>1. proc'[q].at \in Over
    BY <1>1, Rested DEF Resting
  <2> QED  BY <2>1 DEF AloneOK, Over, Verifying, Replacing, At
<1> QED  BY <1>2, <1>3 DEF Alone

\* A step of p that leaves the two tables of verdicts alone.
LEMMA Moves ==
    ASSUME IInv, NEW p \in Processes, NEW a \in Activity, Becomes(p, a),
           UNCHANGED <<overlap, results, scores>>,
           status' \in Status, deliveries' \in 0 .. MaxDeliveries,
           deliveries <= deliveries',
           folders \subseteq folders', folders' \subseteq Folders,
           documents' \subseteq folders',
           a.goneResults \subseteq Known,
           ActivityOK(p)', \A r \in Known : NotYet(p, r)',
           ~overlap => Alone'
    PROVE  IInv'
<1>1. /\ proc' \in [Processes -> Activity] /\ proc'[p] = a
      /\ \A q \in Processes \ {p} : proc'[q] = proc[q]
  BY DEF Becomes, IInv, Typed
<1>2. Typed'
  BY <1>1 DEF IInv, Typed
<1>3. \A r \in Known' : r \in Known
  BY <1>1 DEF Known
<1>4. \A r \in Known' : r.delivery <= deliveries'
  <2>1. ASSUME NEW r \in Known PROVE r.delivery \in Int /\ r.delivery <= deliveries
    <3>1. r \in Row
      BY DEF Known, IInv, Typed, Activity
    <3> QED  BY <3>1 DEF IInv, Row
  <2>2. deliveries \in Int /\ deliveries' \in Int
    BY DEF IInv, Typed
  <2> QED  BY <1>3, <2>1, <2>2
<1>5. ASSUME NEW q \in Processes \ {p}
      PROVE  ActivityOK(q)' /\ \A r \in Known' : NotYet(q, r)'
  <2>1. ActivityOK(q) /\ \A r \in Known : NotYet(q, r)
    BY DEF IInv
  <2>2. proc'[q].delivery <= deliveries'
    <3>1. proc[q].delivery \in Int /\ proc[q].delivery <= deliveries
      BY <2>1 DEF ActivityOK, IInv, Typed, Activity
    <3>2. deliveries \in Int /\ deliveries' \in Int
      BY DEF IInv, Typed
    <3> QED  BY <1>1, <3>1, <3>2
  <2>3. ActivityOK(q)'
    BY <1>1, <2>1, <2>2 DEF ActivityOK, Resting, At, NextFolder
  <2> QED  BY <1>1, <1>3, <2>1, <2>3 DEF NotYet, At
<1> QED  BY <1>2, <1>3, <1>4, <1>5 DEF IInv

\* The next step of a task or a request outside the two tables.
LEMMA Plain ==
    ASSUME IInv, NEW p \in Processes, NEW a \in Activity, Becomes(p, a),
           UNCHANGED <<overlap, results, scores, deliveries>>,
           status' \in Status,
           folders \subseteq folders', folders' \subseteq Folders,
           documents' \subseteq folders',
           proc[p].at \notin Over,
           a.goneResults = {}, a.todo \subseteq folders', a.at \notin Replacing,
           a.at \in Over => a = Rest(p),
           a.at \notin Over => a.delivery = proc[p].delivery,
           a.at \notin Over \cup {"failing"} =>
               proc[p].at \notin Verifying \cup {"failing"},
           a.at \in {"unzip", "group", "collect"} => proc[p].at \in {"unzip", "group"},
           ~overlap => TablesOK' /\ AloneOK(p)'
    PROVE  IInv'
<1>1. proc'[p] = a
  BY DEF Becomes, IInv, Typed
<1>2. ActivityOK(p)'
  <2>1. ActivityOK(p)
    BY DEF IInv
  <2>2. (p \in Requests => a.delivery = 0) /\ a.delivery <= deliveries'
    <3>1. deliveries \in Nat
      BY EvaluationAssumption DEF IInv, Typed
    <3> QED  BY <2>1, <3>1, Rested DEF ActivityOK
  <2>3. a.at \in {"unzip", "group", "collect"} => a.delivery # 0
    BY <2>1 DEF ActivityOK, Over
  <2>4. a.at \in Over => Resting(p)'
    BY <1>1 DEF Resting
  <2> QED  BY <1>1, <2>2, <2>3, <2>4 DEF ActivityOK, At, Replacing
<1>3. ASSUME NEW r \in Known PROVE NotYet(p, r)'
  <2>1. NotYet(p, r)
    BY DEF IInv
  <2>2. CASE a.at \in Over
    BY <1>1, <2>2, Rested, EvaluationAssumption DEF NotYet, At
  <2>3. CASE a.at \notin Over
    BY <1>1, <2>1, <2>3 DEF NotYet, At, Over, Verifying
  <2> QED  BY <2>2, <2>3
<1>4. ~overlap => Alone'
  BY OthersRest, AloneAgain
<1>5. deliveries <= deliveries' /\ deliveries' \in 0 .. MaxDeliveries
  BY DEF IInv, Typed
<1> QED  BY <1>2, <1>3, <1>4, <1>5, Moves

\* The fields of a process that goes to another step.
LEMMA GoesFacts ==
    ASSUME IInv, NEW p \in Processes, NEW step \in Steps, Goes(p, step)
    PROVE  \E a \in Activity :
              /\ Becomes(p, a) /\ proc'[p] = a /\ a.at = step
              /\ a.delivery = proc[p].delivery
              /\ a.todo = proc[p].todo /\ a.goneResults = proc[p].goneResults
<1>1. proc[p] \in Activity
  BY DEF IInv, Typed
<1>2. PICK a : a = [proc[p] EXCEPT !.at = step]
  OBVIOUS
<1>3. /\ a \in Activity /\ a.at = step /\ a.delivery = proc[p].delivery
      /\ a.todo = proc[p].todo /\ a.goneResults = proc[p].goneResults
  BY <1>1, <1>2 DEF Activity
<1>4. Becomes(p, a) /\ proc'[p] = a
  BY <1>2 DEF Goes, Becomes, IInv, Typed
<1> QED  BY <1>3, <1>4

\* The verdicts stay as they are when neither rows nor status change.
LEMMA SameTables ==
    ASSUME TablesOK, UNCHANGED <<results, scores>>,
           status' # "VERIFIED" \/ (status' = status /\ folders' = folders)
    PROVE  TablesOK'
BY DEF TablesOK, Judged

\* A process goes on with its task outside the tables of verdicts.
LEMMA GoesOn ==
    ASSUME IInv, NEW p \in Processes, NEW step \in Steps \ (Over \cup Verifying),
           Goes(p, step), UNCHANGED <<overlap, results, scores, deliveries>>,
           status' \in Status,
           folders \subseteq folders', folders' \subseteq Folders,
           documents' \subseteq folders',
           proc[p].at \notin Over,
           step # "failing" => proc[p].at \notin Verifying \cup {"failing"},
           proc[p].at \notin Replacing,
           step \in {"unzip", "group", "collect"} => proc[p].at \in {"unzip", "group"},
           status' # "VERIFIED" \/ (status' = status /\ folders' = folders),
           step = "group" => status' # "VERIFIED",
           step = "list" => status' # "VERIFIED"
    PROVE  IInv'
<1>1. PICK a \in Activity :
         /\ Becomes(p, a) /\ proc'[p] = a /\ a.at = step
         /\ a.delivery = proc[p].delivery
         /\ a.todo = proc[p].todo /\ a.goneResults = proc[p].goneResults
  BY GoesFacts
<1>2. a.goneResults = {} /\ a.todo \subseteq folders'
  BY <1>1 DEF IInv, ActivityOK
<1>3. ~overlap => TablesOK'
  BY SameTables DEF IInv, Alone
<1>4. AloneOK(p)'
  BY <1>1 DEF AloneOK, Verifying, Replacing, At
<1>5. a.at \notin Over /\ a.at \notin Verifying /\ a.at \notin Replacing
  BY <1>1 DEF Verifying, Replacing
<1> QED  BY <1>1, <1>2, <1>3, <1>4, <1>5, Plain

\* A process lays its task or request down.
LEMMA Leaves ==
    ASSUME IInv, NEW p \in Processes, Becomes(p, Rest(p)), proc[p].at \notin Over,
           UNCHANGED <<overlap, results, scores, deliveries, folders, documents>>,
           status' \in Status, ~overlap => TablesOK'
    PROVE  IInv'
<1>1. PICK a \in Activity : a = Rest(p)
  BY Rested
<1>2. a.goneResults = {} /\ a.todo = {} /\ a.at \in Over
  BY <1>1, Rested
<1>3. proc'[p] = a
  BY <1>1 DEF Becomes, IInv, Typed
<1>4. AloneOK(p)'
  BY <1>2, <1>3 DEF AloneOK, Verifying, Replacing, At, Over
<1>5. /\ folders \subseteq folders' /\ folders' \subseteq Folders
      /\ documents' \subseteq folders' /\ a.todo \subseteq folders'
  BY <1>2 DEF IInv, Typed
<1>6. a.at \notin Replacing /\ a.at \notin {"unzip", "group", "collect"}
  BY <1>2 DEF Over, Replacing
<1> QED  BY <1>1, <1>2, <1>4, <1>5, <1>6, Plain

-------------------------------------------------------------------------------
(* The task up to module 4.                                                *)

LEMMA StepsAre == \A step \in {"group", "collect", "grouped", "text", "entities",
                               "failing", "list"} :
                     step \in Steps \ (Over \cup Verifying)
BY DEF Steps, Over, Verifying

LEMMA UnzipIInv ==
    ASSUME IInv, NEW w \in Processes, Unzip(w)
    PROVE  IInv'
<1>1. /\ Goes(w, "group") /\ status' = "extracted" /\ proc[w].at = "unzip"
      /\ UNCHANGED <<overlap, results, scores, deliveries, folders, documents>>
  BY DEF Unzip, world, broker, tables, At
<1>2. status' \in Status /\ folders \subseteq Folders /\ documents \subseteq folders
  BY <1>1 DEF Status, IInv, Typed
<1> QED  BY <1>1, <1>2, StepsAre, GoesOn DEF Over, Verifying, Replacing

LEMMA GroupFoldersIInv ==
    ASSUME IInv, NEW w \in Processes, GroupFolders(w)
    PROVE  IInv'
<1>1. /\ Goes(w, "collect") /\ proc[w].at = "group"
      /\ UNCHANGED <<overlap, results, scores, deliveries, documents, status>>
      /\ folders' = folders \cup
            {[delivery |-> proc[w].delivery, name |-> n] : n \in Names}
  BY DEF GroupFolders, world, broker, At
<1>2. proc[w].delivery \in 1 .. MaxDeliveries
  BY <1>1, EvaluationAssumption DEF IInv, Typed, ActivityOK, Activity
<1>3. folders \subseteq folders' /\ folders' \subseteq Folders /\ documents' \subseteq folders'
  BY <1>1, <1>2 DEF Folders, IInv, Typed
<1>4. status \in Status
  BY DEF IInv, Typed
<1>5. CASE overlap
  <2>1. PICK a \in Activity :
           /\ Becomes(w, a) /\ proc'[w] = a /\ a.at = "collect"
           /\ a.delivery = proc[w].delivery
           /\ a.todo = proc[w].todo /\ a.goneResults = proc[w].goneResults
    BY <1>1, StepsAre, GoesFacts
  <2>2. a.goneResults = {} /\ a.todo \subseteq folders'
    BY <1>1, <1>3, <2>1 DEF IInv, ActivityOK, Replacing
  <2> QED  BY <1>1, <1>3, <1>4, <1>5, <2>1, <2>2, Plain DEF Over, Verifying, Replacing
<1>6. CASE ~overlap
  <2>1. status # "VERIFIED"
    BY <1>1, <1>6 DEF IInv, Alone, AloneOK, At
  <2> QED  BY <1>1, <1>3, <1>4, <2>1, StepsAre, GoesOn DEF Over, Verifying, Replacing
<1> QED  BY <1>5, <1>6

LEMMA CollectDocumentsIInv ==
    ASSUME IInv, NEW w \in Processes, CollectDocuments(w)
    PROVE  IInv'
<1>1. /\ Goes(w, "grouped") /\ proc[w].at = "collect"
      /\ UNCHANGED <<overlap, results, scores, deliveries, folders, status>>
      /\ documents' = documents \cup
            {f \in folders : f.delivery = proc[w].delivery /\ f.name \notin Empty}
  BY DEF CollectDocuments, world, broker, At
<1>2. folders \subseteq Folders /\ documents' \subseteq folders' /\ status \in Status
  BY <1>1 DEF IInv, Typed
<1> QED  BY <1>1, <1>2, StepsAre, GoesOn DEF Over, Verifying, Replacing

LEMMA SetGroupedIInv ==
    ASSUME IInv, NEW w \in Processes, SetGrouped(w)
    PROVE  IInv'
<1>1. /\ Goes(w, "text") /\ status' = "grouped" /\ proc[w].at = "grouped"
      /\ UNCHANGED <<overlap, results, scores, deliveries, folders, documents>>
  BY DEF SetGrouped, world, broker, tables, At
<1>2. status' \in Status /\ folders \subseteq Folders /\ documents \subseteq folders
  BY <1>1 DEF Status, IInv, Typed
<1> QED  BY <1>1, <1>2, StepsAre, GoesOn DEF Over, Verifying, Replacing

LEMMA ExtractTextIInv ==
    ASSUME IInv, NEW w \in Processes, ExtractText(w)
    PROVE  IInv'
<1>1. /\ Goes(w, "entities") /\ status' = "text_extracted" /\ proc[w].at = "text"
      /\ UNCHANGED <<overlap, results, scores, deliveries, folders, documents>>
  BY DEF ExtractText, world, broker, tables, At
<1>2. status' \in Status /\ folders \subseteq Folders /\ documents \subseteq folders
  BY <1>1 DEF Status, IInv, Typed
<1> QED  BY <1>1, <1>2, StepsAre, GoesOn DEF Over, Verifying, Replacing

\* The entities are stored, or their failure is, for the task or for a request.
LEMMA EntitiesIInv ==
    ASSUME IInv, NEW p \in Processes, ExtractEntities(p) \/ FailEntities(p)
    PROVE  IInv'
<1>1. /\ proc[p].at = "entities"
      /\ status' \in {"COMPLETED", "FAILED"}
      /\ Goes(p, "list") \/ Goes(p, "failing") \/ Becomes(p, Rest(p))
      /\ UNCHANGED <<overlap, results, scores, deliveries, folders, documents>>
  BY DEF ExtractEntities, FailEntities, world, broker, tables, At
<1>2. status' \in Status /\ folders \subseteq Folders /\ documents \subseteq folders
  BY <1>1 DEF Status, IInv, Typed
<1>3. ~overlap => TablesOK'
  BY <1>1, SameTables DEF IInv, Alone
<1>4. proc[p].at \notin Over \cup Verifying \cup Replacing \cup {"failing"}
  BY <1>1 DEF Over, Verifying, Replacing
<1> QED  BY <1>1, <1>2, <1>3, <1>4, StepsAre, GoesOn, Leaves

-------------------------------------------------------------------------------
(* Module 4.                                                               *)

LEMMA ListFoldersIInv ==
    ASSUME IInv, NEW p \in Processes, ListFolders(p)
    PROVE  IInv'
<1>1. /\ proc[p].at = "list"
      /\ UNCHANGED <<overlap, status, results, scores, deliveries, folders, documents>>
  BY DEF ListFolders, world, broker, tables, At
<1>2. proc[p] \in Activity /\ folders \subseteq Folders /\ documents \subseteq folders
  BY DEF IInv, Typed
<1>3. PICK a : a = [proc[p] EXCEPT !.at = "judge", !.todo = folders]
  OBVIOUS
<1>4. /\ a \in Activity /\ a.at = "judge" /\ a.todo = folders
      /\ a.delivery = proc[p].delivery /\ a.goneResults = proc[p].goneResults
  BY <1>2, <1>3 DEF Activity, Steps
<1>5. Becomes(p, a) /\ proc'[p] = a
  BY <1>3 DEF ListFolders, Becomes, IInv, Typed
<1>6. a.goneResults = {}
  BY <1>1, <1>4 DEF IInv, ActivityOK, Replacing
<1>7. ASSUME ~overlap PROVE TablesOK' /\ AloneOK(p)'
  <2>1. TablesOK /\ AloneOK(p)
    BY <1>7 DEF IInv, Alone
  <2>2. TablesOK'
    BY <1>1, <2>1, SameTables
  <2>3. AloneOK(p)'
    BY <1>1, <1>4, <1>5, <2>1 DEF AloneOK, Verifying, Replacing, At
  <2> QED  BY <2>2, <2>3
<1>8. /\ a.at \notin Over /\ a.at \notin Replacing
      /\ a.at \notin {"unzip", "group", "collect"}
      /\ proc[p].at \notin Over /\ proc[p].at \notin Verifying \cup {"failing"}
  BY <1>1, <1>4 DEF Over, Verifying, Replacing
<1>9. /\ folders \subseteq folders' /\ folders' \subseteq Folders
      /\ documents' \subseteq folders' /\ status' \in Status
  BY <1>1, <1>2 DEF IInv, Typed
<1> QED  BY <1>1, <1>4, <1>5, <1>6, <1>7, <1>8, <1>9, Plain

\* Between two folders, or with one of them in hand, a process takes up another
\* set of rows to delete.
LEMMA TakesUp ==
    ASSUME IInv, NEW p \in Processes, NEW a \in Activity, Becomes(p, a),
           UNCHANGED <<overlap, status, results, scores, deliveries, folders, documents>>,
           proc[p].at \in Verifying, a.at \in Replacing,
           a.delivery = proc[p].delivery, a.todo = proc[p].todo, a.todo # {},
           a.goneResults \subseteq Known,
           \A r \in a.goneResults : r.folder = NextFolder(p),
           a.at = "insert" => a.goneResults \cap scores \subseteq a.goneScores,
           ~overlap => /\ a.goneResults = RowsOf(results, NextFolder(p))
                       /\ a.at = "insert" => a.goneScores = RowsOf(scores, NextFolder(p))
                       /\ a.failed = proc[p].failed
    PROVE  IInv'
<1>1. proc'[p] = a /\ NextFolder(p)' = NextFolder(p)
  BY DEF Becomes, IInv, Typed, NextFolder
<1>2. ActivityOK(p)'
  <2>1. ActivityOK(p)
    BY DEF IInv
  <2> QED  BY <1>1, <2>1 DEF ActivityOK, At, Replacing, Over
<1>3. ASSUME NEW r \in Known PROVE NotYet(p, r)'
  <2>1. NotYet(p, r)
    BY DEF IInv
  <2> QED  BY <1>1, <2>1 DEF NotYet, At, Over, Verifying, Replacing
<1>4. ASSUME ~overlap PROVE Alone'
  <2>1. TablesOK /\ AloneOK(p)
    BY <1>4 DEF IInv, Alone
  <2>2. TablesOK'
    BY <2>1, SameTables
  <2>3. AloneOK(p)'
    BY <1>1, <1>4, <2>1 DEF AloneOK, Verifying, Replacing, At, RowsOf
  <2>4. proc[p].at \notin Over
    BY DEF Over, Verifying
  <2> QED  BY <1>4, <2>2, <2>3, <2>4, OthersRest, AloneAgain
<1>5. /\ folders \subseteq folders' /\ folders' \subseteq Folders
      /\ documents' \subseteq folders' /\ status' \in Status
      /\ deliveries <= deliveries' /\ deliveries' \in 0 .. MaxDeliveries
  BY DEF IInv, Typed
<1> QED  BY <1>2, <1>3, <1>4, <1>5, Moves

LEMMA DeleteResultsIInv ==
    ASSUME IInv, NEW p \in Processes, DeleteResults(p)
    PROVE  IInv'
<1>1. /\ proc[p].at = "judge" /\ proc[p].todo # {}
      /\ UNCHANGED <<overlap, status, results, scores, deliveries, folders, documents>>
  BY DEF DeleteResults, world, broker, tables, At
<1>2. PICK gone : gone = RowsOf(results, NextFolder(p))
  OBVIOUS
<1>3. /\ gone \subseteq results /\ gone \in SUBSET Row
      /\ \A r \in gone : r.folder = NextFolder(p)
  BY <1>2 DEF RowsOf, IInv, Typed
<1>4. PICK a : a = [proc[p] EXCEPT !.at = "replace", !.goneResults = gone]
  OBVIOUS
<1>5. /\ a \in Activity /\ a.at = "replace" /\ a.goneResults = gone
      /\ a.delivery = proc[p].delivery /\ a.todo = proc[p].todo
      /\ a.failed = proc[p].failed
  <2>1. proc[p] \in Activity
    BY DEF IInv, Typed
  <2> QED  BY <1>3, <1>4, <2>1 DEF Activity, Steps
<1>6. Becomes(p, a)
  BY <1>2, <1>4 DEF DeleteResults
<1>7. a.goneResults \subseteq Known
  BY <1>3, <1>5 DEF Known
<1> QED  BY <1>1, <1>2, <1>3, <1>5, <1>6, <1>7, TakesUp DEF Verifying, Replacing

LEMMA DeleteScoresIInv ==
    ASSUME IInv, NEW p \in Processes, DeleteScores(p)
    PROVE  IInv'
<1>1. /\ proc[p].at = "replace"
      /\ UNCHANGED <<overlap, status, results, scores, deliveries, folders, documents>>
  BY DEF DeleteScores, world, broker, tables, At
<1>2. PICK gone : gone = RowsOf(scores, NextFolder(p))
  OBVIOUS
<1>3. gone \in SUBSET Row
  BY <1>2 DEF RowsOf, IInv, Typed
<1>4. PICK a : a = [proc[p] EXCEPT !.at = "insert", !.goneScores = gone]
  OBVIOUS
<1>5. /\ a \in Activity /\ a.at = "insert" /\ a.goneScores = gone
      /\ a.goneResults = proc[p].goneResults
      /\ a.delivery = proc[p].delivery /\ a.todo = proc[p].todo
      /\ a.failed = proc[p].failed
  <2>1. proc[p] \in Activity
    BY DEF IInv, Typed
  <2> QED  BY <1>3, <1>4, <2>1 DEF Activity, Steps
<1>6. Becomes(p, a)
  BY <1>2, <1>4 DEF DeleteScores
<1>7. /\ a.todo # {}
      /\ \A r \in a.goneResults : r.folder = NextFolder(p)
      /\ a.goneResults \subseteq Known
  BY <1>1, <1>5 DEF IInv, ActivityOK, Replacing, Known
<1>8. a.goneResults \cap scores \subseteq a.goneScores
  BY <1>2, <1>5, <1>7 DEF RowsOf
<1>9. ~overlap => a.goneResults = RowsOf(results, NextFolder(p))
  BY <1>1, <1>5 DEF IInv, Alone, AloneOK, Replacing
<1> QED  BY <1>1, <1>2, <1>5, <1>6, <1>7, <1>8, <1>9, TakesUp DEF Verifying, Replacing

\* The rows a process stores for the folder it has in hand are new: no
\* transaction has them among those it deletes.
LEMMA RowIsNew ==
    ASSUME IInv, NEW p \in Processes, At(p, "insert"), NEW row \in Known,
           row.by = p, row.delivery = proc[p].delivery
    PROVE  row.folder \notin proc[p].todo
BY DEF IInv, NotYet, At, Over, Verifying

LEMMA CommitFolderIInv ==
    ASSUME IInv, NEW p \in Processes, CommitFolder(p)
    PROVE  IInv'
<1>1. /\ At(p, "insert") /\ proc[p].at = "insert"
      /\ UNCHANGED <<overlap, status, deliveries, folders, documents>>
  BY DEF CommitFolder, world, broker, At
<1>2. PICK f : f = NextFolder(p)
  OBVIOUS
<1>3. PICK verdict, row, a :
         /\ verdict \in VerdictsOf(f)
         /\ row = [folder |-> f, verdict |-> verdict, by |-> p,
                   delivery |-> proc[p].delivery]
         /\ results' = (results \ proc[p].goneResults) \cup {row}
         /\ scores' = (scores \ proc[p].goneScores)
                         \cup (IF Scored(verdict) THEN {row} ELSE {})
         /\ a = [proc[p] EXCEPT !.at = "judge", !.todo = @ \ {f},
                    !.failed = @ \cup ({verdict} \cap FAILURES),
                    !.goneResults = {}, !.goneScores = {}]
         /\ Becomes(p, a)
  BY <1>2 DEF CommitFolder
<1>4. proc[p] \in Activity /\ ActivityOK(p)
  BY DEF IInv, Typed
<1>5. /\ f \in proc[p].todo /\ f \in folders /\ f \in Folders
      /\ proc[p].delivery \in 0 .. MaxDeliveries
      /\ proc[p].delivery <= deliveries
  <2>1. proc[p].todo # {}
    BY <1>1, <1>4 DEF ActivityOK, Replacing
  <2>2. f \in proc[p].todo
    BY <1>2, <2>1 DEF NextFolder
  <2> QED  BY <1>4, <2>2 DEF ActivityOK, Activity, IInv, Typed
<1>6. /\ row \in Row /\ row.folder = f /\ row.verdict = verdict /\ row.by = p
      /\ row.delivery = proc[p].delivery
      /\ verdict \in Verdicts
  <2>1. verdict \in Verdicts
    BY <1>3 DEF VerdictsOf, Verdicts
  <2> QED  BY <1>3, <1>5, <2>1 DEF Row
<1>7. /\ a \in Activity /\ a.at = "judge" /\ a.todo = proc[p].todo \ {f}
      /\ a.delivery = proc[p].delivery
      /\ a.failed = proc[p].failed \cup ({verdict} \cap FAILURES)
      /\ a.goneResults = {}
  BY <1>3, <1>4 DEF Activity, Steps
<1>8. /\ proc' \in [Processes -> Activity] /\ proc'[p] = a
      /\ \A q \in Processes \ {p} : proc'[q] = proc[q]
  BY <1>3, <1>7 DEF Becomes, IInv, Typed
<1>9. row \notin Known
  BY <1>1, <1>5, <1>6, RowIsNew
<1>10. Typed'
  <2>1. results' \subseteq Row
    BY <1>3, <1>6 DEF IInv, Typed
  <2>2. scores' \subseteq results'
    <3>1. proc[p].goneResults \cap scores \subseteq proc[p].goneScores
      BY <1>1, <1>4 DEF ActivityOK
    <3>2. scores \subseteq results
      BY DEF IInv, Typed
    <3> QED  BY <1>3, <3>1, <3>2
  <2> QED  BY <1>1, <1>8, <2>1, <2>2 DEF IInv, Typed
<1>11. \A r \in Known' : r \in Known \/ r = row
  <2>1. \A q \in Processes : proc'[q].goneResults \subseteq proc[q].goneResults
    BY <1>7, <1>8
  <2>2. \A r \in results' : r \in results \/ r = row
    BY <1>3
  <2> QED  BY <2>1, <2>2 DEF Known
<1>12. \A r \in Known' : r.delivery <= deliveries'
  BY <1>1, <1>5, <1>6, <1>11 DEF IInv
<1>13. ASSUME NEW q \in Processes
       PROVE  ActivityOK(q)' /\ \A r \in Known' : NotYet(q, r)'
  <2>1. ActivityOK(q) /\ \A r \in Known : NotYet(q, r)
    BY DEF IInv
  <2>2. CASE q = p
    <3>1. ActivityOK(q)'
      BY <1>1, <1>4, <1>7, <1>8, <2>2 DEF ActivityOK, At, Over, Replacing
    <3>2. ASSUME NEW r \in Known' PROVE NotYet(q, r)'
      <4>1. (r.by = p /\ r.delivery = proc[p].delivery) => r.folder \notin a.todo
        BY <1>1, <1>6, <1>7, <1>11, RowIsNew
      <4> QED  BY <1>7, <1>8, <2>2, <4>1 DEF NotYet, At, Verifying
    <3> QED  BY <3>1, <3>2
  <2>3. CASE q # p
    <3>1. proc'[q] = proc[q]
      BY <1>8, <2>3
    <3>2. row \notin proc[q].goneResults
      BY <1>9 DEF Known
    <3>3. proc[q].goneResults \cap scores' \subseteq proc[q].goneResults \cap scores
      BY <1>3, <3>2
    <3>4. ActivityOK(q)'
      BY <1>1, <2>1, <3>1, <3>3 DEF ActivityOK, Resting, At, NextFolder
    <3>5. \A r \in Known' : NotYet(q, r)'
      BY <1>6, <1>11, <2>1, <2>3, <3>1 DEF NotYet, At
    <3> QED  BY <3>4, <3>5
  <2> QED  BY <2>2, <2>3
<1>14. ASSUME ~overlap PROVE Alone'
  <2>1. TablesOK /\ AloneOK(p)
    BY <1>14 DEF IInv, Alone
  <2>2. /\ proc[p].goneResults = RowsOf(results, f)
        /\ proc[p].goneScores = RowsOf(scores, f)
        /\ status # "VERIFIED"
    BY <1>1, <1>2, <1>5, <2>1 DEF AloneOK, Replacing, Verifying, At
  <2>3. \A r \in results' : (r = row \/ (r \in results /\ r.folder # f))
    BY <1>3, <2>2 DEF RowsOf
  <2>4. \A r \in results : r.folder # f => r \in results'
    BY <1>3, <2>2 DEF RowsOf
  <2>5. \A r, s \in results' : r.folder = s.folder => r = s
    BY <1>6, <2>1, <2>3 DEF TablesOK
  <2>6. scores' = {r \in results' : r.verdict = "VERIFIED"}
    <3>1. scores = {r \in results : r.verdict = "VERIFIED"}
      BY <2>1 DEF TablesOK
    <3>2. scores' = (scores \ RowsOf(scores, f))
                       \cup (IF verdict = "VERIFIED" THEN {row} ELSE {})
      BY <1>3, <2>2 DEF Scored
    <3>3. results' = (results \ RowsOf(results, f)) \cup {row}
      BY <1>3, <2>2
    <3> QED  BY <1>6, <3>1, <3>2, <3>3 DEF RowsOf
  <2>7. TablesOK'
    BY <1>1, <2>2, <2>5, <2>6 DEF TablesOK
  <2>8. \A g \in folders \ a.todo :
           \E r \in results' :
              /\ r.folder = g
              /\ r.verdict \in FAILURES => r.verdict \in a.failed
    <3> SUFFICES ASSUME NEW g \in folders \ a.todo
                 PROVE  \E r \in results' :
                           /\ r.folder = g
                           /\ r.verdict \in FAILURES => r.verdict \in a.failed
      OBVIOUS
    <3>1. CASE g = f
      <4>1. row \in results' /\ row.folder = g
        BY <1>3, <1>6, <3>1
      <4>2. row.verdict \in FAILURES => row.verdict \in a.failed
        BY <1>6, <1>7
      <4> QED  BY <4>1, <4>2
    <3>2. CASE g # f
      <4>1. g \in folders \ proc[p].todo
        BY <1>7, <3>2
      <4>2. PICK r \in results :
               /\ r.folder = g
               /\ r.verdict \in FAILURES => r.verdict \in proc[p].failed
        BY <1>1, <2>1, <4>1 DEF AloneOK, Verifying
      <4> QED  BY <1>7, <2>4, <3>2, <4>2
    <3> QED  BY <3>1, <3>2
  <2>9. AloneOK(p)'
    BY <1>1, <1>7, <1>8, <2>2, <2>8 DEF AloneOK, Verifying, Replacing, At
  <2>10. proc[p].at \notin Over
    BY <1>1 DEF Over
  <2> QED  BY <1>3, <1>7, <1>14, <2>7, <2>9, <2>10, OthersRest, AloneAgain
<1> QED  BY <1>1, <1>10, <1>12, <1>13, <1>14 DEF IInv

\* The status module 4 ends with says VERIFIED only when nothing failed.
LEMMA StatusFacts ==
    ASSUME NEW failed \in SUBSET FAILURES
    PROVE  /\ StatusOf(failed) \in Status
           /\ StatusOf(failed) = "VERIFIED" => failed = {}
<1>1. CASE "MODULE3_FAILED" \in failed
  BY <1>1 DEF StatusOf, Status, FAILURES
<1>2. CASE failed = {"MODULE4_FAILED"}
  BY <1>2 DEF StatusOf, Status, FAILURES
<1>3. CASE failed = {}
  BY <1>3 DEF StatusOf, Status, FAILURES
<1> QED  BY <1>1, <1>2, <1>3 DEF FAILURES

LEMMA FinishModule4IInv ==
    ASSUME IInv, NEW p \in Processes, FinishModule4(p)
    PROVE  IInv'
<1>1. /\ proc[p].at = "judge" /\ proc[p].todo = {}
      /\ status' = StatusOf(proc[p].failed) /\ Becomes(p, Rest(p))
      /\ UNCHANGED <<overlap, results, scores, deliveries, folders, documents>>
  BY DEF FinishModule4, world, broker, tables, At
<1>2. proc[p].failed \in SUBSET FAILURES
  BY DEF IInv, Typed, Activity
<1>3. status' \in Status /\ (status' = "VERIFIED" => proc[p].failed = {})
  BY <1>1, <1>2, StatusFacts
<1>4. ASSUME ~overlap PROVE TablesOK'
  <2>1. TablesOK /\ AloneOK(p)
    BY <1>4 DEF IInv, Alone
  <2>2. ASSUME status' = "VERIFIED", NEW f \in folders PROVE Judged(f)'
    <3>1. PICK r \in results : /\ r.folder = f
                               /\ r.verdict \in FAILURES => r.verdict \in proc[p].failed
      BY <1>1, <2>1, <2>2 DEF AloneOK, Verifying
    <3> QED  BY <1>1, <1>3, <2>2, <3>1 DEF Judged
  <2> QED  BY <1>1, <2>1, <2>2 DEF TablesOK
<1> QED  BY <1>1, <1>3, <1>4, Leaves DEF Over

-------------------------------------------------------------------------------
(* Tasks and requests start.                                               *)

LEMMA DeliverIInv ==
    ASSUME IInv, NEW w \in Workers, Deliver(w)
    PROVE  IInv'
<1>1. /\ w \in Processes /\ MayStart(w) /\ proc[w].at = "idle"
      /\ deliveries < MaxDeliveries /\ deliveries' = deliveries + 1
      /\ UNCHANGED <<overlap, status, results, scores, folders, documents>>
  BY DEF Deliver, MayStart, At, Processes, world, tables
<1>2. /\ deliveries \in 0 .. MaxDeliveries /\ deliveries' \in 0 .. MaxDeliveries
      /\ deliveries' # 0 /\ deliveries < deliveries'
  BY <1>1, EvaluationAssumption DEF IInv, Typed
<1>3. PICK a : a = [Idle EXCEPT !.at = "unzip", !.delivery = deliveries']
  OBVIOUS
<1>4. /\ a \in Activity /\ a.at = "unzip" /\ a.delivery = deliveries'
      /\ a.todo = {} /\ a.goneResults = {}
  BY <1>2, <1>3 DEF Idle, Activity, Steps
<1>5. Becomes(w, a) /\ proc'[w] = a
  BY <1>1, <1>3 DEF Deliver, Becomes, IInv, Typed
<1>6. ActivityOK(w)'
  BY <1>2, <1>4, <1>5, EvaluationAssumption DEF ActivityOK, At, Over, Replacing
<1>7. ASSUME NEW r \in Known PROVE NotYet(w, r)'
  <2>1. r.delivery \in Int /\ r.delivery <= deliveries
    <3>1. r \in Row
      BY DEF Known, IInv, Typed, Activity
    <3> QED  BY <3>1 DEF IInv, Row
  <2>2. r.delivery # a.delivery
    BY <1>2, <1>4, <2>1
  <2> QED  BY <1>5, <2>2 DEF NotYet
<1>8. ASSUME ~overlap PROVE Alone'
  <2>1. TablesOK'
    BY <1>1, <1>8, SameTables DEF IInv, Alone
  <2>2. AloneOK(w)'
    BY <1>4, <1>5 DEF AloneOK, Verifying, Replacing, At
  <2> QED  BY <1>1, <1>4, <1>5, <1>8, <2>1, <2>2, OthersRest, AloneAgain
<1>9. /\ folders \subseteq folders' /\ folders' \subseteq Folders
      /\ documents' \subseteq folders' /\ status' \in Status
      /\ deliveries <= deliveries' /\ a.goneResults \subseteq Known
  BY <1>1, <1>2, <1>4 DEF IInv, Typed
<1> QED  BY <1>1, <1>2, <1>4, <1>5, <1>6, <1>7, <1>8, <1>9, Moves

LEMMA RequestIInv ==
    ASSUME IInv, NEW q \in Requests, RequestEntities(q) \/ RequestResults(q)
    PROVE  IInv'
<1>1. /\ q \in Processes /\ MayStart(q) /\ proc[q].at = "idle"
      /\ UNCHANGED <<overlap, status, results, scores, deliveries, folders, documents>>
      /\ Goes(q, "entities") \/ (Goes(q, "list") /\ results = {})
  BY DEF RequestEntities, RequestResults, MayStart, At, Processes, world, broker, tables
<1>2. PICK a \in Activity :
         /\ Becomes(q, a) /\ proc'[q] = a
         /\ a.at \in {"entities", "list"} /\ (a.at = "list" => results = {})
         /\ a.delivery = proc[q].delivery
         /\ a.todo = proc[q].todo /\ a.goneResults = proc[q].goneResults
  BY <1>1, StepsAre, GoesFacts
<1>3. a.todo = {} /\ a.goneResults = {} /\ a.delivery = 0
  BY <1>1, <1>2, Rested DEF IInv, ActivityOK, Resting, Over
<1>4. ActivityOK(q)'
  <2>1. 0 <= deliveries'
    BY <1>1, EvaluationAssumption DEF IInv, Typed
  <2> QED  BY <1>2, <1>3, <2>1 DEF ActivityOK, At, Over, Replacing
<1>5. ASSUME NEW r \in Known PROVE NotYet(q, r)'
  <2>1. NotYet(q, r)
    BY <1>1 DEF IInv
  <2>2. ~(r.by = q /\ r.delivery = proc[q].delivery)
    BY <1>1, <2>1 DEF NotYet, At
  <2> QED  BY <1>2, <2>2 DEF NotYet
<1>6. ASSUME ~overlap PROVE Alone'
  <2>1. TablesOK
    BY <1>6 DEF IInv, Alone
  <2>2. TablesOK'
    BY <1>1, <2>1, SameTables
  <2>3. a.at = "list" /\ status = "VERIFIED" => folders = {}
    BY <1>2, <2>1 DEF TablesOK, Judged
  <2>4. AloneOK(q)'
    BY <1>1, <1>2, <2>3 DEF AloneOK, Verifying, Replacing, At
  <2> QED  BY <1>1, <1>2, <1>6, <2>2, <2>4, OthersRest, AloneAgain
<1>7. /\ folders \subseteq folders' /\ folders' \subseteq Folders
      /\ documents' \subseteq folders' /\ status' \in Status
      /\ deliveries <= deliveries' /\ deliveries' \in 0 .. MaxDeliveries
      /\ a.goneResults \subseteq Known
  BY <1>1, <1>3 DEF IInv, Typed
<1> QED  BY <1>1, <1>2, <1>4, <1>5, <1>6, <1>7, Moves

-------------------------------------------------------------------------------
(* Failures.                                                               *)

LEMMA RaiseIInv ==
    ASSUME IInv, NEW w \in Processes, Raise(w)
    PROVE  IInv'
<1>1. /\ proc[w].at \in {"unzip", "group", "collect", "entities"}
      /\ Goes(w, "failing")
      /\ UNCHANGED <<overlap, status, results, scores, deliveries, folders, documents>>
  BY DEF Raise, world, broker, tables
<1>2. status \in Status /\ folders \subseteq Folders /\ documents \subseteq folders
  BY DEF IInv, Typed
<1> QED  BY <1>1, <1>2, StepsAre, GoesOn DEF Over, Replacing

\* A process gives up: the failure is recorded, or the process or its session is
\* lost.
LEMMA GivesUpIInv ==
    ASSUME IInv, NEW p \in Processes, RecordFailure(p) \/ LoseSession(p) \/ Crash(p)
    PROVE  IInv'
<1>1. /\ Becomes(p, Rest(p)) /\ (proc[p].at \notin Over \/ ~Resting(p))
      /\ status' \in {status, "failed"}
      /\ UNCHANGED <<overlap, results, scores, deliveries, folders, documents>>
  BY DEF RecordFailure, LoseSession, Crash, world, broker, tables, At, Over
<1>2. proc[p].at \notin Over
  BY <1>1 DEF IInv, ActivityOK
<1>3. status' \in Status
  BY <1>1 DEF IInv, Typed, Status
<1>4. ~overlap => TablesOK'
  BY <1>1, SameTables DEF IInv, Alone
<1> QED  BY <1>1, <1>2, <1>3, <1>4, Leaves

\* The archive is uploaded and its task sent, or nothing happens.
LEMMA AsideIInv ==
    ASSUME IInv, CreateRow \/ Delay \/ UNCHANGED vars
    PROVE  IInv'
<1>1. /\ UNCHANGED <<overlap, results, scores, deliveries, folders, documents, proc>>
      /\ status' \in {status, "uploaded"}
  BY DEF CreateRow, Delay, vars, world, broker, tables
<1>2. Typed'
  BY <1>1 DEF IInv, Typed, Status
<1>3. Known' = Known
  BY <1>1 DEF Known
<1>4. ASSUME NEW p \in Processes
      PROVE  ActivityOK(p)' /\ \A r \in Known' : NotYet(p, r)'
  BY <1>1, <1>3 DEF IInv, ActivityOK, NotYet, Resting, At, NextFolder
<1>5. ASSUME ~overlap PROVE Alone'
  <2>1. TablesOK'
    BY <1>1, <1>5, SameTables DEF IInv, Alone
  <2>2. ASSUME NEW p \in Processes PROVE AloneOK(p)'
    <3>1. AloneOK(p)
      BY <1>5 DEF IInv, Alone
    <3> QED  BY <1>1, <3>1 DEF AloneOK, At, NextFolder, RowsOf
  <2>3. OneWorks'
    BY <1>1, <1>5 DEF IInv, Alone, OneWorks, Resting
  <2> QED  BY <2>1, <2>2, <2>3 DEF Alone
<1> QED  BY <1>1, <1>2, <1>3, <1>4, <1>5 DEF IInv

LEMMA NextIInv == IInv /\ [Next]_vars => IInv'
<1> SUFFICES ASSUME IInv, [Next]_vars PROVE IInv'
  OBVIOUS
<1>1. CASE CreateRow \/ Delay \/ UNCHANGED vars
  BY <1>1, AsideIInv
<1>2. ASSUME NEW w \in Workers, Deliver(w) \/ Raise(w) PROVE IInv'
  BY <1>2, DeliverIInv, RaiseIInv DEF Processes
<1>3. ASSUME NEW q \in Requests, RequestEntities(q) \/ RequestResults(q) PROVE IInv'
  BY <1>3, RequestIInv
<1>4. ASSUME NEW p \in Processes, Step(p) PROVE IInv'
  BY <1>4, UnzipIInv, GroupFoldersIInv, CollectDocumentsIInv, SetGroupedIInv,
     ExtractTextIInv, EntitiesIInv, ListFoldersIInv, DeleteResultsIInv,
     DeleteScoresIInv, CommitFolderIInv, FinishModule4IInv, GivesUpIInv DEF Step
<1>5. ASSUME NEW p \in Processes, FailEntities(p) \/ LoseSession(p) \/ Crash(p)
      PROVE  IInv'
  BY <1>5, EntitiesIInv, GivesUpIInv
<1> QED  BY <1>1, <1>2, <1>3, <1>4, <1>5 DEF Next

LEMMA Invariant == Spec => []IInv
BY InitIInv, NextIInv, PTL DEF Spec

-------------------------------------------------------------------------------
(* The theorems.                                                           *)

\* Every table and every process keeps its type; in particular no score is ever
\* stored without a result, although two verifications at the same time delete
\* and insert the rows of both tables in each other's back.
THEOREM TypeCorrect == Spec => []TypeOK
<1>1. IInv => TypeOK
  BY DEF IInv, Typed, Status, ActivityOK, TypeOK
<1> QED  BY <1>1, Invariant, PTL

\* One process at a time: another delivery of the task, a request for results and
\* a death between two commits replace what is stored of a folder and never add
\* to it, and a folder has a score exactly when it was verified.
THEOREM FoldersReplaced == Spec => []ReplacedNotAdded
<1>1. ASSUME IInv, ~overlap, NEW f \in folders
      PROVE  Cardinality(RowsOf(results, f)) <= 1
  <2>1. \A r, s \in RowsOf(results, f) : r = s
    BY <1>1 DEF IInv, Alone, TablesOK, RowsOf
  <2>2. CASE RowsOf(results, f) = {}
    <3>1. Cardinality(RowsOf(results, f)) = 0
      BY <2>2, FS_EmptySet
    <3> QED  BY <3>1
  <2>3. CASE RowsOf(results, f) # {}
    <3>1. PICK r : RowsOf(results, f) = {r}
      BY <2>1, <2>3
    <3>2. Cardinality(RowsOf(results, f)) = 1
      BY <3>1, FS_Singleton
    <3> QED  BY <3>2
  <2> QED  BY <2>2, <2>3
<1>2. ASSUME IInv, ~overlap, NEW f \in folders
      PROVE  RowsOf(scores, f) = {r \in RowsOf(results, f) : r.verdict = "VERIFIED"}
  BY <1>2 DEF IInv, Alone, TablesOK, RowsOf
<1>3. IInv => ReplacedNotAdded
  BY <1>1, <1>2 DEF ReplacedNotAdded
<1> QED  BY <1>3, Invariant, PTL

\* One process at a time: an evaluation at rest that reads VERIFIED has a verdict
\* that is no failure for every folder, whatever was interrupted before.
THEOREM VerifiedIsAll == Spec => []VerifiedMeansAll
<1>1. IInv => VerifiedMeansAll
  BY DEF IInv, Alone, TablesOK, Judged, VerifiedMeansAll
<1> QED  BY <1>1, Invariant, PTL
===============================================================================

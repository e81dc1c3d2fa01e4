--------------------------- MODULE ExplanationRelay ---------------------------
(***************************************************************************)
(* What readers of explanations and subscribers of their events may rely   *)
(* on, however they are produced and relayed: an explanation is stored     *)
(* once and stays; storing it announces it; an event is delivered only     *)
(* after that, at most MaxDeliveries times, and at least once before it is *)
(* settled, after which nobody lists it again.                             *)
(***************************************************************************)
EXTENDS Naturals, Sequences, SequencesExt

CONSTANTS Subjects,       \* flag states that can be explained
          Texts,          \* explanations there may be
          NoRecord,       \* "not explained"
          MaxDeliveries   \* how often a subscriber may see one event

VARIABLES explained,   \* explained[s]: the explanation of s
          announced,   \* the subjects explained so far, in order
          delivered,   \* delivered[s]: how often subscribers have seen s
          settled      \* the subjects whose event is dealt with

vars == <<explained, announced, delivered, settled>>

TypeOK ==
    /\ explained \in [Subjects -> Texts \cup {NoRecord}]
    /\ announced \in Seq(Subjects)
    /\ delivered \in [Subjects -> Nat]
    /\ settled \in SUBSET Subjects

Init ==
    /\ explained = [s \in Subjects |-> NoRecord]
    /\ announced = <<>>
    /\ delivered = [s \in Subjects |-> 0]
    /\ settled = {}

\* A subject is explained and announced at once, and only once.
Explain(s) ==
    /\ explained[s] = NoRecord
    /\ \E text \in Texts : explained' = [explained EXCEPT ![s] = text]
    /\ announced' = Append(announced, s)
    /\ UNCHANGED <<delivered, settled>>

\* Subscribers see an event, which may be one they have seen or one that is
\* settled meanwhile.
Deliver(s) ==
    /\ Contains(announced, s)
    /\ delivered[s] < MaxDeliveries
    /\ delivered' = [delivered EXCEPT ![s] = @ + 1]
    /\ UNCHANGED <<explained, announced, settled>>

\* A batch of events is settled at once, each of which was seen.
Settle(batch) ==
    /\ \A s \in batch : delivered[s] > 0
    /\ settled' = settled \cup batch
    /\ UNCHANGED <<explained, announced, delivered>>

Next ==
    \/ \E s \in Subjects : Explain(s)
    \/ \E s \in Subjects : Deliver(s)
    \/ \E batch \in SUBSET Subjects : Settle(batch)

Spec == Init /\ [][Next]_vars

\* Nothing is delivered that is not explained, settled that was not delivered,
\* or delivered more often than it may be.
Promise ==
    \A s \in Subjects : /\ delivered[s] > 0 => explained[s] # NoRecord
                        /\ s \in settled => delivered[s] > 0
                        /\ delivered[s] <= MaxDeliveries

\* What is explained stays as it is explained, and what is settled is settled.
NothingIsRevoked ==
    [][/\ \A s \in Subjects : explained[s] # NoRecord => explained'[s] = explained[s]
       /\ settled \subseteq settled']_vars
===============================================================================

---------------------------- MODULE TrainingJournal ----------------------------
(***************************************************************************)
(* The training of model_worker.py and the journal of its backend          *)
(* (backends/dummy_backend.py, qwen3_training_backend.py,                  *)
(* backends/minicpm5_backend.py), which lets a relaunched worker go on     *)
(* where the last one died.  A row is one example: the hashes of the       *)
(* adapter before and after it, and the delta between them.  A launch      *)
(* starts from adapter_0, adds the deltas of the rows it finds, and trains *)
(* the other examples.                                                     *)
(*                                                                         *)
(* An adapter is the sequence of what was applied to adapter_0: each entry *)
(* is an example and by how much the weights are off those an optimizer    *)
(* step left, because pre + (post - pre) is rounded: not at all, by an     *)
(* ulp, or by so much that float16 shows it too.  A strict hash is the     *)
(* adapter itself.                                                         *)
(***************************************************************************)
EXTENDS Naturals, Sequences

CONSTANTS Backend,      \* "dummy", "qwen3" or "minicpm5"
          NumExamples,
          Roundings,    \* by how much the sum of an example may be off
          Launches,     \* processes of one worker id, hence of one journal
          Together,     \* may one start while another runs?  (Its lease ran out.)
          None

Examples == 1..NumExamples

VARIABLES journal,   \* the row of an example
          off,       \* of a row: by how much its pre + delta is off its post
          pc,        \* of a launch
          next,      \* the example it is at
          weights,   \* the adapter in its memory
          seen       \* the steps its optimizer and its random numbers have made

vars == <<journal, off, pc, next, weights, seen>>
memory == <<next, weights, seen>>

Offs == {"exact", "ulp", "half"}
Adapters == Seq([ex : Examples, off : Offs])
Rows == [pre : Adapters, post : Adapters, sha : Adapters \cup {None},
         saved : Seq(Examples), seen : Seq(Examples)]

TypeOK ==
    /\ \A e \in Examples : journal[e] = None \/ journal[e] \in Rows
    /\ off \in [Examples -> Offs]
    /\ pc \in [Launches -> {"off", "look", "train", "step", "done", "refused", "dead"}]
    /\ next \in [Launches -> 1..NumExamples + 1]
    /\ \A p \in Launches : weights[p] \in Adapters /\ seen[p] \in Seq(Examples)

Init ==
    /\ journal = [e \in Examples |-> None]
    /\ off = [e \in Examples |-> "exact"]
    /\ pc = [p \in Launches |-> "off"]
    /\ next = [p \in Launches |-> 1]
    /\ weights = [p \in Launches |-> <<>>]
    /\ seen = [p \in Launches |-> <<>>]

Goto(p, from, to) == pc[p] = from /\ pc' = [pc EXCEPT ![p] = to]

-----------------------------------------------------------------------------
\* Adapters and their hashes

Stepped(adapter, e)   == Append(adapter, [ex |-> e, off |-> "exact"])
Summed(adapter, e, by) == Append(adapter, [ex |-> e, off |-> by])

\* The hash of the weights as float16 does not see an ulp.
Tolerant(adapter) ==
    [i \in DOMAIN adapter |->
        IF adapter[i].off = "ulp" THEN [adapter[i] EXCEPT !.off = "exact"] ELSE adapter[i]]

PostHash(adapter) == IF Backend = "dummy" THEN adapter ELSE Tolerant(adapter)

\* Only Qwen's backend makes a request_sha; the hash of the adapter is in it.
RequestSha(p) == IF Backend = "qwen3" THEN weights[p] ELSE None

-----------------------------------------------------------------------------
\* A launch: load_model, load_adapter, then the examples one by one

Running == {p \in Launches : pc[p] \in {"look", "train", "step"}}

Launch(p) ==
    /\ Goto(p, "off", "look")
    /\ Together \/ Running = {}
    /\ UNCHANGED <<journal, off, memory>>

\* journal_status finds no row.
Look(p) ==
    /\ next[p] \in Examples /\ journal[next[p]] = None
    /\ Goto(p, "look", "train")
    /\ UNCHANGED <<journal, off, memory>>

\* recover_applied.  MiniCPM5's hash of the sum was taken of the sum; Qwen's
\* puts back the optimizer and the random numbers too.
Recover(p) ==
    LET e == next[p]
        row == journal[e]
        sum == Summed(weights[p], e, off[e]) IN
    /\ e \in Examples /\ row # None
    /\ row.pre = weights[p]
    /\ Backend = "minicpm5" \/ row.post = PostHash(sum)
    /\ Goto(p, "look", "look")
    /\ next' = [next EXCEPT ![p] = e + 1]
    /\ weights' = [weights EXCEPT ![p] = sum]
    /\ seen' = [seen EXCEPT ![p] = IF Backend = "qwen3" THEN row.saved ELSE @]
    /\ UNCHANGED <<journal, off>>

\* Raised out of main: the process and its weights are gone.
NotRecovered(p) ==
    LET e == next[p]
        row == journal[e] IN
    /\ e \in Examples /\ row # None
    /\ \/ row.pre # weights[p]
       \/ Backend # "minicpm5" /\ row.post # PostHash(Summed(weights[p], e, off[e]))
    /\ Goto(p, "look", "refused")
    /\ UNCHANGED <<journal, off, memory>>

\* train_step: its own SELECT finds no row.
TrainStep(p) ==
    /\ Goto(p, "train", "step")
    /\ journal[next[p]] = None
    /\ UNCHANGED <<journal, off, memory>>

\* A row that another process has written since: its delta is returned, the
\* weights stay as they are.
Replay(p) ==
    LET row == journal[next[p]] IN
    /\ pc[p] = "train" /\ row # None
    /\ IF row.sha # None /\ row.sha # RequestSha(p)
       THEN Goto(p, "train", "refused") /\ UNCHANGED next
       ELSE Goto(p, "train", "look") /\ next' = [next EXCEPT ![p] = @ + 1]
    /\ UNCHANGED <<journal, off, weights, seen>>

\* One optimizer step, and INSERT OR REPLACE.
Apply(p) ==
    LET e == next[p]
        post == Stepped(weights[p], e)
        saw == IF Backend = "dummy" THEN <<>> ELSE Append(seen[p], e) IN
    /\ Goto(p, "step", "look")
    /\ \E by \in Roundings[e] :
        /\ off' = [off EXCEPT ![e] = by]
        /\ journal' = [journal EXCEPT ![e] =
             [pre |-> weights[p],
              post |-> PostHash(IF Backend = "minicpm5" THEN Summed(weights[p], e, by)
                                                        ELSE post),
              sha |-> RequestSha(p),
              saved |-> IF Backend = "qwen3" THEN saw ELSE <<>>,
              seen |-> seen[p]]]
        /\ weights' = [weights EXCEPT ![p] = post]
        /\ seen' = [seen EXCEPT ![p] = saw]
        /\ next' = [next EXCEPT ![p] = e + 1]

\* sum_deltas of all rows is what the worker submits.
Finish(p) ==
    /\ next[p] > NumExamples
    /\ Goto(p, "look", "done")
    /\ UNCHANGED <<journal, off, memory>>

Kill(p) ==
    /\ p \in Running
    /\ pc' = [pc EXCEPT ![p] = "dead"]
    /\ UNCHANGED <<journal, off, memory>>

Next == \E p \in Launches :
    \/ Launch(p) \/ Look(p) \/ Recover(p) \/ NotRecovered(p)
    \/ TrainStep(p) \/ Replay(p) \/ Apply(p) \/ Finish(p) \/ Kill(p)

Spec == Init /\ [][Next]_vars

-----------------------------------------------------------------------------
\* Properties

Applied(adapter) == [i \in DOMAIN adapter |-> adapter[i].ex]
Before(e) == [i \in 1..(e - 1) |-> i]

\* However often a worker is killed and launched again, every delta of the
\* journal is a step on an adapter to which the examples before it, and no
\* others, were applied once and in order.
OnceInOrder == \A e \in Examples : journal[e] # None => Applied(journal[e].pre) = Before(e)

\* Each row starts from what the row before it left, as it was trained or as it
\* was put together again: the sum of the deltas is one path of training.
ChainKept ==
    \A e \in Examples : e > 1 /\ journal[e] # None =>
        LET row == journal[e - 1] IN
        row # None /\ journal[e].pre \in {Stepped(row.pre, e - 1), Summed(row.pre, e - 1, off[e - 1])}

\* A worker that submits has all examples in its adapter.
SubmitsItsTraining ==
    \A p \in Launches : pc[p] = "done" => Applied(weights[p]) = Before(NumExamples + 1)

\* "un rellançament amb la mateixa BD reprèn exactament on va morir"
\* (model_worker.py:21): a relaunched worker is not refused its own journal.
\* Not so: the sum is compared with a tolerant hash where it ends and with a
\* strict one where the next row begins.
ResumesWhereItDied == \A p \in Launches : pc[p] # "refused"

\* A relaunched worker trains what an uninterrupted one would have.  Not so
\* with MiniCPM5's backend, which journals neither optimizer nor random state.
TrainsAsUninterrupted ==
    \A e \in Examples : journal[e] # None /\ Backend # "dummy" => journal[e].seen = Before(e)
=============================================================================

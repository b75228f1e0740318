----------------------------- MODULE StreamMerge ------------------------------
(***************************************************************************)
(* What the arbiter of the examples promises to the testbench around it:   *)
(* two streams go in, one comes out, and the output is a merge of the two. *)
(* Nothing is lost, repeated or changed, and no stream is reordered.       *)
(***************************************************************************)
EXTENDS Sequences, SequencesExt

CONSTANTS Stream, Item

VARIABLES
    pending,    \* [Stream -> Seq(Item)], what went in and did not come out yet
    out         \* what came out, in order

MergeInit == pending = [s \in Stream |-> <<>>] /\ out = <<>>

\* Items go in at the end of a stream, one or several at a time.
Put(s) ==
    /\ pending' = [pending EXCEPT ![s] = pending'[s]]
    /\ pending'[s] \in Seq(Item) /\ IsPrefix(pending[s], pending'[s])
    /\ UNCHANGED out

\* The oldest item of one of the streams comes out.
Take(s) ==
    /\ pending[s] # <<>>
    /\ out' = Append(out, Head(pending[s]))
    /\ pending' = [pending EXCEPT ![s] = Tail(@)]

MergeNext == \E s \in Stream : Take(s) \/ Put(s)

MergeSpec == MergeInit /\ [][MergeNext]_<<pending, out>>
=============================================================================

------------------------------ MODULE Microbatch ------------------------------
(***************************************************************************)
(* How EmbeddingExecutor::embed_owned cuts the texts of one caller into    *)
(* requests: microbatch_lengths (memory-engine/src/embedding_executor.rs). *)
(* The loop over the texts is one step, so that it can be folded over a    *)
(* whole job (EmbeddingExecutor) and run item by item (MicrobatchLoop).    *)
(***************************************************************************)
EXTENDS Naturals, Sequences

CONSTANTS
    MaxItems,         \* texts in one inference batch
    MaxPaddedTokens   \* texts times the longest one, in one inference batch

ASSUME LimitsAssumption ==
    /\ MaxItems \in Nat \ {0}
    /\ MaxPaddedTokens \in Nat \ {0}

Longer(m, n) == IF m >= n THEN m ELSE n

Fits(items, longest) == items <= MaxItems /\ items * longest <= MaxPaddedTokens

\* The open batch has `items` texts, the longest of `longest` tokens.
Cut == [batches: Seq(Nat \ {0}), items: Nat, longest: Nat \ {0}, rejected: BOOLEAN]

Uncut == [batches |-> <<>>, items |-> 0, longest |-> 1, rejected |-> FALSE]

\* A batch is pushed and an empty one opened.
Closed(cut) ==
    [batches |-> Append(cut.batches, cut.items), items |-> 0, longest |-> 1,
     rejected |-> cut.rejected]

WithText(cut, tokens) ==
    [cut EXCEPT !.items = @ + 1, !.longest = Longer(@, tokens)]

\* Mutation of CutBefore: the new text's length is not considered.
CutBeforeTooLate(cut, tokens) ==
    cut.items > 0 /\ ~Fits(cut.items + 1, cut.longest)

\* Mutation of CutBefore: a batch that would just be full is already closed.
CutBeforeTooEarly(cut, tokens) ==
    cut.items > 0 /\ (\/ cut.items + 1 >= MaxItems
                      \/ ~Fits(cut.items + 1, Longer(cut.longest, tokens)))

CutBefore(cut, tokens) ==
    cut.items > 0 /\ ~Fits(cut.items + 1, Longer(cut.longest, tokens))

\* One iteration; a text longer than a batch rejects the whole job.
TakeText(cut, tokens) ==
    IF cut.rejected \/ tokens > MaxPaddedTokens
    THEN [cut EXCEPT !.rejected = TRUE]
    ELSE WithText(IF CutBefore(cut, tokens) THEN Closed(cut) ELSE cut, tokens)

\* The last batch is closed when the texts are exhausted.
Finished(cut) == IF cut.items > 0 THEN Append(cut.batches, cut.items) ELSE cut.batches
=============================================================================

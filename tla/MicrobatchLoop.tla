---------------------------- MODULE MicrobatchLoop ----------------------------
(* The loop of microbatch_lengths, text by text, with the texts it has read. *)
EXTENDS Microbatch

CONSTANTS
    TokenCounts,  \* lengths of prepared texts; special tokens make them positive
    MaxTexts      \* bound of a run

ASSUME TokenCountsAssumption == TokenCounts \subseteq Nat \ {0} /\ MaxTexts \in Nat

VARIABLES
    lengths,  \* the texts read so far
    cut,      \* the loop's state
    starts    \* history: the position at which each batch begins, open one last

loopVars == <<lengths, cut, starts>>

LoopTypeOK ==
    /\ lengths \in Seq(TokenCounts)
    /\ cut \in Cut
    /\ starts \in Seq(Nat \ {0})

LoopInit ==
    /\ lengths = <<>>
    /\ cut = Uncut
    /\ starts = <<1>>

ReadText(tokens) ==
    /\ ~cut.rejected
    /\ Len(lengths) < MaxTexts
    /\ lengths' = Append(lengths, tokens)
    /\ cut' = TakeText(cut, tokens)
    /\ starts' = IF Len(cut'.batches) = Len(cut.batches) THEN starts
                 ELSE Append(starts, Len(lengths) + 1)

LoopNext == \E tokens \in TokenCounts : ReadText(tokens)

LoopSpec == LoopInit /\ [][LoopNext]_loopVars

-----------------------------------------------------------------------------
Batches == DOMAIN cut.batches

\* The positions batch k covers.
Members(k) == starts[k] .. (starts[k] + cut.batches[k] - 1)

\* Every text is in exactly one request and the requests keep the caller's
\* order: embed_owned relies on it when it takes `count` values per request.
Contiguous ==
    /\ Len(starts) = Len(cut.batches) + 1
    /\ starts[1] = 1
    /\ \A k \in Batches : starts[k + 1] = starts[k] + cut.batches[k]
    /\ ~cut.rejected => starts[Len(starts)] + cut.items = Len(lengths) + 1

\* No request is too large for one inference batch, the one still open included.
\* The executor takes a batch's first request without looking at its size.
RequestsFit ==
    /\ \A k \in Batches :
          /\ cut.batches[k] <= MaxItems
          /\ \A i \in Members(k) : cut.batches[k] * lengths[i] <= MaxPaddedTokens
    /\ cut.items <= MaxItems
    /\ cut.items * cut.longest <= MaxPaddedTokens
    /\ ~cut.rejected =>
          \A i \in starts[Len(starts)] .. Len(lengths) : lengths[i] <= cut.longest

\* Batches are as few as order allows: a batch was closed only because the text
\* after it did not fit any more.
CutsAreNeeded ==
    \A k \in Batches :
        \A longest \in {lengths[i] : i \in Members(k) \cup {starts[k + 1]}} :
            (\A i \in Members(k) \cup {starts[k + 1]} : lengths[i] <= longest)
                => ~Fits(cut.batches[k] + 1, longest)

\* A job is rejected exactly when one of its texts fits no batch at all.
RejectsOnlyOversized ==
    cut.rejected <=> \E i \in DOMAIN lengths : lengths[i] > MaxPaddedTokens
=============================================================================

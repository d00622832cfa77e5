------------------------------- MODULE Chunking --------------------------------
(***************************************************************************)
(* How a document's text is cut into chunks (memory-engine/src/chunking.rs).*)
(* A text is a sequence of sections, a section a sequence of sentences, a  *)
(* sentence a sequence of words; plain text is one section.  A word is     *)
(* known by its place, the part of it, and its width in UTF-16 code units; *)
(* a whole word is the first part of itself.  A chunk is the sequence of   *)
(* words, or parts of words, it holds.  Characters outside the basic plane,*)
(* and white space that trimming removes, are left out.                    *)
(***************************************************************************)
EXTENDS Naturals, SequencesExt, FiniteSetsExt

CONSTANTS
    Limit,      \* the chunk limit
    Overlap,    \* OVERLAP
    ShortChunk  \* SHORT_CHUNK

ASSUME ChunkLimitsAssumption ==
    /\ Limit \in Nat \ {0}
    /\ {Overlap, ShortChunk} \subseteq Nat

-----------------------------------------------------------------------------
Widths(words) == FoldLeft(LAMBDA sum, word : sum + word.width, 0, words)

\* Words are joined with a space, sentences too.
Width(words) == IF words = <<>> THEN 0 ELSE Widths(words) + Len(words) - 1

\* joined_len.
JoinedLen(units) == Width(FlattenSeq(units))

\* fixed_width: a word is cut anywhere, into parts as wide as the limit and a rest.
Parts(word) ==
    LET whole == word.width \div Limit
        rest == word.width % Limit
    IN [k \in 1 .. whole + (IF rest = 0 THEN 0 ELSE 1) |->
           [place |-> word.place, part |-> k, width |-> IF k <= whole THEN Limit ELSE rest]]

FixedWidth(word) == [k \in DOMAIN Parts(word) |-> <<Parts(word)[k]>>]

\* Mutation of FlushUnits: a short chunk always joins the one before.
FlushUnitsUnmeasured(chunks, pending) ==
    LET chunk == FlattenSeq(pending)
    IN CASE pending = <<>> -> chunks
         [] pending # <<>> /\ chunks # <<>> /\ Width(chunk) < ShortChunk ->
                Front(chunks) \o <<Last(chunks) \o chunk>>
         [] OTHER -> Append(chunks, chunk)

\* flush_units: a short chunk joins the one before if both fit.
FlushUnits(chunks, pending) ==
    LET chunk == FlattenSeq(pending)
        Joins == /\ chunks # <<>>
                 /\ Width(chunk) < ShortChunk
                 /\ Width(Last(chunks) \o chunk) <= Limit
    IN CASE pending = <<>> -> chunks
         [] pending # <<>> /\ Joins -> Front(chunks) \o <<Last(chunks) \o chunk>>
         [] OTHER -> Append(chunks, chunk)

OverlapBudget == IF Overlap <= Limit \div 2 THEN Overlap ELSE Limit \div 2

\* Mutation of RetainOverlap: one unit too many stays.
RetainOverlapAndOne(pending) ==
    LET Within(k) == JoinedLen(SubSeq(pending, k + 1, Len(pending))) <= OverlapBudget
    IN SubSeq(pending, Min({k \in 1 .. Len(pending) + 1 : Within(k)}), Len(pending))

\* retain_overlap: as much of the end as the budget allows.
RetainOverlap(pending) ==
    LET Within(k) == JoinedLen(SubSeq(pending, k, Len(pending))) <= OverlapBudget
    IN SubSeq(pending, Min({k \in 1 .. Len(pending) + 1 : Within(k)}), Len(pending))

\* One iteration of chunk_units, for a unit as a sequence of words; pieces are
\* what it is cut into when it is too long.
TakeUnit(state, unit, pieces) ==
    LET flushed == FlushUnits(state.chunks, state.pending)
        kept == RetainOverlap(state.pending)
    IN CASE Width(unit) > Limit ->
               [chunks |-> flushed \o pieces, pending |-> <<>>]
         [] Width(unit) <= Limit /\ JoinedLen(Append(state.pending, unit)) <= Limit ->
               [state EXCEPT !.pending = Append(@, unit)]
         [] OTHER ->
               [chunks |-> flushed,
                pending |-> IF JoinedLen(Append(kept, unit)) <= Limit
                            THEN Append(kept, unit) ELSE <<unit>>]

ChunkUnits(units, pieces) ==
    LET end == FoldLeft(LAMBDA state, k : TakeUnit(state, units[k], pieces[k]),
                        [chunks |-> <<>>, pending |-> <<>>],
                        [k \in DOMAIN units |-> k])
    IN FlushUnits(end.chunks, end.pending)

\* A sentence that is too long is cut between words, a word anywhere.
SplitSentence(words) ==
    LET pieces == [k \in DOMAIN words |-> FixedWidth(words[k])]
    IN IF Len(words) = 1 THEN pieces[1]
       ELSE ChunkUnits([k \in DOMAIN words |-> <<words[k]>>], pieces)

ChunkPlain(sentences) ==
    ChunkUnits(sentences, [k \in DOMAIN sentences |-> SplitSentence(sentences[k])])

-----------------------------------------------------------------------------
\* Two sections, or a heading and the text below it, have one character more
\* between them.
UnderBlankLine(words) == [words EXCEPT ![1].width = @ + 1]

\* A section that was cut repeats its heading, its first word here, where the
\* chunk leaves room.
WithHeading(split, heading) ==
    [k \in DOMAIN split |->
        LET candidate == <<heading>> \o UnderBlankLine(split[k])
        IN IF k > 1 /\ Width(candidate) <= Limit /\ split[k][1] # heading
           THEN candidate ELSE split[k]]

\* One iteration of chunk_markdown's loop.
TakeSection(state, section) ==
    LET words == FlattenSeq(section.sentences)
        split == ChunkPlain(section.sentences)
        joined == state.pending \o UnderBlankLine(words)
        pushed == IF state.pending = <<>> THEN state.chunks
                  ELSE Append(state.chunks, state.pending)
    IN CASE Width(words) > Limit ->
               [chunks |-> pushed \o IF section.heading THEN WithHeading(split, words[1])
                                     ELSE split,
                pending |-> <<>>]
         [] Width(words) <= Limit /\ state.pending # <<>> /\ Width(joined) <= Limit ->
               [state EXCEPT !.pending = joined]
         [] OTHER -> [chunks |-> pushed, pending |-> words]

ChunkMarkdown(sections) ==
    LET end == FoldLeft(TakeSection, [chunks |-> <<>>, pending |-> <<>>], sections)
    IN IF end.pending = <<>> THEN end.chunks ELSE Append(end.chunks, end.pending)
================================================================================

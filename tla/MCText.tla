--------------------------------- MODULE MCText --------------------------------
(* An instance for TLC of the two ways a document's text is cut up before it  *)
(* is embedded.  MicrobatchLoop reads all short sequences of lengths; each of *)
(* them is also a text to chunk, its numbers the widths of its words, with    *)
(* sentences that end at any of them.                                         *)
EXTENDS MicrobatchLoop, Chunking

Words == [k \in DOMAIN lengths |-> [place |-> k, part |-> 1, width |-> lengths[k]]]

\* A sentence ends where ends says; the word after it begins the next one.
ReadWord(ends, sentences, word) ==
    IF sentences = <<>> \/ word.place - 1 \in ends THEN Append(sentences, <<word>>)
    ELSE Append(Front(sentences), Append(Last(sentences), word))

Sentences(ends) ==
    FoldLeft(LAMBDA sentences, word : ReadWord(ends, sentences, word), <<>>, Words)

Endings == {ends \in SUBSET DOMAIN lengths : Len(lengths) \in ends}

\* A text as plain text, and with each sentence as a section, headed or not.
Chunkings(ends) ==
    LET sentences == Sentences(ends)
        Section(k, headed) == [heading |-> headed, sentences |-> <<sentences[k]>>]
    IN {ChunkPlain(sentences)} \cup
       {ChunkMarkdown([k \in DOMAIN sentences |-> Section(k, headed)]) : headed \in BOOLEAN}

\* No chunk is larger than the limit, with what it repeats of the chunk before
\* or of its heading, and with a short one that was joined to it.  (Larger
\* chunks would be cut by the model's tokenizer without a word.)
ChunksFit ==
    \A ends \in Endings : \A chunks \in Chunkings(ends) :
        \A k \in DOMAIN chunks : chunks[k] # <<>> /\ Width(chunks[k]) <= Limit

\* A text as the chunks may divide it: words, and the parts of those too long.
Divided(words) == FoldLeft(LAMBDA text, word : text \o Parts(word), <<>>, words)

\* Where a chunk of such a text is found in it.
Start(text, chunk) == CHOOSE k \in DOMAIN text : text[k] = chunk[1]
End(text, chunk) == Start(text, chunk) + Len(chunk) - 1

\* A chunk goes on where the one before ended, or repeats as much of its end as
\* the overlap's budget allows.
Follows(text, chunk, next) ==
    /\ Start(text, next) <= End(text, chunk) + 1
    /\ End(text, chunk) < End(text, next)
    /\ Width(SubSeq(text, Start(text, next), End(text, chunk))) <= OverlapBudget

\* The chunks are the text after place a up to b, in its order.
Covers(text, chunks, a, b) ==
    /\ \A k \in DOMAIN chunks :
          /\ chunks[k] # <<>>
          /\ Start(text, chunks[k]) \in a + 1 .. b
          /\ End(text, chunks[k]) \in Start(text, chunks[k]) .. b
          /\ chunks[k] = SubSeq(text, Start(text, chunks[k]), End(text, chunks[k]))
    /\ chunks = <<>> => a = b
    /\ chunks # <<>> => /\ Start(text, chunks[1]) = a + 1
                       /\ End(text, Last(chunks)) = b
    /\ \A k \in 1 .. Len(chunks) - 1 : Follows(text, chunks[k], chunks[k + 1])

\* The chunks of a plain text, without what each repeats of the one before, are
\* the text: no word is lost or comes twice, however long, where sentences are
\* cut, short chunks joined and overlaps kept.  A word's parts are all of it.
ChunksCoverTheText ==
    LET text == Divided(Words)
    IN /\ \A k \in DOMAIN lengths : Widths(Parts(Words[k])) = lengths[k]
       /\ \A ends \in Endings : Covers(text, ChunkPlain(Sentences(ends)), 0, Len(text))
================================================================================

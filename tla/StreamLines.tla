---------------------------- MODULE StreamLines ----------------------------
(* How LLMGateway.cpp cuts the bytes of a streaming backend into lines, and *)
(* what AIHelper's callback takes from them.  curl hands the bytes over in  *)
(* pieces that end anywhere.  A line is two symbols, so that a piece can    *)
(* end inside it, and a newline.                                            *)
EXTENDS ModelStrategies

\* Kinds of lines: JSON of the two shapes, a data line without text, [DONE], and
\* what does not start with "data:" (event names, comments, a plain JSON body).
Kinds == {"choices", "output", "blank", "done", "other"}

Parts == <<"head", "tail", "newline">>

\* A stream is its lines' kinds and whether its last line ends with a newline.
Wire(stream) ==
    LET size == 3 * Len(stream.lines)
        line(i) == (i + 2) \div 3
    IN [i \in 1 .. IF stream.closed \/ size = 0 THEN size ELSE size - 1 |->
           [part |-> Parts[i - 3 * (line(i) - 1)], kind |-> stream.lines[line(i)], n |-> line(i)]]

\* StreamContext: the unfinished line, whether a data line was seen, and what onChunk
\* writes to, the numbers of the lines whose text went to the client.
NoBytes == [buffer |-> <<>>, sawData |-> FALSE, fullResult |-> <<>>]

IsNewline(symbol) == symbol.part = "newline"

IsWhole(line) == Len(line) = 2 /\ line[1].part = "head" /\ line[2].part = "tail"

\* What follows "data:" and is not [DONE] goes to the caller.
IsData(line) ==
    /\ line # <<>>
    /\ line[1].part = "head"
    /\ line[1].kind # "other"
    /\ ~(IsWhole(line) /\ line[1].kind = "done")

\* The callback of completeStreaming: the client gets what parseStreamChunk finds.
OnChunk(strategy, fullResult, line) ==
    IF IsWhole(line) /\ HasText(strategy, line[1].kind)
    THEN Append(fullResult, line[1].n) ELSE fullResult

\* A newline takes the line before it out of the buffer.
LineEnds(ctx, strategy) ==
    [buffer |-> <<>>,
     sawData |-> ctx.sawData \/ IsData(ctx.buffer),
     fullResult |-> IF IsData(ctx.buffer) THEN OnChunk(strategy, ctx.fullResult, ctx.buffer)
                    ELSE ctx.fullResult]

Scan(ctx, symbol, strategy) ==
    IF IsNewline(symbol) THEN LineEnds(ctx, strategy)
    ELSE [ctx EXCEPT !.buffer = Append(@, symbol)]

\* What is left of ctx when the symbols of its buffer were read.
ScanAll(ctx, symbols, strategy) ==
    LET after[i \in 0 .. Len(symbols)] ==
            IF i = 0 THEN [ctx EXCEPT !.buffer = <<>>]
            ELSE Scan(after[i - 1], symbols[i], strategy)
    IN after[Len(symbols)]

\* Variant of StreamingWriteCallback: every piece is taken to begin with a line.
WriteCallbackAnew(ctx, piece, strategy) == ScanAll(ctx, piece, strategy)

\* streamingWriteCallback: what one piece leaves in the context.
StreamingWriteCallback(ctx, piece, strategy) == ScanAll(ctx, ctx.buffer \o piece, strategy)

\* Nothing but plain JSON or [DONE] under a 200 is an error.
NoStreamData(ctx, received) == ~ctx.sawData /\ received > 0

=============================================================================

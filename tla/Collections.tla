----------------------------- MODULE Collections -----------------------------
EXTENDS Naturals, Sequences, SequencesExt, FiniteSetsExt

\* The sum of f over the finite set S.
SumOver(f, S) == MapThenSumSet(LAMBDA x : f[x], S)

\* The entries of the sequence s that are in S, in their order.
Among(s, S) ==
    LET upTo[i \in 0..Len(s)] ==
            IF i = 0 THEN <<>>
            ELSE IF s[i] \in S THEN Append(upTo[i - 1], s[i])
            ELSE upTo[i - 1]
    IN  upTo[Len(s)]

\* A record with one more field.
With(record, field, value) ==
    [x \in DOMAIN record \cup {field} |-> IF x = field THEN value ELSE record[x]]

=============================================================================

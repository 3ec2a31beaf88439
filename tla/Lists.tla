--------------------------------- MODULE Lists ---------------------------------
(* The lists that the runners of the providers make. These are operators of SequencesExt; the
   runners are instantiated beside one another, and every instance of that module would bring
   the whole library with it. *)
EXTENDS Integers, Sequences, FiniteSets

ToSet(s) == {s[i] : i \in DOMAIN s}

\* The members of a finite set, each once, in some order.
SetToSeq(S) ==
    CHOOSE s \in [1..Cardinality(S) -> S] : \A i, j \in DOMAIN s : s[i] = s[j] => i = j

\* The members of a list that are in a set, in their order.
Among(list, S) ==
    LET upTo[n \in 0..Len(list)] ==
            IF n = 0 THEN <<>>
            ELSE IF list[n] \in S THEN Append(upTo[n - 1], list[n]) ELSE upTo[n - 1]
    IN  upTo[Len(list)]

\* The lists of a list, one after the other.
FlattenSeq(lists) ==
    LET upTo[n \in 0..Len(lists)] == IF n = 0 THEN <<>> ELSE upTo[n - 1] \o lists[n]
    IN  upTo[Len(lists)]
================================================================================

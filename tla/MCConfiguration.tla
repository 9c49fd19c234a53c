---------------------------- MODULE MCConfiguration ----------------------------
(* Two names, one with a dot, under four spellings; three outputs, two of    *)
(* which become the same key of a Secret.                                    *)
EXTENDS Configuration

MCNames == {"foo", "x.y"}

Spelling(n, s, e) == [name |-> n, scoped |-> s, escaped |-> e]

\* ["foo"], foo, project:foo and x.y.
MCKeys == <<Spelling("foo", FALSE, TRUE), Spelling("foo", FALSE, FALSE),
            Spelling("foo", TRUE, FALSE), Spelling("x.y", FALSE, FALSE)>>

MCOutputs   == {"a/b", "a_b", "c"}
MCSecretKey == [n \in MCOutputs |-> IF n = "a/b" THEN "a_b" ELSE n]

=============================================================================

----------------------------- MODULE MCLLMConfig -----------------------------
\* Instances of LLMConfig: a server that has been prepared with one provider.
EXTENDS LLMConfig, TLC

CONSTANTS s1, s2, s3, x1, x2, q1, m1, blank, key

\* s1 and s2 begin with the same digits.
SomeCollide == [s \in Secrets |-> IF s = s3 THEN x2 ELSE x1]

SeedM1 == [m \in {m1} |-> blank]

Prepared == {EmptyFile,
             [EmptyFile EXCEPT !.provider[q1] = key,
                               !.persona[m1] = [link |-> q1, prompt |-> blank]]}
=============================================================================

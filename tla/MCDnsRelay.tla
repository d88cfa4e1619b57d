----------------------------- MODULE MCDnsRelay -----------------------------
EXTENDS DnsRelay

\* Two clients ask the same question.
SomeQuestions == [q \in Queries |-> q % 2]
=============================================================================

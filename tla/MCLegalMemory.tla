---------------------------- MODULE MCLegalMemory ----------------------------
EXTENDS LegalMemory

CONSTANTS f1, f2, f3, f4, r1, r2, r3, A, B, payment

\* All findings are on one subject, f2 of tenant B and the others of tenant A;
\* f3 and f4 belong to one run.
MCRunOf   == [f \in Findings |-> CASE f = f1 -> r1 [] f = f2 -> r2 [] OTHER -> r3]
MCTopicOf == [f \in Findings |->
    [tenant |-> IF f = f2 THEN B ELSE A, subject |-> payment]]
=============================================================================

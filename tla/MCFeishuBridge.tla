--------------------------- MODULE MCFeishuBridge ---------------------------
\* Two instances with one handler each; a message of any kind, delivered twice, and one that is only marked.
EXTENDS FeishuBridge

CONSTANTS h1, h2, p1, p2, m1, m2

MCProcessOf  == h1 :> p1 @@ h2 :> p2
MCKindsOf    == m1 :> Kinds @@ m2 :> {"silent"}
MCDeliveries == m1 :> 2 @@ m2 :> 1
=============================================================================

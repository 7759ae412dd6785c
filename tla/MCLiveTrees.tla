---------------------------- MODULE MCLiveTrees ----------------------------
EXTENDS LiveTrees

\* Document "A" is 1(2(4), 3), document "B" is 5.
Roots == [d \in Docs |-> IF d = "A" THEN 1 ELSE 5]

Kids == [d \in Docs |-> [n \in Nodes |->
           CASE d = "A" /\ n = 1 -> <<2, 3>>
             [] d = "A" /\ n = 2 -> <<4>>
             [] OTHER            -> <<>>]]
=============================================================================

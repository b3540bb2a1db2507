------------------------------ MODULE MCWorker ------------------------------
EXTENDS Worker
CONSTANTS j1, j2

MCAttempts == [ j \in Jobs |-> IF j = j1 THEN 2 ELSE 1 ]
=============================================================================

--------------------------- MODULE MCWalkForward ---------------------------
(* Small instances of WalkForward for TLC. *)
EXTENDS WalkForward

MCConfigs ==
    [bars : 20..32, folds : {2, 4}, minTrain : {3, 10}, floor : {4}, minOos : {2, 3},
     embargo : {0, 3, 12}, horizon : {1}, anchored : BOOLEAN, cutoff : {9}]
=============================================================================

---------------------------- MODULE MCQueueWorker ----------------------------
(* Instances of QueueWorker for TLC. *)
EXTENDS QueueWorker, TLC

CONSTANTS t1, t2, t3, w1, w2

TwoTasks == {t1, t2}
ThreeTasks == {t1, t2, t3}
TwoWorkers == {w1, w2}
OneWorker == {w1}

\* Two tasks of one priority and a third above them.
MixedPrio == [t \in ThreeTasks |-> IF t = t3 THEN 1 ELSE 0]
FlatPrio == [t \in TwoTasks |-> 0]
OneCallback == {t1}

\* Every stop() in the repository waits for the drain; False is its other option.
WaitOnly == {TRUE}
NoWait == {FALSE}
=============================================================================

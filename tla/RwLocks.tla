------------------------------- MODULE RwLocks -------------------------------
(***************************************************************************)
(* tokio's RwLock: one line of readers and writers, first come first       *)
(* served.  A lock is the line of those who asked for it and have not given *)
(* it back, each with the tasks that were before it and still are.  A       *)
(* writer has the lock when nobody is before it, a reader when only readers *)
(* are.  So a reader waits behind a writer that waits.                     *)
(***************************************************************************)

Unlocked == {}

Asked(line, task, mode) ==
    line \cup {[task |-> task, mode |-> mode, before |-> {e.task : e \in line}]}

Given(line, task) ==
    {[e EXCEPT !.before = @ \ {task}] : e \in {f \in line : f.task # task}}

Granted(line, task, mode) ==
    \E e \in line :
        /\ e.task = task /\ e.mode = mode
        /\ mode = "write" => e.before = {}
        /\ \A f \in line : f.task \in e.before => f.mode = "read"
=============================================================================

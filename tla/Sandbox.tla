------------------------------ MODULE Sandbox ------------------------------
(***************************************************************************)
(* One Docker scratch (sandbox.py, sandbox_records.py): a directory tree   *)
(* in which the agent invocations of a task, a status check among them,    *)
(* run in containers.  A supervisor process per container creates it,      *)
(* attaches to it and removes it; it writes a record before anything       *)
(* exists, so that the host can finish the clean-up when the supervisor is *)
(* killed.  The daemon works on its own: a request outlives its client.    *)
(***************************************************************************)
EXTENDS Naturals, FiniteSets

CONSTANTS
    Runs,           \* agent invocations, each with a marker
    Executions,     \* executions of the wrapper, retries included
    None

\* What an instance must satisfy.
SandboxAssumption == None \notin Runs

VARIABLES
    phase,          \* of docker_scratch: "new", "preparing", "open", "closing", "over"
    root,           \* the scratch tree exists
    run,            \* progress of each invocation
    of,             \* invocation an execution belongs to, or None
    sup,            \* its supervisor
    ending,         \* how the supervisor will say it ended
    container,      \* its container, as the daemon has it
    record,         \* its record on disk
    unkilled,       \* history: the clean-up of host processes raised
    unwritten       \* history: executions whose record could not be written at the end
                    \* of their invocation

ghost == <<unkilled, unwritten>>
vars == <<phase, root, run, of, sup, ending, container, record, ghost>>

Alive == {"pending", "creating", "created", "attached", "removing"}
Present == {"created", "running", "exited"}
NoRecord == [state |-> "none", cleanup |-> "none"]
Open == {"pending", "created", "starting"}
Belonging(r) == {e \in Executions : of[e] = r}

Init ==
    /\ phase = "new" /\ root = FALSE
    /\ run = [r \in Runs |-> "idle"]
    /\ of = [e \in Executions |-> None] /\ sup = [e \in Executions |-> "none"]
    /\ ending = [e \in Executions |-> "none"]
    /\ container = [e \in Executions |-> "absent"]
    /\ record = [e \in Executions |-> NoRecord]
    /\ unkilled = {} /\ unwritten = {}

-----------------------------------------------------------------------------
(* docker_scratch *)

\* prepare: after the checks of runtime, image and storage the trees are made.
Prepare ==
    /\ phase = "new" /\ phase' = "preparing" /\ root' = TRUE
    /\ UNCHANGED <<run, of, sup, ending, container, record, ghost>>
Prepared ==
    /\ phase = "preparing" /\ phase' = "open"
    /\ UNCHANGED <<root, run, of, sup, ending, container, record, ghost>>
\* The clone fails or the task is cancelled; or the task is done, whether it failed or not.
Leave ==
    /\ \/ phase = "preparing"
       \/ phase = "open" /\ \A r \in Runs : run[r] \in {"idle", "ended"}
    /\ phase' = "closing"
    /\ UNCHANGED <<root, run, of, sup, ending, container, record, ghost>>

-----------------------------------------------------------------------------
(* The supervisor of a container *)

\* run_agent starts; its SDK starts the wrapper, and again when a call is retried.
Begin(r) ==
    /\ phase = "open" /\ run[r] = "idle" /\ run' = [run EXCEPT ![r] = "running"]
    /\ UNCHANGED <<phase, root, of, sup, ending, container, record, ghost>>
Launch(r, e) ==
    /\ run[r] = "running" /\ of[e] = None
    /\ of' = [of EXCEPT ![e] = r] /\ sup' = [sup EXCEPT ![e] = "pending"]
    /\ record' = [record EXCEPT ![e] = [state |-> "pending", cleanup |-> "pending"]]
    /\ UNCHANGED <<phase, root, run, ending, container, ghost>>
RequestCreate(e) ==
    /\ sup[e] = "pending" /\ sup' = [sup EXCEPT ![e] = "creating"]
    /\ container' = [container EXCEPT ![e] = "requested"]
    /\ UNCHANGED <<phase, root, run, of, ending, record, ghost>>
\* The container is there and is what was asked for.
Created(e) ==
    /\ sup[e] = "creating" /\ container[e] = "created"
    /\ sup' = [sup EXCEPT ![e] = "created"]
    /\ record' = [record EXCEPT ![e].state = "created"]
    /\ UNCHANGED <<phase, root, run, of, ending, container, ghost>>
Attach(e) ==
    /\ sup[e] = "created" /\ sup' = [sup EXCEPT ![e] = "attached"]
    /\ container' = [container EXCEPT ![e] = IF @ = "created" THEN "running" ELSE @]
    /\ record' = [record EXCEPT ![e].state = "starting"]
    /\ UNCHANGED <<phase, root, run, of, ending, ghost>>

\* Whatever comes next, the supervisor goes on to remove the container.
EndsAs(e, result) ==
    /\ sup' = [sup EXCEPT ![e] = "removing"] /\ ending' = [ending EXCEPT ![e] = result]
    /\ UNCHANGED <<phase, root, run, of, container, record, ghost>>
Exited(e) == sup[e] = "attached" /\ container[e] = "exited" /\ EndsAs(e, "exited")
\* The daemon refuses or does not answer in time, the container is not the one asked for,
\* cannot be started, is gone, or still runs when the attachment is lost.
Fails(e) ==
    \/ sup[e] \in {"creating", "created"} /\ EndsAs(e, "failed")
    \/ sup[e] = "attached" /\ container[e] # "exited" /\ EndsAs(e, "failed")
\* A signal, once the handlers are installed.
Interrupted(e) ==
    /\ sup[e] \in {"creating", "created", "attached"}
    /\ run[of[e]] \in {"running", "killing"}
    /\ EndsAs(e, "interrupted")
\* SIGKILL, any signal before they are, or a last record that cannot be written: nothing
\* is written any more.
Killed(e) ==
    /\ sup[e] \in Alive /\ run[of[e]] \in {"running", "killing"}
    /\ sup' = [sup EXCEPT ![e] = "dead"]
    /\ UNCHANGED <<phase, root, run, of, ending, container, record, ghost>>

\* Faulty variant of Named: the containers of the invocation.
NamedByMarker(e) == Belonging(of[e])
\* _remove_named_container: the container of this supervisor and no other.
Named(e) == {e}
Removed(es) == [e \in Executions |-> IF e \in es /\ container[e] \in Present
                                     THEN "absent" ELSE container[e]]
RemoveOwn(e) ==
    /\ sup[e] = "removing" /\ \E x \in Named(e) : container[x] \in Present
    /\ container' = Removed(Named(e))
    /\ UNCHANGED <<phase, root, run, of, sup, ending, record, ghost>>
Supervised(e) ==
    /\ sup[e] = "removing" /\ sup' = [sup EXCEPT ![e] = "gone"]
    /\ \E cleanup \in {"verified", "failed"} :
          /\ cleanup = "verified" => \A x \in Named(e) : container[x] \notin Present
          /\ record' = [record EXCEPT ![e] = [state |-> ending[e], cleanup |-> cleanup]]
    /\ UNCHANGED <<phase, root, run, of, ending, container, ghost>>

\* The daemon: it creates what was requested, even of a client that is gone.
DaemonAnswers(e) ==
    /\ container[e] = "requested"
    /\ \E answer \in {"created", "absent"} : container' = [container EXCEPT ![e] = answer]
    /\ UNCHANGED <<phase, root, run, of, sup, ending, record, ghost>>
ContainerExits(e) ==
    /\ container[e] = "running" /\ container' = [container EXCEPT ![e] = "exited"]
    /\ UNCHANGED <<phase, root, run, of, sup, ending, record, ghost>>

-----------------------------------------------------------------------------
(* The end of an invocation *)

\* The call returned, failed or was cancelled.
End(r) ==
    /\ run[r] = "running" /\ run' = [run EXCEPT ![r] = "killing"]
    /\ UNCHANGED <<phase, root, of, sup, ending, container, record, ghost>>
\* cleanup_processes: the supervisors are stopped before the containers are looked for;
\* an error is only logged.
ProcessesCleaned(r) ==
    /\ run[r] = "killing" /\ run' = [run EXCEPT ![r] = "sweeping"]
    /\ IF \A e \in Belonging(r) : sup[e] \notin Alive THEN UNCHANGED unkilled
       ELSE unkilled' = unkilled \cup {r}
    /\ UNCHANGED <<phase, root, of, sup, ending, container, record, unwritten>>

\* _finalize_records, after the containers were removed or not: what the supervisor could
\* not write.  A write that fails leaves the records after it as they are.
Finalized(es, cleanup) ==
    [e \in Executions |->
        IF e \notin es THEN record[e]
        ELSE [state |-> IF record[e].state \in Open THEN "interrupted" ELSE record[e].state,
              cleanup |-> cleanup]]
Finalize(es, failing) ==
    \E cleanup \in {"verified", "failed"} :
        /\ cleanup = "verified" => \A e \in es : container[e] \notin Present
        /\ record' = Finalized(es \ failing, cleanup)
\* cleanup_invocation, _remove_containers: what the daemon lists is removed and looked
\* for again, until nothing is listed or Docker fails.
Sweep(r) ==
    /\ run[r] = "sweeping" /\ \E e \in Belonging(r) : container[e] \in Present
    /\ container' = Removed(Belonging(r))
    /\ UNCHANGED <<phase, root, run, of, sup, ending, record, ghost>>
Ended(r) ==
    /\ run[r] = "sweeping" /\ run' = [run EXCEPT ![r] = "ended"]
    /\ \E failing \in SUBSET Belonging(r) :
          Finalize(Belonging(r), failing) /\ unwritten' = unwritten \cup failing
    /\ UNCHANGED <<phase, root, of, sup, ending, container, unkilled>>

\* close: the same for the whole scratch, and its trees are removed.
SweepAll ==
    /\ phase = "closing" /\ \E e \in Executions : container[e] \in Present
    /\ container' = Removed(Executions)
    /\ UNCHANGED <<phase, root, run, of, sup, ending, record, ghost>>
Launched == {e \in Executions : of[e] # None}
Closed ==
    /\ phase = "closing" /\ phase' = "over"
    /\ \/ /\ \A e \in Executions : container[e] \notin Present
          /\ record' = Finalized(Launched, "verified")
          /\ root' \in BOOLEAN
       \/ /\ \E failing \in SUBSET Launched : Finalize(Launched, failing)
          /\ UNCHANGED root
    /\ UNCHANGED <<run, of, sup, ending, container, ghost>>
\* Cancelled once more while it waits for the daemon.
CloseCancelled ==
    /\ phase = "closing" /\ phase' = "over"
    /\ UNCHANGED <<root, run, of, sup, ending, container, record, ghost>>

Next ==
    \/ Prepare \/ Prepared \/ Leave \/ SweepAll \/ Closed \/ CloseCancelled
    \/ \E r \in Runs :
          \/ Begin(r) \/ End(r) \/ ProcessesCleaned(r) \/ Sweep(r) \/ Ended(r)
          \/ \E e \in Executions : Launch(r, e)
    \/ \E e \in Executions :
          \/ RequestCreate(e) \/ Created(e) \/ Attach(e) \/ Exited(e) \/ Fails(e)
          \/ Interrupted(e) \/ Killed(e) \/ RemoveOwn(e) \/ Supervised(e)
          \/ DaemonAnswers(e) \/ ContainerExits(e)

Spec == Init /\ [][Next]_vars

-----------------------------------------------------------------------------
(* Properties *)

TypeOK ==
    /\ phase \in {"new", "preparing", "open", "closing", "over"} /\ root \in BOOLEAN
    /\ run \in [Runs -> {"idle", "running", "killing", "sweeping", "ended"}]
    /\ of \in [Executions -> Runs \cup {None}]
    /\ sup \in [Executions -> Alive \cup {"none", "gone", "dead"}]
    /\ ending \in [Executions -> {"none", "exited", "failed", "interrupted"}]
    /\ container \in [Executions -> Present \cup {"absent", "requested"}]
    /\ record \in [Executions -> [state : Open \cup {"none", "exited", "failed", "interrupted"},
                                  cleanup : {"none", "pending", "verified", "failed"}]]
    /\ unkilled \subseteq Runs /\ unwritten \subseteq Executions

\* Clean-up reaches what it has to and nothing else, though supervisors are killed at any
\* point, daemon requests outlive them and calls are retried: nothing runs of a container
\* whose removal a record calls verified, nor in a scratch that was removed; the records
\* of an invocation that ended are settled; and no container is taken from a supervisor
\* that is attached to it while its invocation runs, be it a retry or a status check.
\* (A clean-up of host processes that raised leaves a supervisor that goes on; records the
\* host could not write stay as they were.)
CleanupIsExact ==
    \A e \in Launched :
        /\ of[e] \notin unkilled =>
              /\ record[e].cleanup = "verified" => container[e] \notin {"running", "exited"}
              /\ ~root => container[e] # "running" /\ sup[e] \notin Alive
              /\ run[of[e]] = "ended" /\ e \notin unwritten =>
                    record[e].state \notin Open /\ record[e].cleanup # "pending"
        /\ sup[e] = "attached" /\ run[of[e]] = "running" =>
              container[e] \in {"running", "exited"}
=============================================================================

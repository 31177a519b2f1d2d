---------------------------- MODULE CfsWorkerSpec ----------------------------
(***************************************************************************)
(* What the NFC worker promises to the GUI thread that drives it, with the *)
(* radio, the tag and the retry loops left out: a run is started or        *)
(* stopped by one blocking call (stop, then join, then perhaps start), a   *)
(* run decides at most one result, a result decided after a stop is        *)
(* dropped, and the call returns once the thread is gone.                  *)
(*                                                                         *)
(* CfsNfcWorker implements this module; CfsApp uses it as its worker.      *)
(***************************************************************************)
EXTENDS Naturals, Sequences

VARIABLES
    thread,     \* the worker's FuriThread
    mode,       \* worker->mode
    stop,       \* worker->stop
    call,       \* the blocking call the GUI thread is in, "none" outside one
    result,     \* what the run decided and may be about to hand over
    sent        \* the events the run handed to the callback, while its thread lives

workerVars == <<thread, mode, stop, call, result, sent>>

Modes == {"idle", "read", "write", "erase"}

RunModes == Modes \ {"idle"}

\* Every event a run in mode m can end with.
EventsOf(m) ==
    CASE m = "read" -> {"Success", "BlankTag", "NotPresent", "WrongType",
                        "AuthFailed", "ReadFailed"}
      [] m \in {"write", "erase"} -> {"Success", "NotPresent", "WrongType",
                                      "WriteFailed", "VerifyFailed"}
      [] OTHER -> {}

WorkerEvents == EventsOf("read") \cup EventsOf("write")

------------------------------------------------------------------------------

WorkerInit ==
    /\ thread = "stopped"
    /\ mode = "idle"
    /\ stop = FALSE
    /\ call = "none"
    /\ result = "none"
    /\ sent = <<>>

\* The GUI thread calls start_read, start_write or start_erase: the call
\* begins with a stop of whatever runs.
CallStart(m) ==
    /\ call = "none"
    /\ call' = m
    /\ stop' = TRUE
    /\ UNCHANGED <<thread, mode, result, sent>>

\* The GUI thread calls cfs_nfc_worker_stop.
CallStop ==
    /\ call = "none"
    /\ call' = "stop"
    /\ stop' = TRUE
    /\ UNCHANGED <<thread, mode, result, sent>>

\* The join of a stop returns and nothing is started.
ReturnStopped ==
    /\ call = "stop"
    /\ thread = "stopped"
    /\ mode' = "idle"
    /\ call' = "none"
    /\ UNCHANGED <<thread, stop, result, sent>>

\* The join of a start returns and the new run begins.
ReturnStarted ==
    /\ call \in RunModes
    /\ thread = "stopped"
    /\ mode' = call
    /\ stop' = FALSE
    /\ thread' = "running"
    /\ call' = "none"
    /\ UNCHANGED <<result, sent>>

\* The run ends with result e; a stop seen now drops it.
Decide(e) ==
    /\ thread = "running"
    /\ e \in EventsOf(mode)
    /\ result' = e
    /\ thread' = IF stop THEN "exiting" ELSE "sending"
    /\ UNCHANGED <<mode, stop, call, sent>>

\* The callback runs, whether or not a stop came after the check.
Send ==
    /\ thread = "sending"
    /\ sent' = Append(sent, result)
    /\ thread' = "exiting"
    /\ UNCHANGED <<mode, stop, call, result>>

Exit ==
    /\ thread = "exiting"
    /\ thread' = "stopped"
    /\ result' = "none"
    /\ sent' = <<>>
    /\ UNCHANGED <<mode, stop, call>>

------------------------------------------------------------------------------

Return == ReturnStopped \/ ReturnStarted

RunStep == (\E e \in WorkerEvents : Decide(e)) \/ Send \/ Exit

WorkerNext ==
    \/ \E m \in RunModes : CallStart(m)
    \/ CallStop
    \/ Return
    \/ RunStep

WorkerSpec == WorkerInit /\ [][WorkerNext]_workerVars

\* The scheduler runs the worker thread, and a join that can return does.
WorkerFairness == WF_workerVars(RunStep) /\ WF_workerVars(Return)
==============================================================================

-------------------------- MODULE MCAlertDispatch --------------------------
(***************************************************************************)
(* The two ends of the pipeline for TLC, one behaviour each: the outbox    *)
(* deliveries come in through, with its refinement of the abstract outbox, *)
(* and the stream its Transitions go out through, three of them, one of    *)
(* which this build cannot render.                                         *)
(***************************************************************************)
EXTENDS AlertDispatch

VARIABLES
  part,
  entry, writer, stage, expired, written, upsets, stops

streamVars == <<entry, writer, stage, expired, written, upsets, stops>>

Stream == INSTANCE TransitionStream WITH
  Transitions <- 1 .. 3, Unrenderable <- {2}, Batch <- 2, MaxFaults <- 1, MaxStops <- 1,
  worker <- writer, phase <- stage, faults <- upsets

AllInit == part \in {"outbox", "stream"} /\ Init /\ Stream!Init

AllNext ==
  /\ \/ part = "outbox" /\ Next /\ UNCHANGED streamVars
     \/ part = "stream" /\ Stream!Next /\ UNCHANGED vars
  /\ UNCHANGED part

\* The fairness of each component, for the behaviours that are its own.
FairAllSpec ==
  /\ AllInit /\ [][AllNext]_<<part, vars, streamVars>>
  /\ \A d \in Deliveries : WF_vars(part = "outbox" /\ TimerReached(d))
  /\ \A e \in Executors : /\ WF_vars(part = "outbox" /\ ClaimAlertDispatches(e))
                          /\ WF_vars(part = "outbox" /\ ApplyStep(e))
                          /\ WF_vars(part = "outbox" /\ RetryAlertDispatch(e))
  /\ WF_vars(part = "outbox" /\ Boot)
  /\ WF_vars(part = "outbox" /\ DrainDone)
  /\ WF_vars(part = "outbox" /\ StartWorkers)
  /\ WF_vars(part = "outbox" /\ LoopExits)
  /\ WF_vars(part = "outbox" /\ StopReceivers)
  /\ WF_vars(part = "outbox" /\ DrainCancelled)
  /\ WF_vars(part = "outbox" /\ Exit)
  /\ WF_streamVars(part = "stream" /\ Stream!Step)
  /\ WF_streamVars(part = "stream" /\ Stream!LoopEnds)
  /\ WF_streamVars(part = "stream" /\ Stream!Stopped)
  /\ WF_streamVars(part = "stream" /\ Stream!Boot)
  /\ \A t \in 1 .. 3 : /\ WF_streamVars(part = "stream" /\ Stream!LeaseExpires(t))
                      /\ WF_streamVars(part = "stream" /\ Stream!RetryDue(t))

\* The worker, through crashes and restarts, implements the abstract outbox:
\* an accepted delivery settles once and for all, and it does settle.
ImplementsOutbox == Outbox!FairSpec

\* TransitionStream: whatever fails and whenever the process stops, every Transition that can
\* be rendered is written to stdout and then acknowledged (RunOnce, Stop,
\* RecoverExpiredTransitionStreamClaims).
StreamIsComplete == Stream!StreamIsComplete
=============================================================================

------------------------------- MODULE Lifecycle -------------------------------
(***************************************************************************)
(* How the speaker process starts and ends (pkg/speaker/manager.go, Run in *)
(* cmd/speaker/app/speaker.go): Start waits for the signal or for an       *)
(* error; the controller manager and every speaker run in goroutines of    *)
(* their own, report errors on unbuffered channels, and are waited for.    *)
(***************************************************************************)
EXTENDS Naturals

CONSTANTS Speakers, Layer2,   \* Layer2: the speaker that sends reloads to the controllers
          Fails               \* who may fail: speakers, and "mgr", the controller manager

VARIABLES start,      \* Start: "select", "wait" or "returned"
          result,     \* what Start returns: "nil" or "error"
          ctx,        \* the signal has come
          ictx,       \* the inner context is cancelled
          cancelled,  \* speakers whose context was cancelled by Start
          mgr,        \* goroutine of the controller manager: "runs", "error" or "done"
          sp,         \* goroutine of speaker s: "starts", "runs", "reload", "error" or "done"
          causes      \* ghost: the signal, the failures, and an event not yet dealt with

vars == <<start, result, ctx, ictx, cancelled, mgr, sp, causes>>

Stop(s) == ctx \/ s \in cancelled

------------------------------------------------------------------------------
(* Start.                                                                  *)

\* ctx.Done(): the contexts of the speakers are children of ctx.
Done ==
    /\ start = "select" /\ ctx
    /\ ictx' = TRUE /\ start' = "wait" /\ result' = "nil"
    /\ UNCHANGED <<ctx, cancelled, mgr, sp, causes>>

\* errCh: the error is received, and the loop goes on.
MgrError ==
    /\ start = "select" /\ mgr = "error"
    /\ mgr' = "done" /\ result' = "error"
    /\ UNCHANGED <<start, ctx, ictx, cancelled, sp, causes>>

\* Mutant of SpeakerError: the other speakers are not cancelled.
SpeakerError_NoCancel(s) ==
    /\ start = "select" /\ sp[s] = "error"
    /\ sp' = [sp EXCEPT ![s] = "done"] /\ ictx' = TRUE /\ cancelled' = {s}
    /\ start' = "wait" /\ result' = "error"
    /\ UNCHANGED <<ctx, mgr, causes>>

\* errChan: an error of a speaker ends everything.
SpeakerError(s) ==
    /\ start = "select" /\ sp[s] = "error"
    /\ sp' = [sp EXCEPT ![s] = "done"] /\ ictx' = TRUE /\ cancelled' = Speakers
    /\ start' = "wait" /\ result' = "error"
    /\ UNCHANGED <<ctx, mgr, causes>>

Wait ==
    /\ start = "wait" /\ mgr = "done" /\ \A s \in Speakers : sp[s] = "done"
    /\ start' = "returned"
    /\ UNCHANGED <<result, ctx, ictx, cancelled, mgr, sp, causes>>

------------------------------------------------------------------------------
(* The goroutines.                                                         *)

MgrStops ==
    /\ mgr = "runs" /\ ictx /\ mgr' = "done"
    /\ UNCHANGED <<start, result, ctx, ictx, cancelled, sp, causes>>

MgrFail ==
    /\ "mgr" \in Fails /\ mgr = "runs" /\ mgr' = "error" /\ causes' = causes \cup {"mgr"}
    /\ UNCHANGED <<start, result, ctx, ictx, cancelled, sp>>

\* The speaker returns nil when it is told to stop.
SpeakerStops(s) ==
    /\ sp[s] = "runs" /\ Stop(s) /\ sp' = [sp EXCEPT ![s] = "done"]
    /\ UNCHANGED <<start, result, ctx, ictx, cancelled, mgr, causes>>

\* It returns an error: layer 2 when it cannot join the other members, keepalived when it
\* cannot be started again or, told to stop, when there is no process to kill.
SpeakerFails(s) ==
    /\ s \in Fails /\ sp[s] = (IF s = Layer2 THEN "starts" ELSE "runs")
    /\ sp' = [sp EXCEPT ![s] = "error"] /\ causes' = causes \cup {s}
    /\ UNCHANGED <<start, result, ctx, ictx, cancelled, mgr>>

joinMembers ==
    /\ sp[Layer2] = "starts" /\ sp' = [sp EXCEPT ![Layer2] = "runs"]
    /\ UNCHANGED <<start, result, ctx, ictx, cancelled, mgr, causes>>

\* The select of layer2Speaker.Start takes an event; from then on it only sends.
MemberEvent ==
    /\ sp[Layer2] = "runs" /\ causes' = causes \cup {"event"}
    /\ sp' = [sp EXCEPT ![Layer2] = "reload"]
    /\ UNCHANGED <<start, result, ctx, ictx, cancelled, mgr>>

\* The Eip controller receives from reloadChan while it runs.
Reloaded ==
    /\ sp[Layer2] = "reload" /\ mgr = "runs" /\ ~ictx
    /\ sp' = [sp EXCEPT ![Layer2] = "runs"] /\ causes' = causes \ {"event"}
    /\ UNCHANGED <<start, result, ctx, ictx, cancelled, mgr>>

Signal ==
    /\ ~ctx /\ start # "returned" /\ ctx' = TRUE /\ causes' = causes \cup {"signal"}
    /\ UNCHANGED <<start, result, ictx, cancelled, mgr, sp>>

------------------------------------------------------------------------------
Init ==
    /\ start = "select" /\ result = "nil" /\ ctx = FALSE /\ ictx = FALSE /\ cancelled = {}
    /\ mgr = "runs" /\ sp = [s \in Speakers |-> IF s = Layer2 THEN "starts" ELSE "runs"] /\ causes = {}

Steps ==
    \/ Done \/ MgrError \/ (\E s \in Speakers : SpeakerError(s)) \/ Wait

Goroutines == MgrStops \/ joinMembers \/ Reloaded \/ \E s \in Speakers : SpeakerStops(s)

World ==
    \/ Signal \/ MemberEvent \/ MgrFail
    \/ \E s \in Speakers : SpeakerFails(s)

Next == Steps \/ Goroutines \/ World

Spec == Init /\ [][Next]_vars

Fairness ==
    /\ WF_vars(Steps) /\ WF_vars(MgrStops) /\ WF_vars(joinMembers) /\ WF_vars(Reloaded)
    /\ \A s \in Speakers : WF_vars(SpeakerStops(s))

FairSpec == Spec /\ Fairness

------------------------------------------------------------------------------
(* Properties.                                                             *)

\* Start, RegisterSpeaker: the signal alone, or the error of one speaker alone, ends the
\* process with all that runs in it, whatever events the members caused before.
EndsForOneCause ==
    <>[](\E c \in Speakers \cup {"signal"} : causes = {c}) => <>(start = "returned")

\* manager.go says of Start that ctx controls the entire program life cycle: when the
\* signal has come, Start returns.
StopsOnSignal == ctx ~> start = "returned"
===============================================================================

------------------------------ MODULE Lifecycle ------------------------------
(***************************************************************************)
(* The threads of one validator process from start to end (cli.py): the    *)
(* main thread in validation_loop, the challenge generator thread, the     *)
(* daemon thread that reloads the settings, and the signal handler, which  *)
(* Python runs on the main thread, between any two of its instructions,    *)
(* those of an earlier signal's handler included.                          *)
(*                                                                         *)
(* What a step of the loop and a task of the generator do is modelled in   *)
(* ValidatorEpoch and ChallengePool; here they run, end or raise.          *)
(*                                                                         *)
(* threading.Event guards its flag with a lock that is not reentrant: wait *)
(* holds it while it goes to sleep and when it comes back, set holds it    *)
(* while it sets the flag and wakes who waits, is_set does not take it.    *)
(* join takes a lock of the thread that ends and releases it.              *)
(***************************************************************************)
EXTENDS Naturals, Sequences

CONSTANT MaxSignals     \* bound: SIGINT and SIGTERM received

ASSUME SignalsAssumption == MaxSignals \in Nat

VARIABLES
    main,       \* where the main thread is
    failed,     \* validation_loop was left by an exception
    gen,        \* the challenge generator thread
    reloader,   \* the settings thread
    frames,     \* where each shutdown_handler under way is, the innermost last
    terminate,  \* terminate_event, shared by main and gen
    stop,       \* _stop_event of the SettingsManager
    signals

vars == <<main, failed, gen, reloader, frames, terminate, stop, signals>>

Init ==
    /\ main = "check" /\ failed = FALSE
    /\ gen = "check" /\ reloader = "wait" /\ frames = <<>>
    /\ terminate = FALSE /\ stop = FALSE
    /\ signals = 0

-----------------------------------------------------------------------------
(* The main thread; it does not move while it runs a handler.              *)

MainMoves(from, to) ==
    /\ frames = <<>>
    /\ main = from /\ main' = to
    /\ UNCHANGED <<gen, reloader, frames, terminate, stop, signals>>

Check ==
    /\ MainMoves("check", IF terminate THEN "join" ELSE "step")
    /\ UNCHANGED failed

StepEnds == MainMoves("step", "after") /\ UNCHANGED failed

(* asyncio.run raises what validate_step raised: only KeyboardInterrupt is *)
(* caught. The interpreter waits for its non-daemon threads all the same.  *)
StepRaises == MainMoves("step", "join") /\ failed' = TRUE

(* The next step begins at once if this one took ITERATION_INTERVAL.       *)
AfterStep ==
    /\ \/ terminate /\ MainMoves("after", "join")
       \/ ~terminate /\ MainMoves("after", "check")
       \/ ~terminate /\ MainMoves("after", "entering")
    /\ UNCHANGED failed

(* terminate_event.wait(sleep_time): it holds the event's lock entering    *)
(* and leaving.                                                            *)
HoldsLock == main \in {"entering", "leaving"}

EnterWait ==
    /\ MainMoves("entering", IF terminate THEN "woken" ELSE "waiting")
    /\ UNCHANGED failed

(* A bug: wait() without a timeout.                                        *)
WaitForEvent == terminate /\ MainMoves("waiting", "leaving") /\ UNCHANGED failed

WaitEnds == MainMoves("waiting", "leaving") /\ UNCHANGED failed

LeaveWait == MainMoves("leaving", "woken") /\ UNCHANGED failed

Woken ==
    /\ MainMoves("woken", IF terminate THEN "join" ELSE "check")
    /\ UNCHANGED failed

(* A bug: the generator is a daemon thread nobody joins.                   *)
EndWithoutJoin == MainMoves("join", "ended") /\ UNCHANGED failed

(* challenge_generator_thread.join(), or the interpreter's own.            *)
End ==
    /\ gen = "ended"
    /\ MainMoves("join", "ended")
    /\ UNCHANGED failed

MainThread ==
    \/ Check \/ StepEnds \/ AfterStep
    \/ EnterWait \/ WaitEnds \/ LeaveWait \/ Woken \/ End

-----------------------------------------------------------------------------
(* The generator thread: a task per network and pool, then a sleep that    *)
(* looks at the event every second. A task may raise.                      *)

Alive == main # "ended"

GenMoves(from, to) ==
    /\ Alive
    /\ gen = from /\ gen' = to
    /\ UNCHANGED <<main, failed, reloader, frames, terminate, stop, signals>>

Generate ==
    \/ GenMoves("check", IF terminate THEN "ended" ELSE "task")
    \/ \E next \in {"check", "sleep", "ended"} : GenMoves("task", next)
    \/ GenMoves("sleep", "check")

(* Who holds a lock a handler takes: a handler further out that is inside  *)
(* set or at the end of join, or the main thread in wait.                  *)

Blocks(outer, stage) ==
    \/ stage = "set" /\ outer \in {"setting", "notifying"}
    \/ stage = "stop" /\ outer \in {"stopping", "stopped"}
    \/ stage = "join" /\ outer = "joined"

Free(stage) ==
    /\ \A i \in DOMAIN frames : ~Blocks(frames[i], stage)
    /\ stage = "set" => ~HoldsLock

(* The settings thread reloads after 600 seconds or when it is stopped; it *)
(* leaves its wait under the lock of _stop_event. An exception of reload   *)
(* ends it.                                                                *)

ReloaderMoves(from, to) ==
    /\ Alive
    /\ reloader = from /\ reloader' = to
    /\ UNCHANGED <<main, failed, gen, frames, terminate, stop, signals>>

Reload ==
    \/ Free("stop") /\ ReloaderMoves("wait", "reload")
    \/ ReloaderMoves("reload", IF stop THEN "ended" ELSE "wait")

ReloadRaises == ReloaderMoves("reload", "ended")

-----------------------------------------------------------------------------
(* shutdown_handler: set terminate_event, set _stop_event, join the        *)
(* settings thread. Only the innermost handler runs.                       *)

Signal ==
    /\ Alive /\ signals < MaxSignals
    /\ frames' = Append(frames, "set")
    /\ signals' = signals + 1
    /\ UNCHANGED <<main, failed, gen, reloader, terminate, stop>>

Top == frames[Len(frames)]

HandlerMoves(from, to) ==
    /\ frames # <<>> /\ Top = from
    /\ frames' = [frames EXCEPT ![Len(frames)] = to]
    /\ UNCHANGED <<main, failed, gen, reloader, signals>>

(* terminate_event.set().                                                  *)
SetTerminate ==
    \/ Free("set") /\ HandlerMoves("set", "setting") /\ UNCHANGED <<terminate, stop>>
    \/ HandlerMoves("setting", "notifying") /\ terminate' = TRUE /\ UNCHANGED stop
    \/ HandlerMoves("notifying", "stop") /\ UNCHANGED <<terminate, stop>>

(* A bug: the thread is joined without being stopped.                      *)
JoinOnly == HandlerMoves("stop", "join") /\ UNCHANGED <<terminate, stop>>

(* _stop_event.set().                                                      *)
stop_reloader ==
    \/ Free("stop") /\ HandlerMoves("stop", "stopping") /\ UNCHANGED <<terminate, stop>>
    \/ HandlerMoves("stopping", "stopped") /\ stop' = TRUE /\ UNCHANGED terminate
    \/ HandlerMoves("stopped", "join") /\ UNCHANGED <<terminate, stop>>

(* join takes the lock the thread has released with its end. (CPython; from *)
(* 3.13 on nothing is held here.)                                          *)
ReloaderJoined ==
    /\ reloader = "ended" /\ Free("join")
    /\ HandlerMoves("join", "joined")
    /\ UNCHANGED <<terminate, stop>>

HandlerReturns ==
    /\ frames # <<>> /\ Top = "joined"
    /\ frames' = SubSeq(frames, 1, Len(frames) - 1)
    /\ UNCHANGED <<main, failed, gen, reloader, terminate, stop, signals>>

Handler == SetTerminate \/ stop_reloader \/ ReloaderJoined \/ HandlerReturns

(* The process has ended.                                                  *)
Ended == ~Alive /\ UNCHANGED vars

Next ==
    \/ MainThread \/ StepRaises
    \/ Generate \/ Reload \/ ReloadRaises
    \/ Signal \/ Handler
    \/ Ended

(* Every thread is scheduled, a step and a task end (every request they    *)
(* wait for has a timeout), and a wait times out. No signal has to come.   *)
Fairness ==
    /\ WF_vars(MainThread) /\ WF_vars(Generate)
    /\ WF_vars(Reload) /\ WF_vars(Handler)

Spec == Init /\ [][Next]_vars

FairSpec == Spec /\ Fairness

-----------------------------------------------------------------------------
Stages == {"set", "setting", "notifying", "stop", "stopping", "stopped", "join", "joined"}

(* Every variable has its type.                                            *)
TypeOK ==
    /\ main \in {"check", "step", "after", "entering", "waiting", "leaving",
                 "woken", "join", "ended"}
    /\ failed \in BOOLEAN
    /\ gen \in {"check", "task", "sleep", "ended"}
    /\ reloader \in {"wait", "reload", "ended"}
    /\ frames \in Seq(Stages)
    /\ terminate \in BOOLEAN /\ stop \in BOOLEAN
    /\ signals \in 0..MaxSignals

(* The process does not end under a task of the generator or under its own *)
(* signal handler, whether the loop ended or failed, and it does not end by *)
(* itself: it was told to, or an exception took both threads.              *)
EndsInOrder ==
    main = "ended" =>
        /\ gen = "ended" /\ frames = <<>>
        /\ terminate \/ failed

(* Once terminate_event is set the process ends, wherever the threads are: *)
(* in a step, in a task, in a sleep, in a reload, or in a handler that     *)
(* waits for the reload while a second signal comes. The exception is a    *)
(* signal that finds the main thread, in wait or in an earlier handler,    *)
(* holding a lock its own handler takes (cli.py:87, _config.py:141).       *)
CaughtHoldingLock ==
    \E i \in DOMAIN frames :
        \/ frames[i] = "set" /\ HoldsLock
        \/ \E j \in 1..(i - 1) : Blocks(frames[j], frames[i])

TerminateEndsProcess == terminate ~> (main = "ended" \/ CaughtHoldingLock)

(* Epochs follow each other until the event is set or one of them raises.  *)
EpochsGoOn == []<>(main = "step") \/ <>(terminate \/ failed \/ frames # <<>>)

(* "Signal handling for graceful shutdown" (cli.py:91): a signal ends the  *)
(* process.                                                                *)
SignalEndsProcess == (signals > 0) ~> (main = "ended")
=============================================================================

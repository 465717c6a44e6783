--------------------------- MODULE LifecycleProofs ---------------------------
(***************************************************************************)
(* The process ends in order, however many signals it receives, and a      *)
(* shutdown takes boundedly many steps, one of which can always be taken.  *)
(***************************************************************************)
EXTENDS Lifecycle, Integers, SequenceTheorems, TLAPS

(* What EndsInOrder needs to be inductive: the main thread is only ever    *)
(* joining after the event was set or its loop was left by an exception.   *)
JoinsForAReason == main = "join" => terminate \/ failed

Inv == TypeOK /\ EndsInOrder /\ JoinsForAReason

LEMMA InitInv == Init => Inv
<1> SUFFICES ASSUME Init PROVE Inv
  OBVIOUS
<1>1. signals \in 0..MaxSignals
  BY SignalsAssumption DEF Init
<1>2. frames \in Seq(Stages)
  BY DEF Init
<1>3. TypeOK
  BY <1>1, <1>2 DEF Init, TypeOK
<1> QED
  BY <1>3 DEF Init, Inv, EndsInOrder, JoinsForAReason

LEMMA MainKeepsInv == Inv /\ (MainThread \/ StepRaises) => Inv'
<1> SUFFICES ASSUME Inv, MainThread \/ StepRaises PROVE Inv'
  OBVIOUS
<1> USE DEF Inv, TypeOK, EndsInOrder, JoinsForAReason, MainMoves
<1>1. CASE Check BY <1>1 DEF Check
<1>2. CASE StepEnds BY <1>2 DEF StepEnds
<1>3. CASE AfterStep BY <1>3 DEF AfterStep
<1>4. CASE EnterWait BY <1>4 DEF EnterWait
<1>5. CASE WaitEnds BY <1>5 DEF WaitEnds
<1>6. CASE LeaveWait BY <1>6 DEF LeaveWait
<1>7. CASE Woken BY <1>7 DEF Woken
<1>8. CASE End BY <1>8 DEF End
<1>9. CASE StepRaises BY <1>9 DEF StepRaises
<1> QED
  BY <1>1, <1>2, <1>3, <1>4, <1>5, <1>6, <1>7, <1>8, <1>9 DEF MainThread

LEMMA OthersKeepInv == Inv /\ (Generate \/ Reload \/ ReloadRaises) => Inv'
<1> SUFFICES ASSUME Inv, Generate \/ Reload \/ ReloadRaises PROVE Inv'
  OBVIOUS
<1> USE DEF Inv, TypeOK, EndsInOrder, JoinsForAReason, Alive
<1>1. CASE Generate BY <1>1 DEF Generate, GenMoves
<1>2. CASE Reload BY <1>2 DEF Reload, ReloaderMoves
<1>3. CASE ReloadRaises BY <1>3 DEF ReloadRaises, ReloaderMoves
<1> QED
  BY <1>1, <1>2, <1>3

(* The handlers under way, with one more, one further or one less.         *)
LEMMA FramesType ==
  ASSUME NEW S, NEW s \in Seq(S)
  PROVE  /\ \A x \in S : Append(s, x) \in Seq(S)
         /\ s # <<>> => /\ \A x \in S : [s EXCEPT ![Len(s)] = x] \in Seq(S)
                        /\ SubSeq(s, 1, Len(s) - 1) \in Seq(S)
                        /\ Len(SubSeq(s, 1, Len(s) - 1)) = Len(s) - 1
<1>1. \A x \in S : Append(s, x) \in Seq(S)
  OBVIOUS
<1>2. ASSUME NEW x \in S, s # <<>> PROVE [s EXCEPT ![Len(s)] = x] \in Seq(S)
  BY <1>2
<1>3. ASSUME s # <<>>
      PROVE  /\ SubSeq(s, 1, Len(s) - 1) \in Seq(S)
             /\ Len(SubSeq(s, 1, Len(s) - 1)) = Len(s) - 1
  <2>1. 1 \in Int /\ Len(s) - 1 \in Nat /\ \A i \in 1..(Len(s) - 1) : s[i] \in S
    BY <1>3
  <2> DEFINE k == Len(s) - 1
  <2>2. k \in Int /\ \A i \in 1..k : s[i] \in S
    BY <2>1
  <2> HIDE DEF k
  <2>3. SubSeq(s, 1, k) \in Seq(S) /\ Len(SubSeq(s, 1, k)) = IF 1 <= k THEN k - 1 + 1 ELSE 0
    BY <2>2, SubSeqProperties
  <2>4. k \in Nat /\ k = Len(s) - 1
    BY <2>1 DEF k
  <2>5. (IF 1 <= k THEN k - 1 + 1 ELSE 0) = k
    BY <2>4
  <2> QED
    BY <2>3, <2>4, <2>5
<1> QED
  BY <1>1, <1>2, <1>3

LEMMA SignalsKeepInv == Inv /\ (Signal \/ Handler) => Inv'
<1> SUFFICES ASSUME Inv, Signal \/ Handler PROVE Inv'
  OBVIOUS
<1> USE DEF Inv, TypeOK, EndsInOrder, JoinsForAReason
<1>0. frames' \in Seq(Stages)
  <2>1. CASE Signal
    BY <2>1, FramesType DEF Signal, Stages
  <2>2. CASE HandlerReturns
    BY <2>2, FramesType DEF HandlerReturns
  <2>3. CASE SetTerminate \/ stop_reloader \/ ReloaderJoined
    <3>1. PICK to \in Stages : frames' = [frames EXCEPT ![Len(frames)] = to] /\ frames # <<>>
      BY <2>3 DEF SetTerminate, stop_reloader, ReloaderJoined, HandlerMoves, Stages
    <3> QED
      BY <3>1, FramesType
  <2> QED
    BY <2>1, <2>2, <2>3 DEF Handler
<1>1. CASE Signal BY <1>0, <1>1, SignalsAssumption DEF Signal, Alive
<1>2. CASE SetTerminate BY <1>0, <1>2 DEF SetTerminate, HandlerMoves
<1>3. CASE stop_reloader BY <1>0, <1>3 DEF stop_reloader, HandlerMoves
<1>4. CASE ReloaderJoined BY <1>0, <1>4 DEF ReloaderJoined, HandlerMoves
<1>5. CASE HandlerReturns
  <2>1. main # "ended"
    BY <1>5 DEF HandlerReturns
  <2> QED
    BY <1>0, <1>5, <2>1 DEF HandlerReturns
<1> QED
  BY <1>1, <1>2, <1>3, <1>4, <1>5 DEF Handler

LEMMA NextKeepsInv == Inv /\ [Next]_vars => Inv'
<1> SUFFICES ASSUME Inv, [Next]_vars PROVE Inv'
  OBVIOUS
<1>1. CASE MainThread \/ StepRaises BY <1>1, MainKeepsInv
<1>2. CASE Generate \/ Reload \/ ReloadRaises BY <1>2, OthersKeepInv
<1>3. CASE Signal \/ Handler BY <1>3, SignalsKeepInv
<1>4. CASE UNCHANGED vars
  BY <1>4 DEF vars, Inv, TypeOK, EndsInOrder, JoinsForAReason
<1> QED
  BY <1>1, <1>2, <1>3, <1>4 DEF Next, Ended

(* Every variable keeps its type: the states the threads, the handler and  *)
(* the two events of the process can be in.                                *)
THEOREM TypeCorrect == Spec => []TypeOK
<1>1. Inv => TypeOK
  BY DEF Inv
<1> QED
  BY <1>1, InitInv, NextKeepsInv, PTL DEF Spec

(* The process never ends under a task of the generator or under its own   *)
(* handler, and never without a reason, however many signals come.         *)
THEOREM ProcessEndsInOrder == Spec => []EndsInOrder
<1>1. Inv => EndsInOrder
  BY DEF Inv
<1> QED
  BY <1>1, InitInv, NextKeepsInv, PTL DEF Spec
-----------------------------------------------------------------------------
(* What TerminateEndsProcess rests on besides fairness: shutdown takes no  *)
(* more steps than a number of them, and there is one to take.             *)

MainLeft(m) ==
    CASE m = "ended" -> 0
      [] m = "join" -> 1
      [] m \in {"check", "woken", "after"} -> 2
      [] m \in {"step", "entering", "leaving"} -> 3
      [] OTHER -> 4

GenLeft(g) ==
    CASE g = "ended" -> 0 [] g = "check" -> 1 [] g = "sleep" -> 2 [] OTHER -> 3

(* Until it is stopped the settings thread goes round.                     *)
ReloaderLeft(r, stopped) ==
    CASE r = "ended" -> 0
      [] r # "ended" /\ ~stopped -> 3
      [] r = "wait" /\ stopped -> 2
      [] OTHER -> 1

StageLeft(stage) ==
    CASE stage = "set" -> 8 [] stage = "setting" -> 7 [] stage = "notifying" -> 6
      [] stage = "stop" -> 5 [] stage = "stopping" -> 4 [] stage = "stopped" -> 3
      [] stage = "join" -> 2 [] OTHER -> 1

(* A handler that returns leaves the one it has interrupted where it was.  *)
HandlersLeft(fs) == IF fs = <<>> THEN 0 ELSE 9 * Len(fs) + StageLeft(fs[Len(fs)])

(* The steps of the handlers that each signal yet to come takes.           *)
SignalsLeft(n) == 18 * (MaxSignals - n)

StepsLeft ==
    MainLeft(main) + GenLeft(gen) + ReloaderLeft(reloader, stop) + HandlersLeft(frames)
        + SignalsLeft(signals)

(* A reload of the settings thread nobody has told to stop.                *)
GoesRound == ~stop /\ (Reload \/ ReloadRaises)

(* Once the event is set, every step of any thread and every signal brings *)
(* the end nearer, but for reloads before the settings thread is stopped.  *)
ShutdownAdvances ==
    [][terminate => StepsLeft' < StepsLeft \/ (GoesRound /\ StepsLeft' <= StepsLeft)]_vars

(* A step that brings it nearer, of the main thread, of the generator, of  *)
(* the innermost handler, or of a settings thread that is to stop.         *)
HandlerCanMove ==
    /\ frames # <<>>
    /\ \/ Top \in {"setting", "notifying", "stopping", "stopped", "joined"}
       \/ Top \in {"set", "stop"} /\ Free(Top)
       \/ Top = "join" /\ reloader = "ended" /\ Free("join")

SomeThreadCanMove ==
    \/ frames = <<>> /\ main \notin {"join", "ended"}
    \/ frames = <<>> /\ main = "join" /\ gen = "ended"
    \/ gen # "ended"
    \/ HandlerCanMove
    \/ stop /\ reloader = "reload"
    \/ stop /\ reloader = "wait" /\ Free("stop")

NobodyWaitsForNobody ==
    main # "ended" /\ ~CaughtHoldingLock => SomeThreadCanMove

(* A handler only joins a thread that was told to stop, and it got there   *)
(* past the lock of _stop_event, so that no handler further out has it.    *)
StopsBeforeJoin ==
    \A i \in DOMAIN frames :
        /\ frames[i] \in {"stopped", "join", "joined"} => stop
        /\ frames[i] \in {"stopping", "stopped", "join", "joined"} =>
              \A j \in 1..(i - 1) : ~Blocks(frames[j], "stop")

LEMMA HandlersType == TypeOK => HandlersLeft(frames) \in Nat
<1> SUFFICES ASSUME TypeOK PROVE HandlersLeft(frames) \in Nat
  OBVIOUS
<1>1. frames # <<>> => Len(frames) \in Nat /\ StageLeft(frames[Len(frames)]) \in 1..8
  BY DEF TypeOK, StageLeft
<1> QED
  BY <1>1 DEF HandlersLeft

(* The number of steps left is one.                                        *)
LEMMA LeftType == TypeOK => StepsLeft \in Nat
<1> SUFFICES ASSUME TypeOK PROVE StepsLeft \in Nat
  OBVIOUS
<1>1. MainLeft(main) \in 0..4
  BY DEF MainLeft
<1>2. GenLeft(gen) \in 0..3
  BY DEF GenLeft
<1>3. ReloaderLeft(reloader, stop) \in 0..3
  BY DEF ReloaderLeft
<1>4. HandlersLeft(frames) \in Nat
  BY HandlersType
<1>5. SignalsLeft(signals) \in Nat
  BY SignalsAssumption DEF TypeOK, SignalsLeft
<1> QED
  BY <1>1, <1>2, <1>3, <1>4, <1>5 DEF StepsLeft

LEMMA MainAdvances ==
  TypeOK /\ terminate /\ (MainThread \/ StepRaises) => StepsLeft' < StepsLeft
<1> SUFFICES ASSUME TypeOK, terminate, MainThread \/ StepRaises
             PROVE  StepsLeft' < StepsLeft
  OBVIOUS
<1>1. MainLeft(main) \in Nat /\ MainLeft(main') \in Nat /\ MainLeft(main') < MainLeft(main)
  <2> USE DEF MainMoves, MainLeft
  <2>1. CASE Check BY <2>1 DEF Check
  <2>2. CASE StepEnds BY <2>2 DEF StepEnds
  <2>3. CASE AfterStep BY <2>3 DEF AfterStep
  <2>4. CASE EnterWait BY <2>4 DEF EnterWait
  <2>5. CASE WaitEnds BY <2>5 DEF WaitEnds
  <2>6. CASE LeaveWait BY <2>6 DEF LeaveWait
  <2>7. CASE Woken BY <2>7 DEF Woken
  <2>8. CASE End BY <2>8 DEF End
  <2>9. CASE StepRaises BY <2>9 DEF StepRaises
  <2> QED
    BY <2>1, <2>2, <2>3, <2>4, <2>5, <2>6, <2>7, <2>8, <2>9 DEF MainThread
<1>2. UNCHANGED <<gen, reloader, frames, stop, signals>>
  BY DEF MainThread, StepRaises, Check, StepEnds, AfterStep, EnterWait, WaitEnds,
         LeaveWait, Woken, End, MainMoves
<1>3. /\ GenLeft(gen') = GenLeft(gen)
      /\ ReloaderLeft(reloader', stop') = ReloaderLeft(reloader, stop)
      /\ HandlersLeft(frames') = HandlersLeft(frames)
      /\ SignalsLeft(signals') = SignalsLeft(signals)
  BY <1>2 DEF GenLeft, ReloaderLeft, HandlersLeft, SignalsLeft
<1>4. /\ GenLeft(gen) \in Int /\ HandlersLeft(frames) \in Int
      /\ ReloaderLeft(reloader, stop) \in Int
  BY HandlersType DEF GenLeft, ReloaderLeft
<1>5. SignalsLeft(signals) \in Int
  BY SignalsAssumption DEF TypeOK, SignalsLeft
<1> QED
  BY <1>1, <1>3, <1>4, <1>5 DEF StepsLeft

LEMMA GeneratorAdvances == TypeOK /\ terminate /\ Generate => StepsLeft' < StepsLeft
<1> SUFFICES ASSUME TypeOK, terminate, Generate PROVE StepsLeft' < StepsLeft
  OBVIOUS
<1>1. GenLeft(gen) \in Nat /\ GenLeft(gen') \in Nat /\ GenLeft(gen') < GenLeft(gen)
  <2>1. CASE gen = "check" /\ gen' = "ended" BY <2>1 DEF GenLeft
  <2>2. CASE gen = "task" /\ gen' \in {"check", "sleep", "ended"} BY <2>2 DEF GenLeft
  <2>3. CASE gen = "sleep" /\ gen' = "check" BY <2>3 DEF GenLeft
  <2> QED
    BY <2>1, <2>2, <2>3 DEF Generate, GenMoves
<1>2. UNCHANGED <<main, reloader, frames, stop, signals>>
  BY DEF Generate, GenMoves
<1>3. /\ MainLeft(main') = MainLeft(main)
      /\ ReloaderLeft(reloader', stop') = ReloaderLeft(reloader, stop)
      /\ HandlersLeft(frames') = HandlersLeft(frames)
      /\ SignalsLeft(signals') = SignalsLeft(signals)
  BY <1>2 DEF MainLeft, ReloaderLeft, HandlersLeft, SignalsLeft
<1>4. /\ MainLeft(main) \in Int /\ HandlersLeft(frames) \in Int
      /\ ReloaderLeft(reloader, stop) \in Int
  BY HandlersType DEF MainLeft, ReloaderLeft
<1>5. SignalsLeft(signals) \in Int
  BY SignalsAssumption DEF TypeOK, SignalsLeft
<1> QED
  BY <1>1, <1>3, <1>4, <1>5 DEF StepsLeft

LEMMA ReloaderAdvances ==
  TypeOK /\ (Reload \/ ReloadRaises) =>
    StepsLeft' < StepsLeft \/ (~stop /\ StepsLeft' <= StepsLeft)
<1> SUFFICES ASSUME TypeOK, Reload \/ ReloadRaises
             PROVE  StepsLeft' < StepsLeft \/ (~stop /\ StepsLeft' <= StepsLeft)
  OBVIOUS
<1>1. /\ ReloaderLeft(reloader, stop) \in Nat /\ ReloaderLeft(reloader', stop') \in Nat
      /\ \/ ReloaderLeft(reloader', stop') < ReloaderLeft(reloader, stop)
         \/ ~stop /\ ReloaderLeft(reloader', stop') <= ReloaderLeft(reloader, stop)
  BY DEF Reload, ReloadRaises, ReloaderMoves, ReloaderLeft
<1>2. UNCHANGED <<main, gen, frames, signals>>
  BY DEF Reload, ReloadRaises, ReloaderMoves
<1>3. /\ MainLeft(main') = MainLeft(main) /\ GenLeft(gen') = GenLeft(gen)
      /\ HandlersLeft(frames') = HandlersLeft(frames)
      /\ SignalsLeft(signals') = SignalsLeft(signals)
  BY <1>2 DEF MainLeft, GenLeft, HandlersLeft, SignalsLeft
<1>4. MainLeft(main) \in Int /\ GenLeft(gen) \in Int /\ HandlersLeft(frames) \in Int
  BY HandlersType DEF MainLeft, GenLeft
<1>5. SignalsLeft(signals) \in Int
  BY SignalsAssumption DEF TypeOK, SignalsLeft
<1> QED
  BY <1>1, <1>3, <1>4, <1>5 DEF StepsLeft

(* A signal takes up to nine steps, and one of those that may come.        *)
LEMMA SignalAdvances ==
  TypeOK /\ Signal =>
    HandlersLeft(frames') + SignalsLeft(signals') < HandlersLeft(frames) + SignalsLeft(signals)
<1> SUFFICES ASSUME TypeOK, Signal
             PROVE  HandlersLeft(frames') + SignalsLeft(signals')
                      < HandlersLeft(frames) + SignalsLeft(signals)
  OBVIOUS
<1>1. /\ frames' # <<>> /\ Len(frames') = Len(frames) + 1 /\ Len(frames) \in Nat
      /\ frames'[Len(frames')] = "set"
  BY DEF TypeOK, Signal
<1>2. HandlersLeft(frames') = 9 * Len(frames) + 17
  BY <1>1 DEF HandlersLeft, StageLeft
<1>3. HandlersLeft(frames) \in Int /\ HandlersLeft(frames) >= 9 * Len(frames)
  <2>1. CASE frames = <<>> BY <2>1 DEF HandlersLeft
  <2>2. CASE frames # <<>>
    <3>1. StageLeft(frames[Len(frames)]) \in 1..8
      BY DEF StageLeft
    <3> QED
      BY <1>1, <2>2, <3>1 DEF HandlersLeft
  <2> QED
    BY <2>1, <2>2
<1>4. SignalsLeft(signals) \in Int /\ SignalsLeft(signals') = SignalsLeft(signals) - 18
  BY SignalsAssumption DEF TypeOK, Signal, SignalsLeft
<1> QED
  BY <1>1, <1>2, <1>3, <1>4

(* The innermost handler goes on, or returns to the one before it.         *)
LEMMA FrameAdvances ==
  TypeOK /\ Handler => HandlersLeft(frames') \in Int /\ HandlersLeft(frames') < HandlersLeft(frames)
<1> SUFFICES ASSUME TypeOK, Handler
             PROVE  HandlersLeft(frames') \in Int /\ HandlersLeft(frames') < HandlersLeft(frames)
  OBVIOUS
<1>1. frames # <<>> /\ Len(frames) \in Nat \ {0} /\ Top = frames[Len(frames)]
  BY DEF TypeOK, Handler, SetTerminate, stop_reloader, ReloaderJoined, HandlerReturns,
         HandlerMoves, Top
<1>2. HandlersLeft(frames) = 9 * Len(frames) + StageLeft(Top)
  BY <1>1 DEF HandlersLeft
<1>3. \A stage : StageLeft(stage) \in 1..8
  BY DEF StageLeft
<1>4. CASE SetTerminate \/ stop_reloader \/ ReloaderJoined
  <2>1. PICK to : /\ frames' = [frames EXCEPT ![Len(frames)] = to]
                  /\ StageLeft(to) < StageLeft(Top)
    BY <1>4 DEF SetTerminate, stop_reloader, ReloaderJoined, HandlerMoves, StageLeft
  <2>2. frames' # <<>> /\ Len(frames') = Len(frames) /\ frames'[Len(frames')] = to
    BY <1>1, <2>1 DEF TypeOK
  <2>3. HandlersLeft(frames') = 9 * Len(frames) + StageLeft(to)
    BY <2>2 DEF HandlersLeft
  <2> QED
    BY <1>1, <1>2, <1>3, <2>1, <2>3
<1>5. CASE HandlerReturns
  <2>1. Len(frames') = Len(frames) - 1
    BY <1>1, <1>5, FramesType DEF HandlerReturns, TypeOK
  <2>2. \/ HandlersLeft(frames') = 0
        \/ HandlersLeft(frames') = 9 * (Len(frames) - 1) + StageLeft(frames'[Len(frames')])
    BY <2>1 DEF HandlersLeft
  <2>3. StageLeft(frames'[Len(frames')]) \in 1..8
    BY <1>3
  <2> QED
    BY <1>1, <1>2, <1>3, <2>2, <2>3
<1> QED
  BY <1>4, <1>5 DEF Handler

LEMMA HandlerAdvances == TypeOK /\ (Signal \/ Handler) => StepsLeft' < StepsLeft
<1> SUFFICES ASSUME TypeOK, Signal \/ Handler PROVE StepsLeft' < StepsLeft
  OBVIOUS
<1>1. /\ SignalsLeft(signals) \in Int /\ SignalsLeft(signals') \in Int
      /\ HandlersLeft(frames) \in Int /\ HandlersLeft(frames') \in Int
      /\ HandlersLeft(frames') + SignalsLeft(signals')
           < HandlersLeft(frames) + SignalsLeft(signals)
  <2>1. SignalsLeft(signals) \in Int /\ HandlersLeft(frames) \in Int
    BY SignalsAssumption, HandlersType DEF TypeOK, SignalsLeft
  <2>2. CASE Signal
    <3>1. signals' \in Int /\ SignalsLeft(signals') \in Int
      BY <2>2, SignalsAssumption DEF Signal, TypeOK, SignalsLeft
    <3>2. SignalsLeft(signals') \in Int /\ HandlersLeft(frames') \in Int
      <4>1. frames' # <<>> => Len(frames') \in Nat
        BY <2>2, FramesType DEF TypeOK, Signal, Stages
      <4>2. StageLeft(frames'[Len(frames')]) \in 1..8
        BY DEF StageLeft
      <4> QED
        BY <3>1, <4>1, <4>2 DEF HandlersLeft
    <3> QED
      BY <2>1, <2>2, <3>2, SignalAdvances
  <2>3. CASE Handler
    <3>1. signals' = signals
      BY <2>3 DEF Handler, SetTerminate, stop_reloader, ReloaderJoined, HandlerReturns,
                  HandlerMoves
    <3>2. SignalsLeft(signals') = SignalsLeft(signals)
      BY <3>1 DEF SignalsLeft
    <3> QED
      BY <2>1, <2>3, <3>2, FrameAdvances
  <2> QED
    BY <2>2, <2>3
<1>2. UNCHANGED <<main, gen, reloader>> /\ (UNCHANGED stop \/ stop' = TRUE)
  BY DEF Signal, Handler, SetTerminate, stop_reloader, ReloaderJoined, HandlerReturns,
         HandlerMoves
<1>3. /\ MainLeft(main) \in Int /\ MainLeft(main') = MainLeft(main)
      /\ GenLeft(gen) \in Int /\ GenLeft(gen') = GenLeft(gen)
  BY <1>2 DEF MainLeft, GenLeft
<1>4. /\ ReloaderLeft(reloader, stop) \in Int /\ ReloaderLeft(reloader', stop') \in Int
      /\ ReloaderLeft(reloader', stop') <= ReloaderLeft(reloader, stop)
  <2>1. CASE UNCHANGED stop BY <1>2, <2>1 DEF ReloaderLeft
  <2>2. CASE stop' = TRUE BY <1>2, <2>2 DEF ReloaderLeft
  <2> QED
    BY <1>2, <2>1, <2>2
<1> QED
  BY ONLY <1>1, <1>3, <1>4 DEF StepsLeft

(* A shutdown cannot go on for ever by the steps of any thread or by the   *)
(* signals that come meanwhile: what is left of it is a natural number, and *)
(* only a settings thread nobody has stopped yet moves without lowering it. *)
THEOREM ShutdownIsFinite == Spec => [](StepsLeft \in Nat) /\ ShutdownAdvances
<1>1. Inv => StepsLeft \in Nat
  BY LeftType DEF Inv
<1>2. ASSUME Inv, [Next]_vars
      PROVE  [terminate => \/ StepsLeft' < StepsLeft
                           \/ GoesRound /\ StepsLeft' <= StepsLeft]_vars
  <2> SUFFICES ASSUME vars' # vars, terminate
               PROVE  StepsLeft' < StepsLeft \/ (GoesRound /\ StepsLeft' <= StepsLeft)
    OBVIOUS
  <2>1. TypeOK
    BY <1>2 DEF Inv
  <2>2. CASE MainThread \/ StepRaises BY <2>1, <2>2, MainAdvances
  <2>3. CASE Generate BY <2>1, <2>3, GeneratorAdvances
  <2>4. CASE Reload \/ ReloadRaises BY <2>1, <2>4, ReloaderAdvances DEF GoesRound
  <2>5. CASE Signal \/ Handler BY <2>1, <2>5, HandlerAdvances
  <2> QED
    BY <1>2, <2>2, <2>3, <2>4, <2>5 DEF Next, Ended
<1> QED
  BY <1>1, <1>2, InitInv, NextKeepsInv, PTL DEF Spec, ShutdownAdvances

LEMMA NextStopsBeforeJoin == TypeOK /\ StopsBeforeJoin /\ [Next]_vars => StopsBeforeJoin'
<1> SUFFICES ASSUME TypeOK, StopsBeforeJoin, [Next]_vars PROVE StopsBeforeJoin'
  OBVIOUS
<1>1. ASSUME UNCHANGED <<frames, stop>> PROVE StopsBeforeJoin'
  BY <1>1 DEF StopsBeforeJoin
<1>2. CASE MainThread \/ StepRaises
  BY <1>1, <1>2 DEF MainThread, StepRaises, Check, StepEnds, AfterStep, EnterWait, WaitEnds,
                    LeaveWait, Woken, End, MainMoves
<1>3. CASE Generate \/ Reload \/ ReloadRaises
  BY <1>1, <1>3 DEF Generate, GenMoves, Reload, ReloadRaises, ReloaderMoves
<1>4. CASE Signal
  <2>1. /\ stop' = stop /\ Len(frames) \in Nat /\ DOMAIN frames = 1..Len(frames)
        /\ DOMAIN frames' = 1..(Len(frames) + 1) /\ frames'[Len(frames) + 1] = "set"
        /\ \A i \in DOMAIN frames : frames'[i] = frames[i]
    BY <1>4 DEF Signal, TypeOK
  <2> QED
    BY <2>1 DEF StopsBeforeJoin
<1>5. CASE HandlerReturns
  <2>1. /\ stop' = stop /\ Len(frames) \in Nat \ {0} /\ DOMAIN frames = 1..Len(frames)
        /\ DOMAIN frames' = 1..(Len(frames) - 1)
        /\ \A i \in DOMAIN frames' : frames'[i] = frames[i]
    BY <1>5 DEF HandlerReturns, TypeOK
  <2> QED
    BY <2>1 DEF StopsBeforeJoin
<1>6. CASE SetTerminate \/ stop_reloader \/ ReloaderJoined
  <2>1. PICK to :
           /\ frames' = [frames EXCEPT ![Len(frames)] = to] /\ frames # <<>>
           /\ to \in {"stopped", "join", "joined"} => stop' \/ Top \in {"stopped", "join"}
           /\ to \in {"stopping", "stopped", "join", "joined"} =>
                 Free("stop") \/ Top \in {"stopping", "stopped", "join"}
           /\ stop => stop'
    BY <1>6 DEF SetTerminate, stop_reloader, ReloaderJoined, HandlerMoves
  <2>2. /\ Len(frames) \in Nat \ {0} /\ DOMAIN frames = 1..Len(frames)
        /\ DOMAIN frames' = 1..Len(frames) /\ frames'[Len(frames)] = to
        /\ \A i \in 1..(Len(frames) - 1) : frames'[i] = frames[i]
    BY <2>1 DEF TypeOK
  <2>3. Top = frames[Len(frames)] /\ Len(frames) \in DOMAIN frames
    BY <2>2 DEF Top
  <2>4. ASSUME NEW i \in 1..(Len(frames) - 1)
        PROVE  /\ frames'[i] \in {"stopped", "join", "joined"} => stop'
               /\ frames'[i] \in {"stopping", "stopped", "join", "joined"} =>
                     \A j \in 1..(i - 1) : ~Blocks(frames'[j], "stop")
    <3>1. i \in DOMAIN frames /\ frames'[i] = frames[i]
      BY <2>2
    <3>2. \A j \in 1..(i - 1) : frames'[j] = frames[j]
      BY <2>2
    <3> QED
      BY <2>1, <3>1, <3>2 DEF StopsBeforeJoin
  <2>5. to \in {"stopped", "join", "joined"} => stop'
    BY <2>1, <2>3 DEF StopsBeforeJoin
  <2>6. to \in {"stopping", "stopped", "join", "joined"} =>
            \A j \in 1..(Len(frames) - 1) : ~Blocks(frames'[j], "stop")
    <3>1. Free("stop") => \A j \in 1..(Len(frames) - 1) : ~Blocks(frames[j], "stop")
      BY <2>2 DEF Free
    <3>2. Top \in {"stopping", "stopped", "join"} =>
              \A j \in 1..(Len(frames) - 1) : ~Blocks(frames[j], "stop")
      BY <2>3 DEF StopsBeforeJoin
    <3> QED
      BY <2>1, <2>2, <3>1, <3>2
  <2>7. \A i \in DOMAIN frames' : i = Len(frames) \/ i \in 1..(Len(frames) - 1)
    BY <2>2
  <2> QED
    BY <2>2, <2>4, <2>5, <2>6, <2>7 DEF StopsBeforeJoin
<1>7. CASE UNCHANGED vars
  BY <1>1, <1>7 DEF vars
<1> QED
  BY <1>2, <1>3, <1>4, <1>5, <1>6, <1>7 DEF Next, Ended, Handler

(* No two threads and no handler wait for each other: short of the end     *)
(* there is a thread that can move, unless the main thread, in wait or in  *)
(* a handler further out, holds a lock that its own handler wants: the     *)
(* deadlock that SignalEndsProcess finds, and the same one level deeper.   *)
THEOREM NoDeadlockButTheLock == Spec => []NobodyWaitsForNobody
<1>1. Init => StopsBeforeJoin
  BY DEF Init, StopsBeforeJoin
<1>2. Inv /\ StopsBeforeJoin => NobodyWaitsForNobody
  <2> SUFFICES ASSUME Inv, StopsBeforeJoin, main # "ended", ~CaughtHoldingLock
               PROVE  SomeThreadCanMove
    BY DEF NobodyWaitsForNobody
  <2>1. CASE frames = <<>>
    BY <2>1 DEF SomeThreadCanMove
  <2>2. CASE frames # <<>>
    <3>1. /\ Len(frames) \in DOMAIN frames /\ Top = frames[Len(frames)]
          /\ \A i \in DOMAIN frames : i = Len(frames) \/ i \in 1..(Len(frames) - 1)
      BY <2>2 DEF Inv, TypeOK, Top
    <3>2. \A x : ~Blocks(x, x)
      BY DEF Blocks
    <3>3. Free(Top)
      BY <3>1, <3>2 DEF CaughtHoldingLock, Free
    <3>4. CASE Top \in {"setting", "notifying", "stop", "stopping", "stopped", "joined", "set"}
      BY <2>2, <3>3, <3>4 DEF SomeThreadCanMove, HandlerCanMove
    <3>5. CASE Top = "join"
      <4>1. stop /\ Free("stop")
        <5>1. stop /\ \A j \in 1..(Len(frames) - 1) : ~Blocks(frames[j], "stop")
          BY <3>1, <3>5 DEF StopsBeforeJoin
        <5>2. ~Blocks("join", "stop")
          BY DEF Blocks
        <5> QED
          BY <3>1, <3>5, <5>1, <5>2 DEF Free
      <4>2. reloader \in {"wait", "reload", "ended"}
        BY DEF Inv, TypeOK
      <4> QED
        BY <2>2, <3>3, <3>5, <4>1, <4>2 DEF SomeThreadCanMove, HandlerCanMove
    <3>6. Top \in {"set", "setting", "notifying", "stop", "stopping", "stopped", "join", "joined"}
      BY <3>1 DEF Inv, TypeOK, Stages
    <3> QED
      BY <3>4, <3>5, <3>6
  <2> QED
    BY <2>1, <2>2
<1>3. Inv => TypeOK
  BY DEF Inv
<1> QED
  BY <1>1, <1>2, <1>3, InitInv, NextKeepsInv, NextStopsBeforeJoin, PTL DEF Spec
=============================================================================

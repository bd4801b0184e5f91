---------------------------- MODULE ErrorHandler ----------------------------
(***************************************************************************)
(* The context managers ErrorHandler and ExitHandler                       *)
(* (certbot/_internal/error_handler.py): with blocks whose cleanup         *)
(* functions run when the body fails or a signal comes, and the signal     *)
(* handlers they put in place of each other.  The program enters blocks    *)
(* one after the other and one in the other, a new handler object for      *)
(* each, as certbot does.  The signals of _SIGNALS are treated alike, so   *)
(* they are one signal that may come several times; _set_signal_handlers   *)
(* and _reset_signal_handlers, which go through them, are one step each,   *)
(* and no signal comes between the end of a body and the first line of     *)
(* __exit__.  SIGINT is not one of _SIGNALS: it raises KeyboardInterrupt,  *)
(* an "interrupt" here, where the program is, in an __exit__ too.          *)
(***************************************************************************)
EXTENDS Naturals, Sequences

CONSTANTS
    Last,           \* bound: handler objects 1..Last
    MaxFuncs,       \* bound: functions registered with one handler
    MaxSignals      \* bound: signals sent to the process

ASSUME BoundAssumption ==
    Last \in Nat /\ MaxFuncs \in Nat \ {0} /\ MaxSignals \in Nat

VARIABLES
    pc,         \* "run", "ended" or, by the default action of a signal, "dead"
    stack,      \* the handlers whose with block is not left, innermost last
    made,       \* how many handlers were made
    how,        \* per handler, how far its block is
    regular,    \* per handler, call_on_regular_exit
    funcs,      \* per handler, how many registered functions are left
    received,   \* per handler, how many signals it received
    called,     \* per handler, how many of those were sent again
    disp,       \* the handler of signals, Default for the default action
    prev,       \* per handler, prev_handlers
    exc,        \* the exception that is raised in the innermost block
    sent        \* how many signals were sent to the process

vars == <<pc, stack, made, how, regular, funcs, received, called, disp, prev, exc, sent>>

Handler == 1..Last
Default == 0

(* A block is not entered, in its body, left without cleanup, in its       *)
(* cleanup, after it, or left when its __exit__ was cut short.             *)
How == {"new", "open", "passed", "cleanup", "cleaned", "cut"}
BodyExecuted(h) == how[h] \notin {"new", "open"}

Top == stack[Len(stack)]
Outer == SubSeq(stack, 1, Len(stack) - 1)
InBody == pc = "run" /\ (stack # <<>> => how[Top] = "open")
InExit(phase) == pc = "run" /\ stack # <<>> /\ how[Top] = phase

Init ==
    /\ pc = "run" /\ stack = <<>> /\ made = 0 /\ exc = "none" /\ sent = 0
    /\ how = [h \in Handler |-> "new"]
    /\ regular = [h \in Handler |-> FALSE]
    /\ funcs = [h \in Handler |-> 0]
    /\ received = [h \in Handler |-> 0] /\ called = [h \in Handler |-> 0]
    /\ disp = Default /\ prev = [h \in Handler |-> Default]

-----------------------------------------------------------------------------
(* __init__ and __enter__, of an ErrorHandler or an ExitHandler.           *)
Enter(exitHandler) ==
    /\ InBody /\ exc = "none" /\ made < Last
    /\ made' = made + 1
    /\ stack' = Append(stack, made')
    /\ how' = [how EXCEPT ![made'] = "open"]
    /\ regular' = [regular EXCEPT ![made'] = exitHandler]
    /\ funcs' = [funcs EXCEPT ![made'] = 1]
    /\ prev' = [prev EXCEPT ![made'] = disp]
    /\ disp' = made'
    /\ UNCHANGED <<pc, received, called, exc, sent>>

Register ==
    /\ InBody /\ exc = "none" /\ stack # <<>> /\ funcs[Top] < MaxFuncs
    /\ funcs' = [funcs EXCEPT ![Top] = @ + 1]
    /\ UNCHANGED <<pc, stack, made, how, regular, received, called, disp, prev, exc, sent>>

(* The code of a body, or outside of all blocks, raises or catches: an     *)
(* error or SignalExit, and nowhere SystemExit or KeyboardInterrupt.       *)
Raise(e) ==
    /\ InBody /\ exc = "none"
    /\ exc' = e
    /\ UNCHANGED <<pc, stack, made, how, regular, funcs, received, called, disp, prev, sent>>

Catch ==
    /\ InBody /\ exc \in {"error", "signal"}
    /\ exc' = "none"
    /\ UNCHANGED <<pc, stack, made, how, regular, funcs, received, called, disp, prev, sent>>

-----------------------------------------------------------------------------
(* __exit__ begins.  SystemExit, and the regular end of the block of an    *)
(* ErrorHandler, leave it at once.                                         *)
NoCleanup(h) == exc = "exit" \/ (exc = "none" /\ ~ regular[h])

Exit ==
    /\ InBody /\ stack # <<>>
    /\ how' = [how EXCEPT ![Top] = IF NoCleanup(Top) THEN "passed" ELSE "cleanup"]
    /\ stack' = IF NoCleanup(Top) THEN Outer ELSE stack
    /\ UNCHANGED <<pc, made, regular, funcs, received, called, disp, prev, exc, sent>>

(* _call_registered: the last function is called and then removed, whether *)
(* it returns or raises an Exception.                                      *)
CallFunc ==
    /\ InExit("cleanup") /\ funcs[Top] > 0
    /\ funcs' = [funcs EXCEPT ![Top] = @ - 1]
    /\ UNCHANGED <<pc, stack, made, how, regular, received, called, disp, prev, exc, sent>>

(* What is not an Exception leaves _call_registered and __exit__ at once:  *)
(* SystemExit of a function, or KeyboardInterrupt of it or of what         *)
(* follows.  The function is not removed, those before it are not called,  *)
(* the handlers are not reset and what was received is not sent again.     *)
ExitCut(e) ==
    /\ \/ e = "exit" /\ InExit("cleanup") /\ funcs[Top] > 0
       \/ e = "interrupt" /\ (InExit("cleanup") \/ InExit("cleaned"))
    /\ how' = [how EXCEPT ![Top] = "cut"]
    /\ stack' = Outer
    /\ exc' = e
    /\ UNCHANGED <<pc, made, regular, funcs, received, called, disp, prev, sent>>

(* _reset_signal_handlers, when all functions are called.                  *)
ResetEarly ==
    /\ InExit("cleanup")
    /\ disp' = prev[Top]
    /\ how' = [how EXCEPT ![Top] = IF funcs[Top] = 0 THEN "cleaned" ELSE "cleanup"]
    /\ UNCHANGED <<pc, stack, made, regular, funcs, received, called, prev, exc, sent>>
ResetSignalHandlers ==
    /\ InExit("cleanup") /\ funcs[Top] = 0
    /\ disp' = prev[Top]
    /\ how' = [how EXCEPT ![Top] = "cleaned"]
    /\ UNCHANGED <<pc, stack, made, regular, funcs, received, called, prev, exc, sent>>

(* A signal arrives: the default action kills, _signal_handler notes it    *)
(* and, before body_executed is set, raises SignalExit where the program   *)
(* is: in a body, or in an __exit__, which is then left.  (A cleanup       *)
(* function that is interrupted this way is over, and the next is called.) *)
SignalExitAlways(h) ==
    /\ exc' = "signal"
    /\ stack' = IF InBody THEN stack ELSE Outer
SignalExit(h) ==
    IF BodyExecuted(h) THEN UNCHANGED <<exc, stack>>
                       ELSE /\ exc' = "signal"
                            /\ stack' = IF InBody THEN stack ELSE Outer

Deliver ==
    \/ /\ disp = Default
       /\ pc' = "dead"
       /\ UNCHANGED <<received, stack, exc>>
    \/ /\ disp # Default
       /\ received' = [received EXCEPT ![disp] = @ + 1]
       /\ SignalExit(disp)
       /\ UNCHANGED pc

Signal ==
    /\ pc = "run" /\ sent < MaxSignals
    /\ sent' = sent + 1
    /\ Deliver
    /\ UNCHANGED <<made, how, regular, funcs, called, disp, prev>>

(* _call_signals: what was received is sent to the process itself, now     *)
(* that the previous handler is back.                                      *)
SkipSignals ==
    /\ InExit("cleaned") /\ called[Top] < received[Top]
    /\ called' = [called EXCEPT ![Top] = received[Top]]
    /\ UNCHANGED <<pc, stack, made, how, regular, funcs, received, disp, prev, exc, sent>>
CallSignal ==
    /\ InExit("cleaned") /\ called[Top] < received[Top]
    /\ called' = [called EXCEPT ![Top] = @ + 1]
    /\ Deliver
    /\ UNCHANGED <<made, how, regular, funcs, disp, prev, sent>>

(* __exit__ returns; SignalExit goes no further.                           *)
Return ==
    /\ InExit("cleaned") /\ called[Top] = received[Top]
    /\ stack' = Outer
    /\ exc' = IF exc = "signal" THEN "none" ELSE exc
    /\ UNCHANGED <<pc, made, how, regular, funcs, received, called, disp, prev, sent>>

(* The program is over.                                                    *)
End ==
    /\ InBody /\ stack = <<>>
    /\ pc' = "ended"
    /\ UNCHANGED <<stack, made, how, regular, funcs, received, called, disp, prev, exc, sent>>

(* The steps of an __exit__ that has begun.                                *)
ExitStep == CallFunc \/ ResetSignalHandlers \/ CallSignal \/ Return

Next ==
    \/ \E b \in BOOLEAN : Enter(b)
    \/ Register \/ (\E e \in {"error", "exit", "interrupt"} : Raise(e)) \/ Catch
    \/ Exit \/ ExitStep
    \/ \E e \in {"exit", "interrupt"} : ExitCut(e)
    \/ Signal
    \/ End

Spec == Init /\ [][Next]_vars

(* An __exit__ that has begun goes on.                                     *)
FairSpec == Spec /\ WF_vars(ExitStep)

-----------------------------------------------------------------------------

(* The process is not gone, by a signal or by an exception nobody caught,  *)
(* before the cleanup functions of every block that owes them were called. *)
(* A block whose own __exit__ was cut short by the user, or by a function  *)
(* that exits, owes nothing any more; the blocks around it still do.       *)
CleanedBeforeGone ==
    pc # "run" => \A h \in 1..made : \/ how[h] \in {"passed", "cut"}
                                     \/ how[h] = "cleaned" /\ funcs[h] = 0

(* Signals that come during a cleanup are deferred: they neither kill the  *)
(* process nor leave the block, whichever handler is in place.             *)
CleanupUndisturbed ==
    [][InExit("cleanup") /\ how'[Top] # "cut" => pc' = "run" /\ stack' = stack]_vars

(* A block that a signal interrupted is not left as if nothing had been:   *)
(* the signal is sent again to the handler before, and in the end to the   *)
(* default action, with which certbot is started.                          *)
InterruptedGoesOn == InExit("cleaned") /\ exc = "signal" /\ pc' = "run" /\ exc' = "none"
SignalIsHeeded == [][~ InterruptedGoesOn]_vars

(* That is so, and no signal is lost, as long as no block was left without *)
(* its __exit__ done: these do not put the previous handler back.          *)
Stale == {h \in Handler : how[h] \in {"passed", "cut"}}
HeededUnlessStale ==
    [][Stale = {} => /\ ~ InterruptedGoesOn
                     /\ stack = <<>> => \A h \in Handler : received[h] = 0]_vars

(* A cleanup ends, though functions raise and signals come, unless it is   *)
(* cut short.                                                              *)
CleanupEnds == \A h \in Handler : how[h] = "cleanup" ~> how[h] \in {"cleaned", "cut"}
=============================================================================

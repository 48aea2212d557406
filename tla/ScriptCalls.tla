----------------------------- MODULE ScriptCalls -----------------------------
(***************************************************************************)
(* How the calls of scripted functions are scheduled (script/script.cc).   *)
(* A scenario or an AI player runs its script on one thread of a virtual   *)
(* machine.  A call that takes too long is suspended, and so is one that   *)
(* uses a tool in a network game, until the tool is done.  Calls that are  *)
(* made meanwhile are queued; who made them is called back with the value. *)
(* A suspended call goes on, and a queued one starts, only when the next   *)
(* call is made.                                                           *)
(*                                                                         *)
(* A call here is a function with its arguments, of type QUEUE: the only   *)
(* one in use that can be suspended.  Calls that must return at once       *)
(* (FORCE) have a thread of their own.                                     *)
(***************************************************************************)
EXTENDS Naturals, Sequences, SequencesExt

CONSTANTS
    Calls,         \* the calls that are made
    Returning,     \* those that give a value
    Size,          \* the number of parameters of each call
    Callers,       \* who wants to be called back with a value
    NoCall,
    Regular,       \* a call that is made again and again, as the step of an AI player
    MaxCallbacks   \* a bound on the callbacks of one queued call

ASSUME ScriptCallsAssumption ==
    /\ Returning \subseteq Calls /\ NoCall \notin Calls
    /\ Regular \in Calls \ Returning
    /\ Size \in [Calls -> Nat] /\ MaxCallbacks \in Nat

VARIABLES
    vm,    \* the thread, the call it runs while it is suspended, and the registry: queue,
           \* queued_callbacks and active_callbacks
    seen   \* what happened so far to callers and calls, for the properties (not in the code)

vars == <<vm, seen>>

Callback == [caller : Callers, call : Calls]
Entry    == [call : Calls, whole : BOOLEAN]

\* How far a call gets: it ends with a value or an error, it is out of opcodes or sleeps,
\* or it waits for a tool.
Ending     == {"value", "error"}
Suspending == {"suspended", "waiting"}
Outcomes   == Ending \cup Suspending

\* s is a state of both variables
Becomes(s) == vm' = s.vm /\ seen' = s.seen

-----------------------------------------------------------------------------
(* intern_call_callbacks, for a call that ended as how says.  Of all       *)
(* active callbacks it calls the last.                                     *)

Called(s, call, how) ==
    IF how = "value" /\ call \in Returning /\ s.vm.active # <<>>
    THEN {Last(s.vm.active)} ELSE {}

Finished(s, call, how) ==
    LET called == Called(s, call, how)
    IN  [vm   |-> [s.vm EXCEPT !.thread = "idle", !.running = NoCall,
                               !.active = IF called = {} THEN @ ELSE <<>>],
         seen |-> [s.seen EXCEPT
                      !.awaited = {},
                      !.wrong   = @ \cup (called \ s.seen.awaited),
                      !.unheard = IF how = "value" THEN @ \cup (s.seen.awaited \ called)
                                  ELSE @,
                      !.silent  = IF how = "value" /\ called = {} THEN @ \cup s.seen.awaited
                                  ELSE @]]

\* intern_call_function for a call from the queue, and sq_resumevm
Runs(s, call, how) ==
    IF how \in Suspending
    THEN [s EXCEPT !.vm.thread = how, !.vm.running = call]
    ELSE Finished(s, call, how)

-----------------------------------------------------------------------------
(* The queue.                                                              *)

\* a plausible bug: parameters are counted and not compared
SameSize(e, call) == Size[e.call] = Size[call]
SameCall(e, call) == e.whole /\ e.call = call

\* a plausible bug: who asks for a call that is in the queue is not called back
ForgetsCallback(callbacks, pending) == callbacks
AddCallback(callbacks, pending) == callbacks \o pending

Comparable(e, call) == e.whole /\ Size[e.call] = Size[call]

(* intern_queue_call.  An entry that has another size than the call is     *)
(* left on the stack: if it is the last, the registry and an array are     *)
(* appended to it, in place of the call to the queue.  It has two          *)
(* parameters more then, more than any call.                               *)
Enqueued(q, call, pending) ==
    LET same == {i \in DOMAIN q.queue : SameCall(q.queue[i], call)}
        n    == Len(q.queue)
    IN  IF same # {}
        THEN [q EXCEPT !.queued = [i \in DOMAIN @ |-> IF i \in same
                                                      THEN AddCallback(@[i], pending)
                                                      ELSE @[i]]]
        ELSE IF n > 0 /\ ~Comparable(q.queue[n], call)
        THEN [q EXCEPT !.queue[n].whole = FALSE]
        ELSE [q EXCEPT !.queue  = Append(@, [call |-> call, whole |-> TRUE]),
                       !.queued = Append(@, pending)]

QueueCall(s, call, pending) ==
    [vm   |-> Enqueued(s.vm, call, pending),
     seen |-> [s.seen EXCEPT !.owed    = @ \cup {call},
                             !.asked   = @ \cup ToSet(pending),
                             !.unheard = {}]]

\* plausible bugs: the callbacks of the call stay in their queue, and are not activated
KeepsCallbacks(q) == [q EXCEPT !.queue = Tail(@), !.active = Head(q.queued)]
StaleCallbacks(q) == [q EXCEPT !.queue = Tail(@), !.queued = Tail(@)]

\* intern_prepare_queued
Dequeued(q) == [q EXCEPT !.queue = Tail(@), !.queued = Tail(@), !.active = Head(q.queued)]

\* the first of the queue is no longer owed; its callers wait for what is going to run
Started(s) ==
    LET first  == Head(s.vm.queue)
        askers == {a \in s.seen.asked : a.call = first.call}
    IN  [vm   |-> Dequeued(s.vm),
         seen |-> [s.seen EXCEPT !.asked = @ \ askers, !.awaited = askers,
                                 !.owed  = IF first.whole THEN @ \ {first.call} ELSE @]]

RunQueued(s, how) ==
    IF s.vm.queue = <<>> THEN Becomes(s)
    ELSE \E started \in {Started(s)} :
            Becomes(Runs(started, Head(s.vm.queue).call,
                         IF Head(s.vm.queue).whole THEN how ELSE "error"))

GoesOn(s, how, next) ==
    IF how \in Suspending THEN Becomes(Runs(s, s.vm.running, how))
    ELSE \E ended \in {Finished(s, s.vm.running, how)} : RunQueued(ended, next)

\* a plausible bug: an idle thread is not resumed
ResumesSuspended(s, how, next) ==
    \/ s.vm.thread \in {"idle", "waiting"} /\ Becomes(s)
    \/ s.vm.thread = "suspended" /\ GoesOn(s, how, next)

(* intern_resume_call: the suspended call goes on, and if it ends, or      *)
(* there was none, the first of the queue starts.                          *)
ResumeCall(s, how, next) ==
    \/ s.vm.thread = "waiting" /\ Becomes(s)
    \/ s.vm.thread = "idle" /\ RunQueued(s, next)
    \/ s.vm.thread = "suspended" /\ GoesOn(s, how, next)

-----------------------------------------------------------------------------
(* call_function with QUEUE, after prepare_callback for who wants it       *)

\* what prepare_callback leaves for the call: nothing or one callback
Pending(call) ==
    {<<>>} \cup {<<[caller |-> p, call |-> call]>> : p \in IF call \in Returning THEN Callers
                                                           ELSE {}}

Busy == vm.thread # "idle" \/ vm.queue # <<>>

\* It is run at once: the caller gets a value or error, or learns that it was suspended.
CallNow(call, pending, how) ==
    /\ ~Busy
    /\ vm' = [vm EXCEPT !.active = pending,
                        !.thread = IF how \in Suspending THEN how ELSE "idle",
                        !.running = IF how \in Suspending THEN call ELSE NoCall]
    /\ seen' = [seen EXCEPT !.awaited = IF how \in Suspending THEN ToSet(pending) ELSE {},
                            !.unheard = {}]

\* Of what else the stack may hold, only the case of the last entry is modelled.
CallLater(call, pending, how, next) ==
    /\ Busy
    /\ \A i \in 1..(Len(vm.queue) - 1) : Comparable(vm.queue[i], call)
    /\ \A i \in DOMAIN vm.queue : vm.queue[i].call = call /\ pending # <<>>
                                     => Len(vm.queued[i]) < MaxCallbacks
    /\ \E s \in {QueueCall([vm |-> vm, seen |-> seen], call, pending)} :
          ResumeCall(s, how, next)

\* suspended_scripts_t::tell_return_value
ToolDone ==
    /\ vm.thread = "waiting"
    /\ vm' = [vm EXCEPT !.thread = "suspended"]
    /\ UNCHANGED seen

-----------------------------------------------------------------------------
Init ==
    /\ vm = [thread |-> "idle", running |-> NoCall, queue |-> <<>>, queued |-> <<>>,
             active |-> <<>>]
    /\ seen = [asked   |-> {},   \* callbacks whose call is queued
               awaited |-> {},   \* callbacks whose call is suspended on the thread
               owed    |-> {},   \* calls that were queued and have not started yet
               unheard |-> {},   \* callbacks that the last step did not call with their value
               silent  |-> {},   \* callbacks of calls that gave a value to nobody
               wrong   |-> {}]   \* callbacks called with a value they did not wait for

Next ==
    \/ \E call \in Calls : \E pending \in Pending(call), how \in Outcomes :
          \/ CallNow(call, pending, how)
          \/ \E next \in Outcomes : CallLater(call, pending, how, next)
    \/ ToolDone

(* Regular calls are made again and again, scripts do not run for ever,    *)
(* and neither do tools.                                                   *)
Fairness ==
    /\ SF_vars(\E how, next \in Ending : CallLater(Regular, <<>>, how, next))
    /\ WF_vars(ToolDone)

Spec == Init /\ [][Next]_vars /\ Fairness

-----------------------------------------------------------------------------
(* Every variable has its type, and each queued call has its callbacks.    *)
TypeOK ==
    /\ vm.thread \in {"idle"} \cup Suspending
    /\ vm.running \in Calls \cup {NoCall}
    /\ vm.running = NoCall <=> vm.thread = "idle"
    /\ vm.queue \in Seq(Entry) /\ vm.queued \in Seq(Seq(Callback))
    /\ Len(vm.queue) = Len(vm.queued)
    /\ vm.active \in Seq(Callback)
    /\ seen.owed \subseteq Calls
    /\ \A f \in {"asked", "awaited", "unheard", "silent", "wrong"} : seen[f] \subseteq Callback

(* A call that was queued stays in the queue until it starts, whatever     *)
(* other calls are queued before and behind it (intern_queue_call).        *)
CallsAreKept ==
    seen.owed = {vm.queue[i].call : i \in {j \in DOMAIN vm.queue : vm.queue[j].whole}}

(* A callback is called only with a value that its caller still waits for, *)
(* that of the call it was made for: queue and queued_callbacks are two    *)
(* arrays, and the active callbacks are left over by calls that fail or    *)
(* return at once (intern_make_queued_callback_active).                    *)
AnswersMatch == seen.wrong = {}

(* Of those who were told that their call is suspended at least one hears  *)
(* its value: equal calls are made one, wherever in the queue they meet,   *)
(* and the callbacks of the later ones join those of the first             *)
(* (intern_queue_call, intern_call_callbacks).                             *)
SomebodyHears == seen.silent = {}

(* Who was told that his call is suspended hears its value, as script.h    *)
(* says of intern_call_callbacks: it calls all active callbacks.           *)
EveryCallerHears == seen.unheard = {}

(* A queued call starts some day, although the queue moves by at most one  *)
(* call when another is made, and that is queued as well.                  *)
EveryCallStarts == \A call \in Calls : call \in seen.owed ~> call \notin seen.owed
=============================================================================

-------------------------- MODULE ScriptCallsProofs --------------------------
(* Theorems about the calls of scripted functions, for any calls and       *)
(* callers.  What is proved of the queue assumes calls of one size.        *)
EXTENDS ScriptCalls, TLAPS

OneSize == \A c, d \in Calls : Size[c] = Size[d]

(***************************************************************************)
(* The inductive invariant, of a state s of both variables, since a step   *)
(* passes through several such states.                                     *)
(***************************************************************************)

VM == [thread : {"idle"} \cup Suspending, running : Calls \cup {NoCall},
       queue : Seq(Entry), queued : Seq(Seq(Callback)), active : Seq(Callback)]

Seen == [asked : SUBSET Callback, awaited : SUBSET Callback, owed : SUBSET Calls,
         unheard : SUBSET Callback, silent : SUBSET Callback, wrong : SUBSET Callback]

State == [vm : VM, seen : Seen]

Typed(s) ==
    /\ s \in State
    /\ s.vm.running = NoCall <=> s.vm.thread = "idle"
    /\ Len(s.vm.queue) = Len(s.vm.queued)

\* the two queues hold what is owed and asked
Waiting(queue, queued, owed, asked) ==
    /\ \A i \in DOMAIN queue : queue[i].whole
    /\ \A i, j \in DOMAIN queue : queue[i].call = queue[j].call => i = j
    /\ owed = {queue[i].call : i \in DOMAIN queue}
    /\ \A i \in DOMAIN queued : \A a \in ToSet(queued[i]) :
          a.call = queue[i].call /\ a.call \in Returning
    /\ asked = UNION {ToSet(queued[i]) : i \in DOMAIN queued}

IsWaiting(s) == Waiting(s.vm.queue, s.vm.queued, s.seen.owed, s.seen.asked)

\* the active callbacks are those who wait for call
Awaits(q, e, call) ==
    /\ e.awaited = ToSet(q.active)
    /\ \A a \in e.awaited : a.call = call /\ a.call \in Returning

NobodyWronged(e) == e.wrong = {} /\ e.silent = {}

Good(s) ==
    /\ Typed(s)
    /\ IsWaiting(s)
    /\ s.vm.thread = "idle" => s.seen.awaited = {}
    /\ s.vm.thread # "idle" => Awaits(s.vm, s.seen, s.vm.running)
    /\ NobodyWronged(s.seen)

Now == [vm |-> vm, seen |-> seen]
TInv == Typed(Now)
IInv == Good(Now)

-----------------------------------------------------------------------------
(* A callback that is called is one. *)
LEMMA CalledType ==
    ASSUME NEW s \in State, NEW call, NEW how
    PROVE  Called(s, call, how) \in SUBSET Callback
  <1>1. s.vm.active \in Seq(Callback)
    BY DEF State, VM
  <1>2. s.vm.active # <<>> => s.vm.active[Len(s.vm.active)] \in Callback
    BY <1>1
  <1> QED
    BY <1>2 DEF Called, Last

(* Of a call that ends. *)
LEMMA FinishedIs ==
    ASSUME NEW s \in State, NEW call, NEW how \in Outcomes,
           NEW f, f = Finished(s, call, how), NEW c, c = Called(s, call, how)
    PROVE  /\ f \in State
           /\ f.vm.thread = "idle" /\ f.vm.running = NoCall
           /\ f.vm.queue = s.vm.queue /\ f.vm.queued = s.vm.queued
           /\ f.seen.awaited = {} /\ f.seen.wrong = s.seen.wrong \cup (c \ s.seen.awaited)
           /\ how = "value" /\ c = {} => f.seen.silent = s.seen.silent \cup s.seen.awaited
           /\ ~(how = "value" /\ c = {}) => f.seen.silent = s.seen.silent
           /\ f.seen.asked = s.seen.asked /\ f.seen.owed = s.seen.owed
  <1> DEFINE a == IF c = {} THEN s.vm.active ELSE <<>>
             x == s.seen.wrong \cup (c \ s.seen.awaited)
             y == IF how = "value" THEN s.seen.unheard \cup (s.seen.awaited \ c)
                  ELSE s.seen.unheard
             v == [s.vm EXCEPT !.thread = "idle", !.running = NoCall, !.active = a]
             z == IF how = "value" /\ c = {} THEN s.seen.silent \cup s.seen.awaited
                  ELSE s.seen.silent
             e == [s.seen EXCEPT !.awaited = {}, !.wrong = x, !.unheard = y, !.silent = z]
  <1>1. c \in SUBSET Callback
    BY CalledType
  <1>2. s.vm \in VM /\ s.seen \in Seen
    BY DEF State
  <1>3. a \in Seq(Callback)
    BY <1>2 DEF State, VM
  <1>4. /\ v \in VM /\ v.thread = "idle" /\ v.running = NoCall
        /\ v.queue = s.vm.queue /\ v.queued = s.vm.queued
    <2> HIDE DEF a
    <2> QED
      BY <1>2, <1>3 DEF State, VM
  <1>5. x \in SUBSET Callback /\ y \in SUBSET Callback /\ z \in SUBSET Callback
    BY <1>1, <1>2 DEF Seen
  <1>6. /\ e \in Seen /\ e.awaited = {} /\ e.wrong = x /\ e.silent = z
        /\ e.asked = s.seen.asked /\ e.owed = s.seen.owed
    <2> HIDE DEF x, y, z
    <2> QED
      BY <1>2, <1>5 DEF Seen
  <1>7. f = [vm |-> v, seen |-> e]
    BY DEF Finished
  <1> HIDE DEF v, e
  <1> QED
    BY <1>4, <1>6, <1>7 DEF State

(* A call that is run ends, or keeps the thread. *)
LEMMA RunsTyped ==
    ASSUME NEW s, Typed(s), NEW call \in Calls, NEW how \in Outcomes
    PROVE  Typed(Runs(s, call, how))
  <1>1. CASE how \in Suspending
    <2> DEFINE v == [s.vm EXCEPT !.thread = how, !.running = call]
    <2>1. Runs(s, call, how) = [vm |-> v, seen |-> s.seen]
      BY <1>1 DEF Runs, Typed, State
    <2>2. v \in VM /\ v.thread = how /\ v.running = call
          /\ v.queue = s.vm.queue /\ v.queued = s.vm.queued
      BY <1>1 DEF Typed, VM, State
    <2>3. call # NoCall /\ how # "idle"
      BY <1>1, ScriptCallsAssumption DEF Suspending
    <2> HIDE DEF v
    <2> QED
      BY <2>1, <2>2, <2>3 DEF Typed, State
  <1>2. CASE how \notin Suspending
    <2>1. Runs(s, call, how) = Finished(s, call, how)
      BY <1>2 DEF Runs
    <2>2. s \in State /\ Len(s.vm.queue) = Len(s.vm.queued)
      BY DEF Typed, State
    <2> DEFINE f == Finished(s, call, how)
               c == Called(s, call, how)
    <2>3. /\ f \in State /\ f.vm.thread = "idle" /\ f.vm.running = NoCall
          /\ f.vm.queue = s.vm.queue /\ f.vm.queued = s.vm.queued
      <3>1. f = Finished(s, call, how) /\ c = Called(s, call, how)
        OBVIOUS
      <3> HIDE DEF f, c
      <3> QED
        BY <2>2, <3>1, FinishedIs
    <2> HIDE DEF f
    <2> QED
      BY <2>1, <2>2, <2>3 DEF Typed, f
  <1> QED
    BY <1>1, <1>2

(* The first of the queue and its callbacks. *)
LEMMA StartedIs ==
    ASSUME NEW s, Typed(s), s.vm.queue # <<>>,
           NEW t, t = Started(s), NEW first, first = Head(s.vm.queue)
    PROVE  /\ Typed(t)
           /\ first \in Entry
           /\ t.vm.thread = s.vm.thread /\ t.vm.running = s.vm.running
           /\ t.vm.queue = Tail(s.vm.queue) /\ t.vm.queued = Tail(s.vm.queued)
           /\ t.vm.active = Head(s.vm.queued)
           /\ t.seen.awaited = {a \in s.seen.asked : a.call = first.call}
           /\ t.seen.asked = {a \in s.seen.asked : a.call # first.call}
           /\ first.whole => t.seen.owed = s.seen.owed \ {first.call}
           /\ t.seen.wrong = s.seen.wrong /\ t.seen.silent = s.seen.silent
  <1> DEFINE askers == {a \in s.seen.asked : a.call = first.call}
             owed == IF first.whole THEN s.seen.owed \ {first.call} ELSE s.seen.owed
             v == [s.vm EXCEPT !.queue = Tail(s.vm.queue), !.queued = Tail(s.vm.queued),
                               !.active = Head(s.vm.queued)]
             e == [s.seen EXCEPT !.asked = s.seen.asked \ askers, !.awaited = askers,
                                 !.owed = owed]
  <1>1. s.vm \in VM /\ s.seen \in Seen
    BY DEF Typed, State
  <1>2. /\ s.vm.queue \in Seq(Entry) /\ s.vm.queued \in Seq(Seq(Callback))
        /\ s.vm.queued # <<>> /\ Len(s.vm.queue) = Len(s.vm.queued)
    BY <1>1 DEF Typed, VM
  <1>3. /\ first \in Entry /\ Tail(s.vm.queue) \in Seq(Entry)
        /\ Tail(s.vm.queued) \in Seq(Seq(Callback)) /\ Head(s.vm.queued) \in Seq(Callback)
        /\ Len(Tail(s.vm.queue)) = Len(Tail(s.vm.queued))
    BY <1>2
  <1>4. /\ v \in VM /\ v.thread = s.vm.thread /\ v.running = s.vm.running
        /\ v.queue = Tail(s.vm.queue) /\ v.queued = Tail(s.vm.queued)
        /\ v.active = Head(s.vm.queued)
    BY <1>1, <1>3 DEF State, VM
  <1>5. askers \in SUBSET Callback /\ owed \in SUBSET Calls
        /\ s.seen.asked \in SUBSET Callback
    BY <1>1 DEF Seen
  <1>6. /\ e \in Seen /\ e.awaited = askers /\ e.asked = s.seen.asked \ askers
        /\ e.owed = owed /\ e.wrong = s.seen.wrong /\ e.silent = s.seen.silent
    <2> HIDE DEF askers, owed
    <2> QED
      BY <1>1, <1>5 DEF Seen
  <1>7. t = [vm |-> v, seen |-> e]
    BY DEF Started, Dequeued
  <1>8. s.seen.asked \ askers = {a \in s.seen.asked : a.call # first.call}
    OBVIOUS
  <1> HIDE DEF v, e
  <1>9. t.vm = v /\ t.seen = e /\ t \in State
    BY <1>4, <1>6, <1>7 DEF State
  <1>10. Typed(t)
    BY <1>3, <1>4, <1>9 DEF Typed, State
  <1>11. first.whole => owed = s.seen.owed \ {first.call}
    OBVIOUS
  <1> HIDE DEF owed
  <1> QED
    BY <1>3, <1>4, <1>6, <1>8, <1>9, <1>10, <1>11

(* The steps of both variables. *)
LEMMA BecomesTyped ==
    ASSUME NEW s, Typed(s), Becomes(s)
    PROVE  Now' = s /\ TInv'
  <1>1. Now' = s
    BY DEF Now, Becomes, Typed, State
  <1> QED
    BY <1>1 DEF TInv, Typed, VM, Seen

(* Who wants to be called back. *)
LEMMA PendingIs ==
    ASSUME NEW call \in Calls, NEW pending \in Pending(call)
    PROVE  /\ pending \in Seq(Callback)
           /\ \A a \in ToSet(pending) : a.call = call /\ a.call \in Returning
  <1>1. CASE pending = <<>>
    BY <1>1 DEF ToSet
  <1>2. CASE pending # <<>>
    <2>1. PICK p \in Callers : pending = <<[caller |-> p, call |-> call]>> /\ call \in Returning
      BY <1>2 DEF Pending
    <2>2. [caller |-> p, call |-> call] \in Callback
      BY DEF Callback
    <2>3. ToSet(pending) = {[caller |-> p, call |-> call]}
      BY <2>1 DEF ToSet
    <2> QED
      BY <2>1, <2>2, <2>3
  <1> QED
    BY <1>1, <1>2

(* intern_queue_call keeps the two queues equally long. *)
LEMMA EnqueuedTyped ==
    ASSUME NEW q \in VM, Len(q.queue) = Len(q.queued), NEW call \in Calls,
           NEW pending \in Seq(Callback), NEW r, r = Enqueued(q, call, pending)
    PROVE  /\ r \in VM /\ Len(r.queue) = Len(r.queued)
           /\ r.thread = q.thread /\ r.running = q.running /\ r.active = q.active
  <1> DEFINE same == {i \in DOMAIN q.queue : SameCall(q.queue[i], call)}
             n == Len(q.queue)
             more == [i \in DOMAIN q.queued |-> IF i \in same
                                                THEN AddCallback(q.queued[i], pending)
                                                ELSE q.queued[i]]
  <1>1. q.queue \in Seq(Entry) /\ q.queued \in Seq(Seq(Callback)) /\ n \in Nat
    BY DEF VM
  <1>2. CASE same # {}
    <2>1. more \in Seq(Seq(Callback)) /\ Len(more) = Len(q.queued)
      <3>1. \A i \in DOMAIN q.queued : q.queued[i] \in Seq(Callback)
        BY <1>1
      <3>2. \A i \in DOMAIN q.queued : q.queued[i] \o pending \in Seq(Callback)
        BY <3>1
      <3> DEFINE x(i) == IF i \in same THEN AddCallback(q.queued[i], pending) ELSE q.queued[i]
      <3>3. \A i \in DOMAIN q.queued : x(i) \in Seq(Callback)
        BY <3>1, <3>2 DEF AddCallback
      <3>4. DOMAIN q.queued = 1..Len(q.queued) /\ Len(q.queued) \in Nat
        BY <1>1
      <3>5. more = [i \in 1..Len(q.queued) |-> x(i)]
        BY <3>4
      <3> HIDE DEF more, x
      <3> QED
        BY <3>3, <3>4, <3>5
    <2>2. r = [q EXCEPT !.queued = more]
      BY <1>2 DEF Enqueued
    <2> HIDE DEF more
    <2> QED
      BY <2>1, <2>2 DEF VM
  <1>3. CASE same = {} /\ n > 0 /\ ~Comparable(q.queue[n], call)
    <2> DEFINE last == [q.queue[n] EXCEPT !.whole = FALSE]
               broken == [q.queue EXCEPT ![n] = last]
    <2>1. q.queue[n] \in Entry
      BY <1>1, <1>3
    <2>2. last \in Entry
      BY <2>1 DEF Entry
    <2>3. broken \in Seq(Entry) /\ Len(broken) = n
      <3> HIDE DEF last
      <3> QED
        BY <1>1, <1>3, <2>2
    <2>4. r = [q EXCEPT !.queue = broken]
      BY <1>3 DEF Enqueued, VM
    <2> HIDE DEF broken
    <2> QED
      BY <2>3, <2>4 DEF VM
  <1>4. CASE same = {} /\ ~(n > 0 /\ ~Comparable(q.queue[n], call))
    <2> DEFINE longer == Append(q.queue, [call |-> call, whole |-> TRUE])
               more2 == Append(q.queued, pending)
    <2>1. [call |-> call, whole |-> TRUE] \in Entry
      BY DEF Entry
    <2>2. /\ longer \in Seq(Entry) /\ more2 \in Seq(Seq(Callback))
          /\ Len(longer) = Len(more2)
      BY <1>1, <2>1
    <2>3. r = [q EXCEPT !.queue = longer, !.queued = more2]
      BY <1>4 DEF Enqueued
    <2> HIDE DEF longer, more2
    <2> QED
      BY <2>2, <2>3 DEF VM
  <1> QED
    BY <1>2, <1>3, <1>4

LEMMA QueueCallTyped ==
    ASSUME NEW s, Typed(s), NEW call \in Calls, NEW pending \in Pending(call),
           NEW t, t = QueueCall(s, call, pending)
    PROVE  /\ Typed(t)
           /\ t.vm = Enqueued(s.vm, call, pending)
           /\ t.vm.thread = s.vm.thread
           /\ t.seen.owed = s.seen.owed \cup {call}
           /\ t.seen.asked = s.seen.asked \cup ToSet(pending)
           /\ t.seen.awaited = s.seen.awaited /\ t.seen.wrong = s.seen.wrong
           /\ t.seen.silent = s.seen.silent
  <1> DEFINE r == Enqueued(s.vm, call, pending)
             o == s.seen.owed \cup {call}
             a == s.seen.asked \cup ToSet(pending)
             e == [s.seen EXCEPT !.owed = o, !.asked = a, !.unheard = {}]
  <1>1. s.vm \in VM /\ s.seen \in Seen /\ pending \in Seq(Callback)
    BY PendingIs DEF Typed, State
  <1>2. /\ r \in VM /\ Len(r.queue) = Len(r.queued)
        /\ r.thread = s.vm.thread /\ r.running = s.vm.running
    <2>1. Len(s.vm.queue) = Len(s.vm.queued)
      BY DEF Typed
    <2> QED
      BY <1>1, <2>1, EnqueuedTyped
  <1>3. o \in SUBSET Calls /\ a \in SUBSET Callback
    BY <1>1 DEF Seen, ToSet
  <1>4. /\ e \in Seen /\ e.owed = o /\ e.asked = a /\ e.awaited = s.seen.awaited
        /\ e.wrong = s.seen.wrong /\ e.silent = s.seen.silent
    <2> HIDE DEF o, a
    <2> QED
      BY <1>1, <1>3 DEF Seen
  <1>5. t = [vm |-> r, seen |-> e]
    BY DEF QueueCall
  <1> HIDE DEF r, e
  <1>6. t.vm = r /\ t.seen = e /\ t \in State
    BY <1>2, <1>4, <1>5 DEF State
  <1>7. Typed(t)
    BY <1>2, <1>6 DEF Typed
  <1> QED
    BY <1>2, <1>4, <1>6, <1>7 DEF r

LEMMA RunQueuedTyped ==
    ASSUME NEW s, Typed(s), NEW how \in Outcomes, RunQueued(s, how)
    PROVE  TInv'
  <1>1. CASE s.vm.queue = <<>>
    BY <1>1, BecomesTyped DEF RunQueued
  <1>2. CASE s.vm.queue # <<>>
    <2> DEFINE first == Head(s.vm.queue)
               h == IF first.whole THEN how ELSE "error"
    <2>1. Typed(Started(s)) /\ first \in Entry
      BY <1>2, StartedIs
    <2>2. first.call \in Calls /\ h \in Outcomes
      BY <2>1 DEF Entry, Outcomes, Ending
    <2>3. Becomes(Runs(Started(s), first.call, h))
      BY <1>2 DEF RunQueued
    <2> HIDE DEF first, h
    <2> QED
      BY <2>1, <2>2, <2>3, RunsTyped, BecomesTyped
  <1> QED
    BY <1>1, <1>2

LEMMA FinishedTyped ==
    ASSUME NEW s, Typed(s), NEW call, NEW how \in Outcomes
    PROVE  Typed(Finished(s, call, how)) /\ Finished(s, call, how).vm.thread = "idle"
  <1>1. s \in State /\ Len(s.vm.queue) = Len(s.vm.queued)
    BY DEF Typed
  <1> QED
    BY <1>1, FinishedIs DEF Typed

LEMMA ResumeCallTyped ==
    ASSUME NEW s, Typed(s), NEW how \in Outcomes, NEW next \in Outcomes,
           ResumeCall(s, how, next)
    PROVE  TInv'
  <1>1. CASE Becomes(s)
    BY <1>1, BecomesTyped
  <1>2. CASE RunQueued(s, next)
    BY <1>2, RunQueuedTyped
  <1>3. CASE s.vm.thread = "suspended" /\ GoesOn(s, how, next)
    <2>1. s.vm.running \in Calls
      BY <1>3 DEF Typed, State, VM
    <2>2. CASE how \in Suspending
      BY <1>3, <2>1, <2>2, RunsTyped, BecomesTyped DEF GoesOn
    <2>3. CASE how \notin Suspending
      <3>1. RunQueued(Finished(s, s.vm.running, how), next)
        BY <1>3, <2>3 DEF GoesOn
      <3> QED
        BY <3>1, FinishedTyped, RunQueuedTyped
    <2> QED
      BY <2>2, <2>3
  <1> QED
    BY <1>1, <1>2, <1>3 DEF ResumeCall

LEMMA CallNowTyped ==
    ASSUME TInv, NEW call \in Calls, NEW pending \in Pending(call), NEW how \in Outcomes,
           CallNow(call, pending, how)
    PROVE  TInv'
  <1> DEFINE t == IF how \in Suspending THEN how ELSE "idle"
             r == IF how \in Suspending THEN call ELSE NoCall
             w == IF how \in Suspending THEN ToSet(pending) ELSE {}
  <1>1. vm \in VM /\ seen \in Seen /\ Len(vm.queue) = Len(vm.queued)
    BY DEF TInv, Typed, Now, State
  <1>2. pending \in Seq(Callback)
    BY PendingIs
  <1>3. /\ vm' = [vm EXCEPT !.active = pending, !.thread = t, !.running = r]
        /\ seen' = [seen EXCEPT !.awaited = w, !.unheard = {}]
    BY DEF CallNow
  <1>4. /\ t \in {"idle"} \cup Suspending /\ r \in Calls \cup {NoCall}
        /\ r = NoCall <=> t = "idle"
        /\ w \in SUBSET Callback
    BY <1>2, ScriptCallsAssumption DEF Suspending, ToSet
  <1> HIDE DEF t, r, w
  <1>5. vm' \in VM /\ vm'.thread = t /\ vm'.running = r
        /\ vm'.queue = vm.queue /\ vm'.queued = vm.queued
    BY <1>1, <1>2, <1>3, <1>4 DEF VM
  <1>6. seen' \in Seen
    BY <1>1, <1>3, <1>4 DEF Seen
  <1>7. Now' \in State /\ Now'.vm = vm' /\ Now'.seen = seen'
    BY <1>5, <1>6 DEF Now, State
  <1> QED
    BY <1>1, <1>4, <1>5, <1>7 DEF TInv, Typed

LEMMA ToolDoneTyped ==
    ASSUME TInv, ToolDone
    PROVE  TInv' /\ vm'.thread = "suspended" /\ vm'.running = vm.running
           /\ vm'.queue = vm.queue /\ vm'.queued = vm.queued /\ vm'.active = vm.active
  <1>1. /\ vm \in VM /\ seen \in Seen /\ Len(vm.queue) = Len(vm.queued)
        /\ vm.running = NoCall <=> vm.thread = "idle"
    BY DEF TInv, Typed, Now, State
  <1>2. /\ vm' \in VM /\ vm'.thread = "suspended" /\ vm'.running = vm.running
        /\ vm'.queue = vm.queue /\ vm'.queued = vm.queued /\ vm'.active = vm.active
    BY <1>1 DEF ToolDone, VM, Suspending
  <1>3. seen' = seen /\ vm.thread = "waiting"
    BY DEF ToolDone
  <1>4. Now' \in State /\ Now'.vm = vm' /\ Now'.seen = seen'
    BY <1>1, <1>2, <1>3 DEF Now, State
  <1> QED
    BY <1>1, <1>2, <1>3, <1>4 DEF TInv, Typed

LEMMA InitTyped == Init => TInv
  <1> SUFFICES ASSUME Init PROVE TInv
    OBVIOUS
  <1>1. vm \in VM /\ vm.thread = "idle" /\ vm.running = NoCall /\ vm.queue = <<>> /\ vm.queued = <<>>
    BY DEF Init, VM
  <1>2. seen \in Seen
    BY DEF Init, Seen
  <1>3. Now \in State /\ Now.vm = vm
    BY <1>1, <1>2 DEF Now, State
  <1> QED
    BY <1>1, <1>3 DEF TInv, Typed

LEMMA NextTyped == TInv /\ [Next]_vars => TInv'
  <1> SUFFICES ASSUME TInv, [Next]_vars PROVE TInv'
    OBVIOUS
  <1>1. ASSUME NEW call \in Calls, NEW pending \in Pending(call), NEW how \in Outcomes,
               NEW next \in Outcomes, CallLater(call, pending, how, next)
        PROVE  TInv'
    <2>1. ResumeCall(QueueCall(Now, call, pending), how, next)
      BY <1>1 DEF CallLater, Now
    <2>2. Typed(QueueCall(Now, call, pending))
      BY QueueCallTyped DEF TInv
    <2> QED
      BY <2>1, <2>2, ResumeCallTyped
  <1>2. CASE UNCHANGED vars
    BY <1>2 DEF vars, TInv, Now, Typed
  <1> QED
    BY <1>1, <1>2, CallNowTyped, ToolDoneTyped DEF Next

(* Whatever calls are made, and however they end, the variables keep their *)
(* types, each queued call has its place in the queue of callbacks, and a  *)
(* call runs exactly if the thread is not idle.                            *)
THEOREM QueuesKeepInStep == Spec => []TypeOK
  <1>1. TInv => TypeOK
    <2> SUFFICES ASSUME TInv PROVE TypeOK
      OBVIOUS
    <2>1. /\ vm \in VM /\ seen \in Seen /\ Len(vm.queue) = Len(vm.queued)
          /\ vm.running = NoCall <=> vm.thread = "idle"
      BY DEF TInv, Typed, Now, State
    <2>2. \A f \in {"asked", "awaited", "unheard", "silent", "wrong"} : seen[f] \subseteq Callback
      BY <2>1 DEF Seen
    <2> QED
      BY <2>1, <2>2 DEF TypeOK, VM, Seen
  <1> QED
    BY <1>1, InitTyped, NextTyped, PTL DEF Spec

-----------------------------------------------------------------------------
(* One of those who wait for the call hears of it, and nobody else does. *)
LEMMA FinishedGood ==
    ASSUME NEW s, Typed(s), IsWaiting(s), NobodyWronged(s.seen),
           NEW call, Awaits(s.vm, s.seen, call), NEW how \in Outcomes,
           NEW t, t = Finished(s, call, how)
    PROVE  Good(t) /\ t.vm.thread = "idle"
  <1> DEFINE c == Called(s, call, how)
             active == s.vm.active
  <1>1. s \in State /\ active \in Seq(Callback)
    BY DEF Typed, State, VM
  <1>2. /\ t.vm.thread = "idle" /\ t.vm.queue = s.vm.queue /\ t.vm.queued = s.vm.queued
        /\ t.seen.awaited = {} /\ t.seen.wrong = s.seen.wrong \cup (c \ s.seen.awaited)
        /\ how = "value" /\ c = {} => t.seen.silent = s.seen.silent \cup s.seen.awaited
        /\ ~(how = "value" /\ c = {}) => t.seen.silent = s.seen.silent
        /\ t.seen.asked = s.seen.asked /\ t.seen.owed = s.seen.owed
    <2> HIDE DEF c
    <2>1. c = Called(s, call, how)
      BY DEF c
    <2> QED
      BY <1>1, <2>1, FinishedIs
  <1>3. s.seen.awaited = ToSet(active) /\ \A a \in ToSet(active) : a.call = call /\ call \in Returning
    BY DEF Awaits
  <1>4. active # <<>> => active[Len(active)] \in ToSet(active)
    BY <1>1 DEF ToSet
  <1>5. c \subseteq ToSet(active)
    BY <1>4 DEF Called, Last
  <1>6. ASSUME how = "value", c = {}
        PROVE  ToSet(active) = {}
    <2>1. SUFFICES ASSUME NEW a \in ToSet(active) PROVE FALSE
      OBVIOUS
    <2>2. active # <<>>
      BY <1>1, <2>1 DEF ToSet
    <2>3. c = {active[Len(active)]}
      BY <1>3, <1>6, <2>1, <2>2 DEF Called, Last
    <2> QED
      BY <1>6, <2>3
  <1>7. NobodyWronged(t.seen)
    <2>1. t.seen.wrong = {}
      BY <1>2, <1>3, <1>5 DEF NobodyWronged
    <2>2. t.seen.silent = {}
      BY <1>2, <1>3, <1>6 DEF NobodyWronged
    <2> QED
      BY <2>1, <2>2 DEF NobodyWronged
  <1>8. IsWaiting(t)
    BY <1>2 DEF IsWaiting
  <1>9. Typed(t)
    BY FinishedTyped
  <1> QED
    BY <1>2, <1>7, <1>8, <1>9 DEF Good

(* A call that is run ends so, or goes on with those who wait for it. *)
LEMMA RunsGood ==
    ASSUME NEW s, Typed(s), IsWaiting(s), NobodyWronged(s.seen),
           NEW call \in Calls, Awaits(s.vm, s.seen, call), NEW how \in Outcomes,
           NEW t, t = Runs(s, call, how)
    PROVE  Good(t)
  <1>1. CASE how \in Suspending
    <2> DEFINE v == [s.vm EXCEPT !.thread = how, !.running = call]
    <2>1. t = [vm |-> v, seen |-> s.seen]
      BY <1>1 DEF Runs, Typed, State
    <2>2. /\ v.thread = how /\ v.running = call /\ v.active = s.vm.active
          /\ v.queue = s.vm.queue /\ v.queued = s.vm.queued
      BY <1>1 DEF Typed, State, VM
    <2>3. how # "idle"
      BY <1>1 DEF Suspending
    <2> HIDE DEF v
    <2>4. t.vm = v /\ t.seen = s.seen
      BY <2>1
    <2>5. IsWaiting(t)
      BY <2>2, <2>4 DEF IsWaiting
    <2>6. Awaits(t.vm, t.seen, call)
      BY <2>2, <2>4 DEF Awaits
    <2>7. Typed(t)
      BY RunsTyped
    <2> QED
      BY <2>2, <2>3, <2>4, <2>5, <2>6, <2>7 DEF Good
  <1>2. CASE how \notin Suspending
    BY <1>2, FinishedGood DEF Runs
  <1> QED
    BY <1>1, <1>2

(* The callbacks of the first of the queue are those who wait for it. *)
LEMMA StartedGood ==
    ASSUME NEW s, Good(s), s.vm.queue # <<>>,
           NEW t, t = Started(s), NEW first, first = Head(s.vm.queue)
    PROVE  /\ Typed(t) /\ IsWaiting(t) /\ NobodyWronged(t.seen)
           /\ first \in Entry /\ first.whole /\ Awaits(t.vm, t.seen, first.call)
  <1> DEFINE q == s.vm.queue
             d == s.vm.queued
             n == Len(q)
  <1>1. /\ q \in Seq(Entry) /\ d \in Seq(Seq(Callback)) /\ n = Len(d)
        /\ Typed(s) /\ IsWaiting(s) /\ NobodyWronged(s.seen)
    BY DEF Good, Typed, State, VM
  <1>2. /\ n \in Nat /\ n > 0 /\ DOMAIN q = 1..n /\ DOMAIN d = 1..n
        /\ first = q[1] /\ Head(d) = d[1]
        /\ DOMAIN Tail(q) = 1..(n - 1) /\ DOMAIN Tail(d) = 1..(n - 1)
        /\ \A i \in 1..(n - 1) : i + 1 \in 1..n /\ Tail(q)[i] = q[i + 1] /\ Tail(d)[i] = d[i + 1]
        /\ \A i \in 1..n : i # 1 => i - 1 \in 1..(n - 1) /\ (i - 1) + 1 = i
        /\ 1 \in 1..n /\ \A i \in 1..(n - 1) : i + 1 # 1
    <2>1. n \in Nat /\ n > 0 /\ DOMAIN q = 1..n /\ DOMAIN d = 1..n /\ q # <<>> /\ d # <<>>
      BY <1>1
    <2>2. /\ first = q[1] /\ DOMAIN Tail(q) = 1..(n - 1)
          /\ \A i \in 1..(n - 1) : Tail(q)[i] = q[i + 1]
      <3>1. Len(q) = n /\ q \in Seq(Entry) /\ first = Head(q)
        BY <1>1
      <3> HIDE DEF q, d, n
      <3> QED
        BY <2>1, <3>1
    <2>3. /\ Head(d) = d[1] /\ DOMAIN Tail(d) = 1..(n - 1)
          /\ \A i \in 1..(n - 1) : Tail(d)[i] = d[i + 1]
      <3>1. Len(d) = n /\ d \in Seq(Seq(Callback))
        BY <1>1
      <3> HIDE DEF q, d, n
      <3> QED
        BY <2>1, <3>1
    <2> HIDE DEF q, d, n
    <2> QED
      BY <2>1, <2>2, <2>3
  <1>3. /\ \A i \in 1..n : q[i].whole
        /\ \A i, j \in 1..n : q[i].call = q[j].call => i = j
        /\ s.seen.owed = {q[i].call : i \in 1..n}
        /\ \A i \in 1..n : \A a \in ToSet(d[i]) : a.call = q[i].call /\ a.call \in Returning
        /\ s.seen.asked = UNION {ToSet(d[i]) : i \in 1..n}
    BY <1>1, <1>2 DEF IsWaiting, Waiting
  <1>4. /\ Typed(t) /\ first \in Entry
        /\ t.vm.queue = Tail(q) /\ t.vm.queued = Tail(d) /\ t.vm.active = d[1]
        /\ t.seen.awaited = {a \in s.seen.asked : a.call = first.call}
        /\ t.seen.asked = {a \in s.seen.asked : a.call # first.call}
        /\ first.whole => t.seen.owed = s.seen.owed \ {first.call}
        /\ t.seen.wrong = s.seen.wrong /\ t.seen.silent = s.seen.silent
    BY <1>1, <1>2, StartedIs
  <1> HIDE DEF q, d, n
  <1>5. first.whole
    BY <1>2, <1>3
  <1>6. t.seen.owed = {Tail(q)[i].call : i \in 1..(n - 1)}
    <2>1. ASSUME NEW x \in t.seen.owed PROVE \E i \in 1..(n - 1) : x = Tail(q)[i].call
      <3>1. PICK j \in 1..n : x = q[j].call /\ j # 1
        BY <1>2, <1>3, <1>4, <1>5, <2>1
      <3>2. j - 1 \in 1..(n - 1) /\ Tail(q)[j - 1] = q[j]
        BY <1>2, <3>1
      <3> QED
        BY <3>1, <3>2
    <2>2. ASSUME NEW i \in 1..(n - 1) PROVE Tail(q)[i].call \in t.seen.owed
      BY <1>2, <1>3, <1>4, <1>5, <2>2
    <2> QED
      BY <2>1, <2>2
  <1>7. t.seen.asked = UNION {ToSet(Tail(d)[i]) : i \in 1..(n - 1)}
    <2>1. ASSUME NEW a \in t.seen.asked PROVE \E i \in 1..(n - 1) : a \in ToSet(Tail(d)[i])
      <3>1. PICK j \in 1..n : a \in ToSet(d[j]) /\ j # 1
        <4>1. PICK j \in 1..n : a \in ToSet(d[j])
          BY <1>3, <1>4, <2>1
        <4>2. a.call = q[j].call /\ a.call # first.call
          BY <1>3, <1>4, <2>1, <4>1
        <4> QED
          BY <1>2, <4>1, <4>2
      <3>2. j - 1 \in 1..(n - 1) /\ Tail(d)[j - 1] = d[j]
        BY <1>2, <3>1
      <3> QED
        BY <3>1, <3>2
    <2>2. ASSUME NEW i \in 1..(n - 1), NEW a \in ToSet(Tail(d)[i]) PROVE a \in t.seen.asked
      <3>1. i + 1 \in 1..n /\ a \in ToSet(d[i + 1]) /\ i + 1 # 1
        BY <1>2, <2>2
      <3>2. a.call = q[i + 1].call /\ q[i + 1].call # q[1].call /\ a \in s.seen.asked
        BY <1>2, <1>3, <3>1
      <3> QED
        BY <1>2, <1>4, <3>2
    <2> QED
      BY <2>1, <2>2
  <1>8. t.seen.awaited = ToSet(d[1])
    <2>1. ASSUME NEW a \in t.seen.awaited PROVE a \in ToSet(d[1])
      <3>1. PICK j \in 1..n : a \in ToSet(d[j])
        BY <1>3, <1>4, <2>1
      <3>2. a.call = q[j].call /\ a.call = q[1].call
        BY <1>2, <1>3, <1>4, <2>1, <3>1
      <3> QED
        BY <1>2, <1>3, <3>1, <3>2
    <2>2. ASSUME NEW a \in ToSet(d[1]) PROVE a \in t.seen.awaited
      BY <1>2, <1>3, <1>4, <2>2
    <2> QED
      BY <2>1, <2>2
  <1>9. IsWaiting(t)
    <2>1. \A i \in 1..(n - 1) : Tail(q)[i].whole
      BY <1>2, <1>3
    <2>2. \A i, j \in 1..(n - 1) : Tail(q)[i].call = Tail(q)[j].call => i = j
      <3>1. SUFFICES ASSUME NEW i \in 1..(n - 1), NEW j \in 1..(n - 1),
                            Tail(q)[i].call = Tail(q)[j].call
                     PROVE  i = j
        OBVIOUS
      <3>2. i + 1 = j + 1
        BY <1>2, <1>3, <3>1
      <3> QED
        BY <3>2
    <2>3. \A i \in 1..(n - 1) : \A a \in ToSet(Tail(d)[i]) :
              a.call = Tail(q)[i].call /\ a.call \in Returning
      BY <1>2, <1>3
    <2>4. Waiting(Tail(q), Tail(d), t.seen.owed, t.seen.asked)
      BY <1>2, <1>6, <1>7, <2>1, <2>2, <2>3 DEF Waiting
    <2> QED
      BY <1>4, <2>4 DEF IsWaiting
  <1>10. Awaits(t.vm, t.seen, first.call)
    BY <1>2, <1>3, <1>4, <1>8 DEF Awaits
  <1>11. NobodyWronged(t.seen)
    BY <1>1, <1>4 DEF NobodyWronged
  <1> QED
    BY <1>4, <1>5, <1>9, <1>10, <1>11

(* Who is in one of two sequences. *)
LEMMA SetOfConcat ==
    ASSUME NEW a \in Seq(Callback), NEW b \in Seq(Callback)
    PROVE  ToSet(a \o b) = ToSet(a) \cup ToSet(b)
  <1>1. /\ DOMAIN (a \o b) = 1..(Len(a) + Len(b)) /\ DOMAIN a = 1..Len(a) /\ DOMAIN b = 1..Len(b)
        /\ Len(a) \in Nat /\ Len(b) \in Nat
    OBVIOUS
  <1>2. /\ \A i \in 1..Len(a) : (a \o b)[i] = a[i]
        /\ \A i \in 1..Len(b) : (a \o b)[i + Len(a)] = b[i]
    OBVIOUS
  <1>3. /\ \A i \in 1..(Len(a) + Len(b)) : i \in 1..Len(a) \/ i - Len(a) \in 1..Len(b)
        /\ \A i \in 1..(Len(a) + Len(b)) : (i - Len(a)) + Len(a) = i
        /\ \A i \in 1..Len(a) : i \in 1..(Len(a) + Len(b))
        /\ \A i \in 1..Len(b) : i + Len(a) \in 1..(Len(a) + Len(b))
    BY <1>1
  <1>4. ASSUME NEW x \in ToSet(a \o b) PROVE x \in ToSet(a) \cup ToSet(b)
    <2>1. PICK i \in 1..(Len(a) + Len(b)) : x = (a \o b)[i]
      BY <1>1, <1>4 DEF ToSet
    <2>2. CASE i \in 1..Len(a)
      BY <1>1, <1>2, <2>1, <2>2 DEF ToSet
    <2>3. CASE i - Len(a) \in 1..Len(b)
      <3>1. x = b[i - Len(a)]
        BY <1>2, <1>3, <2>1, <2>3
      <3> QED
        BY <1>1, <2>3, <3>1 DEF ToSet
    <2> QED
      BY <1>3, <2>2, <2>3
  <1>5. ASSUME NEW x \in ToSet(a) PROVE x \in ToSet(a \o b)
    BY <1>1, <1>2, <1>3, <1>5 DEF ToSet
  <1>6. ASSUME NEW x \in ToSet(b) PROVE x \in ToSet(a \o b)
    BY <1>1, <1>2, <1>3, <1>6 DEF ToSet
  <1> QED
    BY <1>4, <1>5, <1>6

(* A call that is queued joins the entry that equals it, or is the last. *)
LEMMA EnqueuedGood ==
    ASSUME OneSize, NEW q \in VM, Len(q.queue) = Len(q.queued),
           NEW owed, NEW asked, Waiting(q.queue, q.queued, owed, asked),
           NEW call \in Calls, NEW pending \in Pending(call),
           NEW r, r = Enqueued(q, call, pending)
    PROVE  Waiting(r.queue, r.queued, owed \cup {call}, asked \cup ToSet(pending))
  <1> DEFINE u == q.queue
             d == q.queued
             n == Len(u)
             same == {i \in DOMAIN u : SameCall(u[i], call)}
  <1>1. /\ u \in Seq(Entry) /\ d \in Seq(Seq(Callback)) /\ n \in Nat /\ Len(d) = n
        /\ DOMAIN u = 1..n /\ DOMAIN d = 1..n
        /\ pending \in Seq(Callback)
    BY PendingIs DEF VM
  <1>2. \A a \in ToSet(pending) : a.call = call /\ a.call \in Returning
    BY PendingIs
  <1>3. /\ \A i \in 1..n : u[i].whole
        /\ \A i, j \in 1..n : u[i].call = u[j].call => i = j
        /\ owed = {u[i].call : i \in 1..n}
        /\ \A i \in 1..n : \A a \in ToSet(d[i]) : a.call = u[i].call /\ a.call \in Returning
        /\ asked = UNION {ToSet(d[i]) : i \in 1..n}
    BY <1>1 DEF Waiting
  <1>4. same = {i \in 1..n : u[i].call = call}
    BY <1>1, <1>3 DEF SameCall
  <1>5. CASE same # {}
    <2> DEFINE more == [i \in DOMAIN d |-> IF i \in same THEN AddCallback(d[i], pending) ELSE d[i]]
    <2>1. r.queue = u /\ r.queued = more
      <3>1. r = [q EXCEPT !.queued = more]
        BY <1>5 DEF Enqueued
      <3> HIDE DEF more
      <3> QED
        BY <3>1 DEF VM
    <2>2. DOMAIN more = 1..n
      BY <1>1
    <2>3. \A i \in same : ToSet(more[i]) = ToSet(d[i]) \cup ToSet(pending)
      <3>1. SUFFICES ASSUME NEW i \in same
                     PROVE  ToSet(more[i]) = ToSet(d[i]) \cup ToSet(pending)
        OBVIOUS
      <3>2. i \in 1..n /\ d[i] \in Seq(Callback) /\ more[i] = d[i] \o pending
        BY <1>1, <3>1 DEF AddCallback
      <3> QED
        BY <1>1, <3>2, SetOfConcat
    <2>4. \A i \in 1..n : i \notin same => more[i] = d[i]
      BY <1>1
    <2> HIDE DEF more, same, u, d, n
    <2>5. call \in owed
      BY <1>3, <1>4, <1>5
    <2>6. \A i \in 1..n : \A a \in ToSet(more[i]) : a.call = u[i].call /\ a.call \in Returning
      BY <1>2, <1>3, <1>4, <2>3, <2>4
    <2>7. asked \cup ToSet(pending) = UNION {ToSet(more[i]) : i \in 1..n}
      <3>1. PICK k \in 1..n : k \in same
        BY <1>4, <1>5
      <3>2. ASSUME NEW a \in asked \cup ToSet(pending) PROVE \E i \in 1..n : a \in ToSet(more[i])
        <4>1. CASE a \in ToSet(pending)
          BY <2>3, <3>1, <4>1
        <4>2. CASE a \in asked
          <5>1. PICK i \in 1..n : a \in ToSet(d[i])
            BY <1>3, <4>2
          <5> QED
            BY <2>3, <2>4, <5>1
        <4> QED
          BY <3>2, <4>1, <4>2
      <3>3. ASSUME NEW i \in 1..n, NEW a \in ToSet(more[i]) PROVE a \in asked \cup ToSet(pending)
        BY <1>3, <2>3, <2>4, <3>3
      <3> QED
        BY <3>2, <3>3
    <2>8. Waiting(u, more, owed \cup {call}, asked \cup ToSet(pending))
      <3>1. owed \cup {call} = {u[i].call : i \in 1..n}
        BY <1>3, <2>5
      <3> QED
        BY <1>1, <1>3, <2>2, <2>6, <2>7, <3>1 DEF Waiting
    <2> QED
      BY <2>1, <2>8
  <1>6. CASE same = {}
    <2> DEFINE entry == [call |-> call, whole |-> TRUE]
               longer == Append(u, entry)
               more == Append(d, pending)
    <2>1. r.queue = longer /\ r.queued = more
      <3>1. ~(n > 0 /\ ~Comparable(u[n], call))
        <4>1. SUFFICES ASSUME n > 0 PROVE Comparable(u[n], call)
          OBVIOUS
        <4>2. n \in 1..n /\ u[n] \in Entry
          BY <1>1, <4>1
        <4> QED
          BY <1>3, <4>2 DEF Comparable, OneSize, Entry
      <3>2. r = [q EXCEPT !.queue = longer, !.queued = more]
        BY <1>6, <3>1 DEF Enqueued
      <3> HIDE DEF longer, more
      <3> QED
        BY <3>2 DEF VM
    <2>2. /\ DOMAIN longer = 1..(n + 1)
          /\ \A i \in 1..n : longer[i] = u[i]
          /\ longer[n + 1] = entry /\ n + 1 \in 1..(n + 1) /\ n + 1 \notin 1..n
      <3> HIDE DEF entry, u
      <3> QED
        BY <1>1 DEF n
    <2>3. /\ DOMAIN more = 1..(n + 1)
          /\ \A i \in 1..n : more[i] = d[i]
          /\ more[n + 1] = pending
      <3> HIDE DEF d, n
      <3> QED
        BY <1>1
    <2>4. entry.call = call /\ entry.whole
      OBVIOUS
    <2>5. \A i \in 1..(n + 1) : i \in 1..n \/ i = n + 1
      BY <1>1
    <2>6. 1..n \subseteq 1..(n + 1)
      BY <1>1
    <2> HIDE DEF longer, more, entry, same, u, d, n
    <2>7. \A i \in 1..(n + 1) : longer[i].whole
      BY <1>3, <2>2, <2>4, <2>5
    <2>8. \A i, j \in 1..(n + 1) : longer[i].call = longer[j].call => i = j
      BY <1>3, <1>4, <1>6, <2>2, <2>4, <2>5
    <2>9. owed \cup {call} = {longer[i].call : i \in 1..(n + 1)}
      BY <1>3, <2>2, <2>4, <2>5, <2>6
    <2>10. \A i \in 1..(n + 1) : \A a \in ToSet(more[i]) :
              a.call = longer[i].call /\ a.call \in Returning
      BY <1>2, <1>3, <2>2, <2>3, <2>4, <2>5
    <2>11. asked \cup ToSet(pending) = UNION {ToSet(more[i]) : i \in 1..(n + 1)}
      BY <1>3, <2>2, <2>3, <2>5, <2>6
    <2>12. Waiting(longer, more, owed \cup {call}, asked \cup ToSet(pending))
      BY <2>2, <2>3, <2>7, <2>8, <2>9, <2>10, <2>11 DEF Waiting
    <2> QED
      BY <2>1, <2>12
  <1> QED
    BY <1>5, <1>6

LEMMA QueueCallGood ==
    ASSUME OneSize, NEW s, Good(s), NEW call \in Calls, NEW pending \in Pending(call),
           NEW t, t = QueueCall(s, call, pending)
    PROVE  Good(t)
  <1>1. /\ Typed(t) /\ t.vm = Enqueued(s.vm, call, pending)
        /\ t.vm.thread = s.vm.thread
        /\ t.seen.owed = s.seen.owed \cup {call}
        /\ t.seen.asked = s.seen.asked \cup ToSet(pending)
        /\ t.seen.awaited = s.seen.awaited /\ t.seen.wrong = s.seen.wrong
        /\ t.seen.silent = s.seen.silent
    BY QueueCallTyped DEF Good
  <1>2. s.vm \in VM /\ Len(s.vm.queue) = Len(s.vm.queued) /\ pending \in Seq(Callback)
    BY PendingIs DEF Good, Typed, State
  <1>3. t.vm.running = s.vm.running /\ t.vm.active = s.vm.active
    BY <1>1, <1>2, EnqueuedTyped
  <1>4. IsWaiting(t)
    <2>1. Waiting(s.vm.queue, s.vm.queued, s.seen.owed, s.seen.asked)
      BY DEF Good, IsWaiting
    <2> DEFINE r == t.vm
    <2>2. r = Enqueued(s.vm, call, pending)
      BY <1>1
    <2> HIDE DEF r
    <2>3. Waiting(r.queue, r.queued, s.seen.owed \cup {call}, s.seen.asked \cup ToSet(pending))
      BY <1>2, <2>1, <2>2, EnqueuedGood
    <2> QED
      BY <1>1, <2>3 DEF IsWaiting, r
  <1>5. NobodyWronged(t.seen)
    BY <1>1 DEF Good, NobodyWronged
  <1>6. t.vm.thread = "idle" => t.seen.awaited = {}
    BY <1>1 DEF Good
  <1>7. t.vm.thread # "idle" => Awaits(t.vm, t.seen, t.vm.running)
    BY <1>1, <1>3 DEF Good, Awaits
  <1> QED
    BY <1>1, <1>4, <1>5, <1>6, <1>7 DEF Good

(* The steps of both variables. *)
LEMMA BecomesGood ==
    ASSUME NEW s, Good(s), Becomes(s)
    PROVE  IInv'
  <1>1. Typed(s)
    BY DEF Good
  <1>2. Now' = s
    BY <1>1, BecomesTyped
  <1>3. Good(Now')
    BY <1>2
  <1> QED
    BY <1>3 DEF IInv, Good, Typed, IsWaiting, Waiting, Awaits, NobodyWronged, State, VM, Seen

LEMMA RunQueuedGood ==
    ASSUME NEW s, Good(s), NEW how \in Outcomes, RunQueued(s, how)
    PROVE  IInv'
  <1>1. CASE s.vm.queue = <<>>
    BY <1>1, BecomesGood DEF RunQueued
  <1>2. CASE s.vm.queue # <<>>
    <2> DEFINE first == Head(s.vm.queue)
               t == Started(s)
               h == IF first.whole THEN how ELSE "error"
    <2>1. /\ Typed(t) /\ IsWaiting(t) /\ NobodyWronged(t.seen)
          /\ first \in Entry /\ Awaits(t.vm, t.seen, first.call)
      <3>1. t = Started(s) /\ first = Head(s.vm.queue)
        OBVIOUS
      <3> HIDE DEF t, first
      <3> QED
        BY <1>2, <3>1, StartedGood
    <2>2. first.call \in Calls /\ h \in Outcomes
      BY <2>1 DEF Entry, Outcomes, Ending
    <2>3. Becomes(Runs(t, first.call, h))
      BY <1>2 DEF RunQueued
    <2> HIDE DEF first, h, t
    <2>4. Good(Runs(t, first.call, h))
      BY <2>1, <2>2, RunsGood
    <2> QED
      BY <2>3, <2>4, BecomesGood
  <1> QED
    BY <1>1, <1>2

LEMMA ResumeCallGood ==
    ASSUME NEW s, Good(s), NEW how \in Outcomes, NEW next \in Outcomes,
           ResumeCall(s, how, next)
    PROVE  IInv'
  <1>1. CASE Becomes(s)
    BY <1>1, BecomesGood
  <1>2. CASE RunQueued(s, next)
    BY <1>2, RunQueuedGood
  <1>3. CASE s.vm.thread = "suspended" /\ GoesOn(s, how, next)
    <2>1. /\ Typed(s) /\ IsWaiting(s) /\ NobodyWronged(s.seen)
          /\ Awaits(s.vm, s.seen, s.vm.running) /\ s.vm.running \in Calls
      BY <1>3 DEF Good, Typed, State, VM
    <2>2. CASE how \in Suspending
      <3>1. Becomes(Runs(s, s.vm.running, how))
        BY <1>3, <2>2 DEF GoesOn
      <3>2. Good(Runs(s, s.vm.running, how))
        BY <2>1, RunsGood
      <3> QED
        BY <3>1, <3>2, BecomesGood
    <2>3. CASE how \notin Suspending
      <3>1. RunQueued(Finished(s, s.vm.running, how), next)
        BY <1>3, <2>3 DEF GoesOn
      <3>2. Good(Finished(s, s.vm.running, how))
        BY <2>1, FinishedGood
      <3> QED
        BY <3>1, <3>2, RunQueuedGood
    <2> QED
      BY <2>2, <2>3
  <1> QED
    BY <1>1, <1>2, <1>3 DEF ResumeCall

LEMMA CallNowGood ==
    ASSUME IInv, NEW call \in Calls, NEW pending \in Pending(call), NEW how \in Outcomes,
           CallNow(call, pending, how)
    PROVE  IInv'
  <1> DEFINE t == IF how \in Suspending THEN how ELSE "idle"
             r == IF how \in Suspending THEN call ELSE NoCall
             w == IF how \in Suspending THEN ToSet(pending) ELSE {}
  <1>1. TInv /\ Waiting(vm.queue, vm.queued, seen.owed, seen.asked) /\ NobodyWronged(seen)
    BY DEF IInv, Good, Now, TInv, IsWaiting
  <1>2. TInv'
    BY <1>1, CallNowTyped
  <1>3. /\ vm' = [vm EXCEPT !.active = pending, !.thread = t, !.running = r]
        /\ seen' = [seen EXCEPT !.awaited = w, !.unheard = {}]
    BY DEF CallNow
  <1>4. /\ t # "idle" => r = call /\ w = ToSet(pending)
        /\ t = "idle" => w = {}
    BY DEF Suspending
  <1>5. vm \in VM /\ seen \in Seen
    BY <1>1 DEF TInv, Typed, Now, State
  <1> HIDE DEF t, r, w
  <1>6. /\ vm'.thread = t /\ vm'.running = r /\ vm'.active = pending
        /\ vm'.queue = vm.queue /\ vm'.queued = vm.queued
    BY <1>3, <1>5 DEF VM
  <1>7. /\ seen'.awaited = w /\ seen'.owed = seen.owed /\ seen'.asked = seen.asked
        /\ seen'.wrong = seen.wrong /\ seen'.silent = seen.silent
    BY <1>3, <1>5 DEF Seen
  <1>8. Waiting(vm'.queue, vm'.queued, seen'.owed, seen'.asked)
    BY <1>1, <1>6, <1>7
  <1>9. NobodyWronged(seen')
    BY <1>1, <1>7 DEF NobodyWronged
  <1>10. /\ vm'.thread = "idle" => seen'.awaited = {}
         /\ vm'.thread # "idle" => Awaits(vm', seen', vm'.running)
    BY <1>4, <1>6, <1>7, PendingIs DEF Awaits
  <1> QED
    BY <1>2, <1>8, <1>9, <1>10 DEF IInv, Good, Now, TInv, IsWaiting

LEMMA ToolDoneGood ==
    ASSUME IInv, ToolDone
    PROVE  IInv'
  <1>1. /\ TInv /\ Waiting(vm.queue, vm.queued, seen.owed, seen.asked) /\ NobodyWronged(seen)
        /\ vm.thread # "idle" => Awaits(vm, seen, vm.running)
    BY DEF IInv, Good, Now, TInv, IsWaiting
  <1>2. /\ TInv' /\ vm'.thread = "suspended" /\ vm'.running = vm.running
        /\ vm'.queue = vm.queue /\ vm'.queued = vm.queued /\ vm'.active = vm.active
    BY <1>1, ToolDoneTyped
  <1>3. seen' = seen /\ vm.thread = "waiting"
    BY DEF ToolDone
  <1>4. Waiting(vm'.queue, vm'.queued, seen'.owed, seen'.asked) /\ NobodyWronged(seen')
    BY <1>1, <1>2, <1>3
  <1>5. Awaits(vm', seen', vm'.running)
    BY <1>1, <1>2, <1>3 DEF Awaits
  <1> QED
    BY <1>2, <1>4, <1>5 DEF IInv, Good, Now, TInv, IsWaiting

LEMMA InitGood == Init => IInv
  <1> SUFFICES ASSUME Init PROVE IInv
    OBVIOUS
  <1>1. TInv
    BY InitTyped
  <1>2. /\ vm.thread = "idle" /\ vm.queue = <<>> /\ vm.queued = <<>>
        /\ seen.asked = {} /\ seen.owed = {} /\ seen.awaited = {}
        /\ seen.wrong = {} /\ seen.silent = {}
    BY DEF Init
  <1>3. Waiting(<<>>, <<>>, {}, {})
    BY DEF Waiting
  <1>4. NobodyWronged(seen)
    BY <1>2 DEF NobodyWronged
  <1> QED
    BY <1>1, <1>2, <1>3, <1>4 DEF IInv, Good, Now, TInv, IsWaiting

LEMMA NextGood ==
    ASSUME OneSize, IInv, [Next]_vars
    PROVE  IInv'
  <1>1. ASSUME NEW call \in Calls, NEW pending \in Pending(call), NEW how \in Outcomes,
               NEW next \in Outcomes, CallLater(call, pending, how, next)
        PROVE  IInv'
    <2>1. ResumeCall(QueueCall(Now, call, pending), how, next)
      BY <1>1 DEF CallLater, Now
    <2>2. Good(QueueCall(Now, call, pending))
      BY QueueCallGood DEF IInv, Good
    <2> QED
      BY <2>1, <2>2, ResumeCallGood
  <1>2. CASE UNCHANGED vars
    BY <1>2 DEF vars, IInv, Now, Good, Typed, IsWaiting, Waiting, Awaits, NobodyWronged
  <1> QED
    BY <1>1, <1>2, CallNowGood, ToolDoneGood DEF Next

(* The invariant holds, and it implies the properties. *)
LEMMA InvariantHolds ==
    ASSUME OneSize
    PROVE  Spec => []IInv
  BY InitGood, NextGood, PTL DEF Spec

LEMMA InvariantImplies ==
    ASSUME IInv
    PROVE  CallsAreKept /\ AnswersMatch /\ SomebodyHears
  <1>1. /\ Waiting(vm.queue, vm.queued, seen.owed, seen.asked) /\ NobodyWronged(seen)
    BY DEF IInv, Good, Now, IsWaiting
  <1>2. CallsAreKept
    <2>1. {j \in DOMAIN vm.queue : vm.queue[j].whole} = DOMAIN vm.queue
      BY <1>1 DEF Waiting
    <2> QED
      BY <1>1, <2>1 DEF Waiting, CallsAreKept
  <1> QED
    BY <1>1, <1>2 DEF NobodyWronged, AnswersMatch, SomebodyHears

(* Calls of one size, like those of AI players, are never lost: what was   *)
(* queued is in the queue until it starts.  Scenarios make calls of two    *)
(* sizes.                                                                  *)
THEOREM OneSizeKeepsCalls ==
    ASSUME OneSize
    PROVE  Spec => []CallsAreKept
  BY InvariantHolds, InvariantImplies, PTL

(* Nobody is called back with the value of another call, or twice, as long *)
(* as calls have one size.                                                 *)
THEOREM CallbacksMatchCalls ==
    ASSUME OneSize
    PROVE  Spec => []AnswersMatch
  BY InvariantHolds, InvariantImplies, PTL

(* Of all those who wait for a call one is told its value, however many    *)
(* equal calls were made one on the way, as long as calls have one size.   *)
THEOREM AnswersAreGiven ==
    ASSUME OneSize
    PROVE  Spec => []SomebodyHears
  BY InvariantHolds, InvariantImplies, PTL
=============================================================================

------------------------------ MODULE Coroutine ------------------------------
(***************************************************************************)
(* How Swoole switches PHP coroutines.  The interpreter has one set of     *)
(* globals (EG, OG): the VM stack, the output buffers, error_reporting.    *)
(* A coroutine that is created or resumed runs on top of the one that does *)
(* it, its origin, and control returns there when it yields or ends; at    *)
(* each switch the globals are saved in one task and loaded from another.  *)
(*                                                                         *)
(* A VM stack and a set of output buffers are named by the task they       *)
(* belong to.  Of error_reporting, TRUE means that errors are reported.    *)
(***************************************************************************)
EXTENDS Naturals, Sequences, FiniteSets

CONSTANTS
  Co,         \* coroutines; a cid is never used again
  Main,       \* the task outside of all coroutines: the script, the event loop
  Nobody,     \* the owner of no output buffer
  max_num,    \* most coroutines at a time
  MaxSilence, \* bound of how deep @ is nested
  MaxDefer    \* bound of the deferred functions of a coroutine

ASSUME CoroutineAssumption ==
  /\ Main \notin Co /\ Nobody \notin Co /\ Nobody # Main
  /\ max_num \in Nat /\ MaxSilence \in Nat /\ MaxDefer \in Nat

Task == Co \cup {Main}

VARIABLES
  current, origin, state,      \* Coroutine
  user_yield_coros,            \* those in Co::yield()
  interrupted,                 \* those that a deferred coro_interrupt_resume() will resume
  on_bailout,
  vm_stack, output, error_reporting,     \* the globals
  task_vm_stack, output_ptr,             \* saved in each task
  in_silence, ori_error_reporting, tmp_error_reporting,
  silenced,    \* silenced[t]: error_reporting at each @ that t is inside of
  freed,       \* VM stacks that were destroyed
  defers,      \* defers[c]: registered and not yet called
  ending,      \* coroutines whose function has returned
  calls,       \* calls of defer() per coroutine, for the bound
  nested       \* an @ was evaluated inside another

silence == <<in_silence, ori_error_reporting, silenced, nested>>
swaps == <<vm_stack, output, error_reporting, task_vm_stack, output_ptr, tmp_error_reporting>>
ends == <<defers, ending, calls>>
vars == <<current, origin, state, user_yield_coros, interrupted, on_bailout, swaps, silence,
          freed, ends>>

Init ==
  /\ current = Main /\ origin = [c \in Co |-> Main] /\ state = [c \in Co |-> "none"]
  /\ user_yield_coros = {} /\ interrupted = {} /\ on_bailout = FALSE
  /\ vm_stack = Main /\ output = Nobody /\ error_reporting = TRUE
  /\ task_vm_stack = [t \in Task |-> t] /\ output_ptr = [t \in Task |-> Nobody]
  /\ in_silence = [t \in Task |-> FALSE]
  /\ ori_error_reporting = [t \in Task |-> TRUE] /\ tmp_error_reporting = [t \in Task |-> TRUE]
  /\ silenced = [t \in Task |-> <<>>]
  /\ freed = {} /\ nested = FALSE
  /\ defers = [c \in Co |-> 0] /\ ending = {} /\ calls = [c \in Co |-> 0]

-----------------------------------------------------------------------------
\* save_vm_stack(): error_reporting as it is outside of the @ that task t is inside of.
Unsilenced(t) == IF in_silence[t] THEN ori_error_reporting[t] ELSE error_reporting

\* Faulty variant: error_reporting is left alone.
switch_Silent(t, u) ==
  /\ task_vm_stack' = [task_vm_stack EXCEPT ![t] = vm_stack]
  /\ vm_stack' = task_vm_stack[u]
  /\ output_ptr' = [output_ptr EXCEPT ![t] = output, ![u] = Nobody]
  /\ output' = output_ptr[u]
  /\ UNCHANGED <<error_reporting, tmp_error_reporting>>

\* save_task(t), and restore_task(u).  save_og() leaves no output buffer behind.
switch(t, u) ==
  /\ task_vm_stack' = [task_vm_stack EXCEPT ![t] = vm_stack]
  /\ vm_stack' = task_vm_stack[u]
  /\ output_ptr' = [output_ptr EXCEPT ![t] = output, ![u] = Nobody]
  /\ output' = output_ptr[u]
  /\ tmp_error_reporting' =
       [tmp_error_reporting EXCEPT ![t] = IF in_silence[t] THEN error_reporting ELSE @]
  /\ error_reporting' = IF in_silence[u] THEN tmp_error_reporting[u] ELSE Unsilenced(t)

\* Coroutine::yield(), or on_yield() and yield_naked(): control returns to the origin.
yield(c) ==
  /\ current = c
  /\ state' = [state EXCEPT ![c] = "waiting"]
  /\ switch(c, origin[c])
  /\ current' = origin[c]
  /\ UNCHANGED <<origin, on_bailout, silence, freed, ends>>

\* Faulty variant: the origin stays the one that created c.
resume_Origin(c) ==
  /\ state' = [state EXCEPT ![c] = "running"]
  /\ switch(current, c)
  /\ current' = c
  /\ UNCHANGED <<origin, on_bailout, silence, freed, ends>>

\* Coroutine::resume(), or on_resume() and resume_naked().
resume(c) ==
  /\ state' = [state EXCEPT ![c] = "running"]
  /\ switch(current, c)
  /\ origin' = [origin EXCEPT ![c] = current]
  /\ current' = c
  /\ UNCHANGED <<on_bailout, silence, freed, ends>>

-----------------------------------------------------------------------------
\* PHPCoroutine::create() saves the task that calls it, and main_func() makes a VM stack.
Alive == {c \in Co : state[c] \in {"running", "waiting"}}

create(c) ==
  /\ ~ on_bailout /\ state[c] = "none" /\ Cardinality(Alive) < max_num
  /\ state' = [state EXCEPT ![c] = "running"]
  /\ task_vm_stack' = [task_vm_stack EXCEPT ![current] = vm_stack, ![c] = c]
  /\ vm_stack' = c
  /\ output_ptr' = [output_ptr EXCEPT ![current] = output] /\ output' = Nobody
  /\ tmp_error_reporting' =
       [tmp_error_reporting EXCEPT ![current] = IF in_silence[current] THEN error_reporting ELSE @]
  /\ error_reporting' = Unsilenced(current)
  /\ origin' = [origin EXCEPT ![c] = current]
  /\ current' = c
  /\ UNCHANGED <<user_yield_coros, interrupted, on_bailout, silence, freed, ends>>

\* Co::yield() and Co::resume().
user_yield(c) ==
  /\ ~ on_bailout
  /\ user_yield_coros' = user_yield_coros \cup {c}
  /\ yield(c)
  /\ UNCHANGED interrupted

user_resume(c) ==
  /\ ~ on_bailout /\ c \in user_yield_coros
  /\ user_yield_coros' = user_yield_coros \ {c}
  /\ resume(c)
  /\ UNCHANGED interrupted

\* coro_interrupt_function(): a coroutine that has run for too long yields, and the event
\* loop resumes it with its deferred tasks.
interrupt(c) ==
  /\ ~ on_bailout
  /\ interrupted' = interrupted \cup {c}
  /\ yield(c)
  /\ UNCHANGED user_yield_coros

coro_interrupt_resume(c) ==
  /\ ~ on_bailout /\ current = Main /\ c \in interrupted
  /\ interrupted' = interrupted \ {c}
  /\ resume(c)
  /\ UNCHANGED user_yield_coros

\* A coroutine waits for something else: yield_m(), and resume_m() by the event loop or
\* by another coroutine, when it is there.
InIO == {c \in Co : state[c] = "waiting"} \ (user_yield_coros \cup interrupted)

yield_m(c) ==
  /\ ~ on_bailout /\ yield(c)
  /\ UNCHANGED <<user_yield_coros, interrupted>>

resume_m(c) ==
  /\ ~ on_bailout /\ c \in InIO /\ resume(c)
  /\ UNCHANGED <<user_yield_coros, interrupted>>

-----------------------------------------------------------------------------
\* What else code does with the globals: it begins and ends output buffering...
Runs == ~ on_bailout /\ UNCHANGED <<current, origin, state, user_yield_coros, interrupted,
                                   on_bailout, vm_stack, task_vm_stack, output_ptr,
                                   tmp_error_reporting, freed>>

ob_start ==
  /\ output = Nobody /\ output' = current
  /\ Runs /\ UNCHANGED <<error_reporting, silence, ends>>

ob_end ==
  /\ output # Nobody /\ output' = Nobody
  /\ Runs /\ UNCHANGED <<error_reporting, silence, ends>>

\* ... and evaluates @: coro_begin_silence_handler() and ZEND_BEGIN_SILENCE,
\* coro_end_silence_handler() and ZEND_END_SILENCE.
begin_silence ==
  /\ Len(silenced[current]) < MaxSilence
  /\ nested' = (nested \/ silenced[current] # <<>>)
  /\ in_silence' = [in_silence EXCEPT ![current] = TRUE]
  /\ ori_error_reporting' = [ori_error_reporting EXCEPT ![current] = error_reporting]
  /\ silenced' = [silenced EXCEPT ![current] = <<error_reporting>> \o @]
  /\ error_reporting' = FALSE
  /\ Runs /\ UNCHANGED <<output, ends>>

end_silence ==
  /\ silenced[current] # <<>>
  /\ in_silence' = [in_silence EXCEPT ![current] = FALSE]
  /\ silenced' = [silenced EXCEPT ![current] = Tail(@)]
  /\ error_reporting' = (error_reporting \/ Head(silenced[current]))
  /\ Runs /\ UNCHANGED <<output, ori_error_reporting, nested, ends>>

\* PHPCoroutine::defer(), also from a deferred function.
defer(c) ==
  /\ current = c /\ calls[c] < MaxDefer
  /\ defers' = [defers EXCEPT ![c] = @ + 1]
  /\ calls' = [calls EXCEPT ![c] = @ + 1]
  /\ Runs /\ UNCHANGED <<output, error_reporting, silence, ending>>

\* The function of the coroutine returns, outside of any @; then main_func() calls the
\* deferred functions, which may yield.
return(c) ==
  /\ current = c /\ c \notin ending /\ silenced[c] = <<>>
  /\ ending' = ending \cup {c}
  /\ Runs /\ UNCHANGED <<output, error_reporting, silence, defers, calls>>

call_deferred(c) ==
  /\ current = c /\ c \in ending /\ defers[c] > 0
  /\ defers' = [defers EXCEPT ![c] = @ - 1]
  /\ Runs /\ UNCHANGED <<output, error_reporting, silence, ending, calls>>

\* Faulty variant: the output buffers stay.
close_Buffers(c) ==
  /\ ~ on_bailout
  /\ current = c /\ c \in ending /\ defers[c] = 0 /\ silenced[c] = <<>>
  /\ state' = [state EXCEPT ![c] = "end"]
  /\ freed' = freed \cup {vm_stack}
  /\ vm_stack' = task_vm_stack[origin[c]]
  /\ output' = IF output_ptr[origin[c]] = Nobody THEN output ELSE output_ptr[origin[c]]
  /\ output_ptr' = [output_ptr EXCEPT ![origin[c]] = Nobody]
  /\ error_reporting' = IF in_silence[origin[c]] THEN tmp_error_reporting[origin[c]] ELSE error_reporting
  /\ current' = origin[c]
  /\ UNCHANGED <<origin, user_yield_coros, interrupted, on_bailout, task_vm_stack,
                 tmp_error_reporting, silence, ends>>

\* Coroutine::close(), on_close(): the output buffers end, the VM stack is destroyed, and
\* the origin gets the globals.
close(c) ==
  /\ ~ on_bailout
  /\ current = c /\ c \in ending /\ defers[c] = 0 /\ silenced[c] = <<>>
  /\ state' = [state EXCEPT ![c] = "end"]
  /\ freed' = freed \cup {vm_stack}
  /\ vm_stack' = task_vm_stack[origin[c]]
  /\ output' = output_ptr[origin[c]]
  /\ output_ptr' = [output_ptr EXCEPT ![origin[c]] = Nobody]
  /\ error_reporting' = IF in_silence[origin[c]] THEN tmp_error_reporting[origin[c]] ELSE error_reporting
  /\ current' = origin[c]
  /\ UNCHANGED <<origin, user_yield_coros, interrupted, on_bailout, task_vm_stack,
                 tmp_error_reporting, silence, ends>>

\* A fatal error in a coroutine: Coroutine::bailout() lets the coroutine r that is closest
\* to the script yield, with the globals of the current one; the program ends there.

bailout(r) ==
  /\ ~ on_bailout /\ current # Main
  /\ state[r] = "running" /\ origin[r] = Main
  /\ on_bailout' = TRUE
  /\ state' = [state EXCEPT ![r] = "waiting"]
  /\ switch(r, Main)
  /\ current' = Main
  /\ UNCHANGED <<origin, user_yield_coros, interrupted, silence, freed, ends>>

Next ==
  \/ \E c \in Co :
       \/ create(c) \/ user_yield(c) \/ user_resume(c) \/ interrupt(c) \/ coro_interrupt_resume(c)
       \/ yield_m(c) \/ resume_m(c) \/ defer(c) \/ return(c) \/ call_deferred(c) \/ close(c)
       \/ bailout(c)
  \/ ob_start \/ ob_end \/ begin_silence \/ end_silence

Spec == Init /\ [][Next]_vars

-----------------------------------------------------------------------------
\* Every variable has its type.
TypeOK ==
  /\ current \in Task /\ origin \in [Co -> Task]
  /\ state \in [Co -> {"none", "running", "waiting", "end"}]
  /\ user_yield_coros \subseteq Co /\ interrupted \subseteq Co /\ on_bailout \in BOOLEAN
  /\ vm_stack \in Task /\ task_vm_stack \in [Task -> Task]
  /\ output \in Task \cup {Nobody} /\ output_ptr \in [Task -> Task \cup {Nobody}]
  /\ freed \subseteq Co /\ ending \subseteq Co

\* The VM stack is the one of whoever runs, at every return from yield, resume, create and
\* close, and after a fatal error; a stack is destroyed when its own coroutine ends.
StackIsCurrents ==
  /\ vm_stack = current
  /\ freed = {c \in Co : state[c] = "end"}

\* Output goes to the buffers of whoever runs, and each task gets its own buffers back.
OutputIsOwn ==
  ~ on_bailout =>
    /\ output \in {Nobody, current}
    /\ \A t \in Task : output_ptr[t] \in {Nobody, t}

\* The running coroutines stand on top of one another, down to the script: the one on top
\* is current, and no two have the same origin.  So no coroutine is resumed while it is
\* waiting for one that it has resumed itself, and control returns to the script.
RunningChain ==
  ~ on_bailout =>
    /\ current # Main => state[current] = "running"
    /\ \A c \in Co : state[c] = "running" =>
         /\ origin[c] # current
         /\ origin[c] # Main => state[origin[c]] = "running"
         /\ \A d \in Co : state[d] = "running" /\ origin[c] = origin[d] => c = d

\* Co::resume() finds only coroutines that are suspended in Co::yield(): never one "in IO
\* operation or non-existent".
OnlyYielded ==
  /\ user_yield_coros \cap interrupted = {}
  /\ \A c \in user_yield_coros \cup interrupted : state[c] = "waiting"

\* The switch as a whole: the VM stack is that of whoever runs, the running coroutines are a
\* chain down to the script, and Co::resume() finds only coroutines that yielded.
SwitchSound == TypeOK /\ StackIsCurrents /\ RunningChain /\ OnlyYielded

\* An @ in one coroutine does not silence another, unless somewhere an @ was evaluated
\* inside another.
SilenceIsOwn ==
  ~ nested /\ ~ on_bailout => (error_reporting <=> silenced[current] = <<>>)
=============================================================================

--------------------------- MODULE CoroutineProofs ---------------------------
(***************************************************************************)
(* For every number of coroutines: at every switch the interpreter gets    *)
(* the VM stack and the output buffers of the coroutine that runs next,    *)
(* and its error_reporting if it is inside of an @.                        *)
(*                                                                         *)
(* The invariants need one another, and Saved: what is saved in a task is  *)
(* its own.  RunningChain tells that the task that is loaded is not the    *)
(* one just saved, and that the one that yields is not among those that    *)
(* wait already.  SilenceSaved does for error_reporting what Saved does    *)
(* for the VM stack.                                                       *)
(*                                                                         *)
(* The last part is about WaitSignal: for every set of coroutines and      *)
(* signals, a signal that is waited for has its listener and its place in  *)
(* the mask (SigInv).                                                      *)
(***************************************************************************)
EXTENDS Coroutine, WaitSignal, Sequences, FiniteSetTheorems, TLAPS

\* What a task holds of the VM stack is its own.
Saved == ~ on_bailout => \A t \in Task : task_vm_stack[t] = t

IInv == TypeOK /\ StackIsCurrents /\ Saved /\ OutputIsOwn /\ RunningChain /\ OnlyYielded

-----------------------------------------------------------------------------
\* At the start only the script runs.
LEMMA InitIInv == Init => IInv
<1> SUFFICES ASSUME Init PROVE IInv
  BY Zenon
<1>1. /\ Main \in Task /\ Co \subseteq Task /\ Main \notin Co
      /\ current = Main /\ vm_stack = Main /\ output = Nobody /\ freed = {}
      /\ origin = [c \in Co |-> Main] /\ state = [c \in Co |-> "none"]
      /\ task_vm_stack = [t \in Task |-> t] /\ output_ptr = [t \in Task |-> Nobody]
      /\ user_yield_coros = {} /\ interrupted = {} /\ on_bailout = FALSE /\ ending = {}
  BY CoroutineAssumption, Zenon DEF Init, Task
<1>2. TypeOK
  BY <1>1, Zenon DEF TypeOK
<1>3. StackIsCurrents /\ RunningChain
  BY <1>1, Zenon DEF StackIsCurrents, RunningChain
<1>4. Saved /\ OutputIsOwn
  BY <1>1, Zenon DEF Saved, OutputIsOwn
<1>5. OnlyYielded
  BY <1>1, Zenon DEF OnlyYielded
<1> QED
  BY <1>2, <1>3, <1>4, <1>5, Zenon DEF IInv

\* switch() between two tasks gives the globals of the second.
LEMMA SwitchGlobals ==
  ASSUME IInv, ~ on_bailout, NEW t \in Task, NEW u \in Task, t # u, t = current, switch(t, u)
  PROVE  /\ vm_stack' = u /\ task_vm_stack' \in [Task -> Task]
         /\ \A x \in Task : task_vm_stack'[x] = x
         /\ output' \in {Nobody, u} /\ output_ptr' \in [Task -> Task \cup {Nobody}]
         /\ \A x \in Task : output_ptr'[x] \in {Nobody, x}
<1>1. /\ vm_stack = t /\ \A x \in Task : task_vm_stack[x] = x
      /\ output \in {Nobody, t} /\ \A x \in Task : output_ptr[x] \in {Nobody, x}
      /\ task_vm_stack \in [Task -> Task] /\ output_ptr \in [Task -> Task \cup {Nobody}]
  BY Zenon DEF IInv, TypeOK, StackIsCurrents, Saved, OutputIsOwn
<1>2. vm_stack' = u /\ task_vm_stack' \in [Task -> Task] /\ \A x \in Task : task_vm_stack'[x] = x
  BY <1>1, Zenon DEF switch
<1>3. output' \in {Nobody, u}
  BY <1>1, Zenon DEF switch
<1>4. /\ output_ptr' = [output_ptr EXCEPT ![t] = output, ![u] = Nobody]
      /\ output_ptr' \in [Task -> Task \cup {Nobody}]
  BY <1>1, Zenon DEF switch
<1>5. \A x \in Task : output_ptr'[x] \in {Nobody, x}
  BY <1>1, <1>4, Zenon
<1> QED
  BY <1>2, <1>3, <1>4, <1>5, Zenon

\* The chain when a suspended or new coroutine d is put on top.
LEMMA ChainGrows ==
  ASSUME TypeOK, RunningChain, ~ on_bailout, NEW d \in Co, state[d] # "running",
         state' = [state EXCEPT ![d] = "running"], origin' = [origin EXCEPT ![d] = current],
         current' = d
  PROVE  RunningChain' /\ origin' \in [Co -> Task] /\ d # current
<1>1. d # Main /\ d # current /\ Main \notin Co
  BY CoroutineAssumption, Zenon DEF RunningChain
<1>2. /\ state'[d] = "running" /\ origin'[d] = current /\ origin' \in [Co -> Task]
      /\ \A c \in Co : c # d => state'[c] = state[c] /\ origin'[c] = origin[c]
  BY Zenon DEF TypeOK
<1>3. ASSUME NEW c \in Co, state'[c] = "running"
      PROVE  origin'[c] # d /\ (origin'[c] # Main => state'[origin'[c]] = "running")
  <2>1. CASE c = d
    BY <2>1, <1>1, <1>2, Zenon DEF RunningChain, TypeOK, Task
  <2>2. CASE c # d
    <3>1. origin[c] # Main => origin[c] \in Co /\ state[origin[c]] = "running"
      BY <2>2, <1>2, <1>3, Zenon DEF RunningChain, TypeOK, Task
    <3> QED
      BY <2>2, <3>1, <1>1, <1>2, Zenon
  <2> QED
    BY <2>1, <2>2, Zenon
<1>4. ASSUME NEW a \in Co, NEW b \in Co, state'[a] = "running", state'[b] = "running",
             origin'[a] = origin'[b]
      PROVE  a = b
  BY <1>2, <1>4, Zenon DEF RunningChain
<1> QED
  BY <1>1, <1>2, <1>3, <1>4, Zenon DEF RunningChain

\* The chain when the coroutine on top yields or ends.
LEMMA ChainShrinks ==
  ASSUME TypeOK, RunningChain, ~ on_bailout, NEW c \in Co, c = current, NEW l, l # "running",
         state' = [state EXCEPT ![c] = l], origin' = origin, current' = origin[c]
  PROVE  RunningChain' /\ origin[c] \in Task /\ origin[c] # c /\ state[c] = "running"
<1>1. c # Main /\ state[c] = "running" /\ origin[c] # c /\ origin[c] \in Task /\ Main \notin Co
  BY CoroutineAssumption, Zenon DEF RunningChain, TypeOK
<1>2. /\ state'[c] = l /\ \A d \in Co : d # c => state'[d] = state[d]
  BY Zenon DEF TypeOK
<1>3. origin[c] # Main => state'[origin[c]] = "running"
  BY <1>1, <1>2, Zenon DEF RunningChain, TypeOK, Task
<1>4. ASSUME NEW d \in Co, state'[d] = "running"
      PROVE  /\ origin[d] # origin[c]
             /\ origin[d] # Main => state'[origin[d]] = "running"
  <2>1. d # c /\ state[d] = "running"
    BY <1>2, <1>4, Zenon
  <2>2. origin[d] # c /\ origin[d] # origin[c]
    BY <2>1, <1>1, Zenon DEF RunningChain
  <2>3. origin[d] # Main => origin[d] \in Co /\ state[origin[d]] = "running"
    BY <2>1, Zenon DEF RunningChain, TypeOK, Task
  <2> QED
    BY <2>2, <2>3, <1>2, Zenon
<1>5. ASSUME NEW a \in Co, NEW b \in Co, state'[a] = "running", state'[b] = "running",
             origin[a] = origin[b]
      PROVE  a = b
  BY <1>2, <1>5 DEF RunningChain
<1> QED
  BY <1>1, <1>3, <1>4, <1>5, Zenon DEF RunningChain

-----------------------------------------------------------------------------
\* yield() of a coroutine that becomes one of those that wait.
LEMMA YieldIInv ==
  ASSUME IInv, ~ on_bailout, NEW c \in Co, yield(c),
         \/ user_yield_coros' = user_yield_coros \cup {c} /\ interrupted' = interrupted
         \/ user_yield_coros' = user_yield_coros /\ interrupted' = interrupted \cup {c}
         \/ user_yield_coros' = user_yield_coros /\ interrupted' = interrupted
  PROVE  IInv'
<1>1. RunningChain' /\ origin[c] \in Task /\ origin[c] # c /\ state[c] = "running"
  BY ChainShrinks, Zenon DEF yield, IInv
<1>2. c = current /\ c \in Task /\ switch(c, origin[c]) /\ current' = origin[c]
      /\ on_bailout' = on_bailout
  BY Zenon DEF yield, Task
<1>3. /\ vm_stack' = origin[c] /\ task_vm_stack' \in [Task -> Task]
      /\ \A x \in Task : task_vm_stack'[x] = x
      /\ output' \in {Nobody, origin[c]} /\ output_ptr' \in [Task -> Task \cup {Nobody}]
      /\ \A x \in Task : output_ptr'[x] \in {Nobody, x}
  BY <1>1, <1>2, SwitchGlobals, Zenon
<1>4. /\ state' \in [Co -> {"none", "running", "waiting", "end"}] /\ state'[c] = "waiting"
      /\ \A d \in Co : d # c => state'[d] = state[d]
  BY Zenon DEF yield, IInv, TypeOK
<1>5. TypeOK'
  BY <1>1, <1>2, <1>3, <1>4, Zenon DEF IInv, TypeOK, yield, ends
<1>6. StackIsCurrents'
  BY <1>1, <1>2, <1>3, <1>4, Zenon DEF IInv, StackIsCurrents, yield
<1>7. Saved' /\ OutputIsOwn'
  BY <1>2, <1>3, Zenon DEF Saved, OutputIsOwn
<1>8. OnlyYielded'
  BY <1>1, <1>4, Zenon DEF IInv, OnlyYielded, TypeOK
<1> QED
  BY <1>1, <1>5, <1>6, <1>7, <1>8, Zenon DEF IInv

\* resume() of a coroutine that waits, and is taken from those that do.
LEMMA ResumeIInv ==
  ASSUME IInv, ~ on_bailout, NEW c \in Co, state[c] = "waiting", resume(c),
         user_yield_coros' = user_yield_coros \ {c}, interrupted' = interrupted \ {c}
  PROVE  IInv'
<1>1. RunningChain' /\ origin' \in [Co -> Task] /\ c # current
  BY ChainGrows, Zenon DEF resume, IInv
<1>2. current \in Task /\ c \in Task /\ switch(current, c) /\ current' = c
      /\ on_bailout' = on_bailout
  BY Zenon DEF resume, Task, IInv, TypeOK
<1>3. /\ vm_stack' = c /\ task_vm_stack' \in [Task -> Task]
      /\ \A x \in Task : task_vm_stack'[x] = x
      /\ output' \in {Nobody, c} /\ output_ptr' \in [Task -> Task \cup {Nobody}]
      /\ \A x \in Task : output_ptr'[x] \in {Nobody, x}
  BY <1>1, <1>2, SwitchGlobals, Zenon
<1>4. /\ state' \in [Co -> {"none", "running", "waiting", "end"}] /\ state'[c] = "running"
      /\ \A d \in Co : d # c => state'[d] = state[d]
  BY Zenon DEF resume, IInv, TypeOK
<1>5. TypeOK'
  BY <1>1, <1>2, <1>3, <1>4, Zenon DEF IInv, TypeOK, resume, ends
<1>6. StackIsCurrents'
  BY <1>2, <1>3, <1>4, Zenon DEF IInv, StackIsCurrents, resume
<1>7. Saved' /\ OutputIsOwn'
  BY <1>2, <1>3, Zenon DEF Saved, OutputIsOwn
<1>8. OnlyYielded'
  BY <1>4, Zenon DEF IInv, OnlyYielded, TypeOK
<1> QED
  BY <1>1, <1>5, <1>6, <1>7, <1>8, Zenon DEF IInv

\* Coroutine::create() keeps the invariant,
LEMMA CreateIInv ==
  ASSUME IInv, NEW c \in Co, create(c)
  PROVE  IInv'
<1>1. RunningChain' /\ origin' \in [Co -> Task] /\ c # current
  BY ChainGrows, Zenon DEF create, IInv
<1>2. current \in Task /\ c \in Task /\ current' = c /\ vm_stack' = c /\ output' = Nobody
      /\ ~ on_bailout /\ on_bailout' = on_bailout /\ vm_stack = current
      /\ output \in {Nobody, current}
  BY Zenon DEF create, Task, IInv, TypeOK, StackIsCurrents, OutputIsOwn
<1>3. task_vm_stack' \in [Task -> Task] /\ \A x \in Task : task_vm_stack'[x] = x
  BY <1>2, Zenon DEF create, IInv, TypeOK, Saved
<1>4. /\ output_ptr' \in [Task -> Task \cup {Nobody}]
      /\ \A x \in Task : output_ptr'[x] \in {Nobody, x}
  BY <1>2, Zenon DEF create, IInv, TypeOK, OutputIsOwn
<1>5. /\ state' \in [Co -> {"none", "running", "waiting", "end"}] /\ state'[c] = "running"
      /\ \A d \in Co : d # c => state'[d] = state[d]
      /\ state[c] = "none"
  BY Zenon DEF create, IInv, TypeOK
<1>6. TypeOK'
  BY <1>1, <1>2, <1>3, <1>4, <1>5 DEF IInv, TypeOK, create, ends
<1>7. StackIsCurrents'
  BY <1>2, <1>5, Zenon DEF IInv, StackIsCurrents, create
<1>8. Saved' /\ OutputIsOwn'
  BY <1>2, <1>3, <1>4, Zenon DEF Saved, OutputIsOwn
<1>9. OnlyYielded'
  BY <1>5, Zenon DEF IInv, OnlyYielded, TypeOK, create
<1> QED
  BY <1>1, <1>6, <1>7, <1>8, <1>9, Zenon DEF IInv

\* so does the end of a coroutine,
LEMMA CloseIInv ==
  ASSUME IInv, NEW c \in Co, close(c)
  PROVE  IInv'
<1>1. RunningChain' /\ origin[c] \in Task /\ origin[c] # c /\ state[c] = "running"
  BY ChainShrinks, Zenon DEF close, IInv
<1>2. ~ on_bailout /\ on_bailout' = on_bailout /\ vm_stack = c /\ current' = origin[c]
  BY Zenon DEF close, IInv, StackIsCurrents
<1>3. vm_stack' = origin[c] /\ task_vm_stack' = task_vm_stack
  BY <1>1, <1>2, Zenon DEF close, IInv, Saved
<1>4. /\ output' \in {Nobody, origin[c]} /\ output_ptr' \in [Task -> Task \cup {Nobody}]
      /\ \A x \in Task : output_ptr'[x] \in {Nobody, x}
  BY <1>1, <1>2, Zenon DEF close, IInv, TypeOK, OutputIsOwn
<1>5. /\ state' \in [Co -> {"none", "running", "waiting", "end"}] /\ state'[c] = "end"
      /\ \A d \in Co : d # c => state'[d] = state[d]
  BY Zenon DEF close, IInv, TypeOK
<1>6. freed' = freed \cup {c} /\ freed = {d \in Co : state[d] = "end"}
  BY <1>2, Zenon DEF close, IInv, StackIsCurrents
<1>7. TypeOK'
  BY <1>1, <1>2, <1>3, <1>4, <1>5, <1>6 DEF IInv, TypeOK, close, ends, Task
<1>8. StackIsCurrents'
  BY <1>2, <1>3, <1>5, <1>6, Zenon DEF StackIsCurrents
<1>9. Saved' /\ OutputIsOwn'
  BY <1>2, <1>3, <1>4, Zenon DEF IInv, Saved, OutputIsOwn
<1>10. OnlyYielded'
  BY <1>1, <1>5, Zenon DEF IInv, OnlyYielded, TypeOK, close
<1> QED
  BY <1>1, <1>7, <1>8, <1>9, <1>10, Zenon DEF IInv

\* and a fatal error, which switches to the script for good.
LEMMA BailoutIInv ==
  ASSUME IInv, NEW c \in Co, bailout(c)
  PROVE  IInv'
<1>1. /\ ~ on_bailout /\ on_bailout' /\ current' = Main /\ c # Main /\ c \in Task
      /\ Main \in Task /\ switch(c, Main) /\ state[c] = "running"
  BY CoroutineAssumption, Zenon DEF bailout, Task
<1>2. vm_stack' = Main
  BY <1>1, Zenon DEF switch, IInv, Saved
<1>3. /\ task_vm_stack' \in [Task -> Task] /\ output' \in Task \cup {Nobody}
      /\ output_ptr' \in [Task -> Task \cup {Nobody}]
  BY <1>1, Zenon DEF switch, IInv, TypeOK
<1>4. /\ state' \in [Co -> {"none", "running", "waiting", "end"}] /\ state'[c] = "waiting"
      /\ \A d \in Co : d # c => state'[d] = state[d]
  BY Zenon DEF bailout, IInv, TypeOK
<1>5. TypeOK'
  BY <1>1, <1>2, <1>3, <1>4, Zenon DEF IInv, TypeOK, bailout, ends
<1>6. StackIsCurrents'
  BY <1>1, <1>2, <1>4, Zenon DEF IInv, StackIsCurrents, bailout
<1>7. Saved' /\ OutputIsOwn' /\ RunningChain'
  BY <1>1, Zenon DEF Saved, OutputIsOwn, RunningChain
<1>8. OnlyYielded'
  BY <1>1, <1>4, Zenon DEF IInv, OnlyYielded, TypeOK, bailout
<1> QED
  BY <1>5, <1>6, <1>7, <1>8, Zenon DEF IInv

\* Steps of the code that runs change no more than the output buffers it has.
LEMMA RunsIInv ==
  ASSUME IInv, Runs, output' \in {output, current, Nobody}, ending' \in SUBSET Co
  PROVE  IInv'
<1>1. /\ output' \in Task \cup {Nobody}
      /\ ~ on_bailout => output' \in {Nobody, current}
  BY Zenon DEF IInv, TypeOK, OutputIsOwn
<1> QED
  BY <1>1, Zenon DEF IInv, Runs, TypeOK, StackIsCurrents, Saved, OutputIsOwn, RunningChain, OnlyYielded

\* Every step keeps the invariant.
LEMMA NextIInv == IInv /\ [Next]_vars => IInv'
<1> SUFFICES ASSUME IInv, [Next]_vars PROVE IInv'
  BY Zenon
<1>1. ASSUME NEW c \in Co, create(c) PROVE IInv'
  BY <1>1, CreateIInv, Zenon
<1>2. ASSUME NEW c \in Co, user_yield(c) \/ interrupt(c) \/ yield_m(c) PROVE IInv'
  BY <1>2, YieldIInv, Zenon DEF user_yield, interrupt, yield_m
<1>3. ASSUME NEW c \in Co, user_resume(c) PROVE IInv'
  <2>1. state[c] = "waiting" /\ c \notin interrupted
    BY <1>3, Zenon DEF user_resume, IInv, OnlyYielded
  <2> QED
    BY <1>3, <2>1, ResumeIInv, Zenon DEF user_resume
<1>4. ASSUME NEW c \in Co, coro_interrupt_resume(c) PROVE IInv'
  <2>1. state[c] = "waiting" /\ c \notin user_yield_coros
    BY <1>4, Zenon DEF coro_interrupt_resume, IInv, OnlyYielded
  <2> QED
    BY <1>4, <2>1, ResumeIInv, Zenon DEF coro_interrupt_resume
<1>5. ASSUME NEW c \in Co, resume_m(c) PROVE IInv'
  <2>1. state[c] = "waiting" /\ c \notin user_yield_coros /\ c \notin interrupted
    BY <1>5, Zenon DEF resume_m, InIO
  <2> QED
    BY <1>5, <2>1, ResumeIInv, Zenon DEF resume_m
<1>6. ASSUME NEW c \in Co, close(c) PROVE IInv'
  BY <1>6, CloseIInv, Zenon
<1>7. ASSUME NEW c \in Co, bailout(c) PROVE IInv'
  BY <1>7, BailoutIInv, Zenon
<1>8. ASSUME NEW c \in Co, defer(c) \/ return(c) \/ call_deferred(c) PROVE IInv'
  <2>1. Runs /\ output' = output /\ ending' \in SUBSET Co
    BY <1>8, Zenon DEF defer, return, call_deferred, IInv, TypeOK
  <2> QED
    BY <2>1, RunsIInv, Zenon
<1>9. CASE ob_start \/ ob_end \/ begin_silence \/ end_silence
  <2>1. Runs /\ output' \in {output, current, Nobody} /\ ending' \in SUBSET Co
    BY <1>9, Zenon DEF ob_start, ob_end, begin_silence, end_silence, ends, IInv, TypeOK
  <2> QED
    BY <2>1, RunsIInv, Zenon
<1>10. CASE UNCHANGED vars
  BY <1>10, Zenon DEF vars, swaps, ends, IInv, TypeOK, StackIsCurrents, Saved, OutputIsOwn,
              RunningChain, OnlyYielded
<1> QED
  BY <1>1, <1>2, <1>3, <1>4, <1>5, <1>6, <1>7, <1>8, <1>9, <1>10, Zenon DEF Next

-----------------------------------------------------------------------------
(* error_reporting and @ *)

\* The types of what @ uses.
SilenceType ==
  /\ error_reporting \in BOOLEAN /\ nested \in BOOLEAN
  /\ in_silence \in [Task -> BOOLEAN] /\ ori_error_reporting \in [Task -> BOOLEAN]
  /\ tmp_error_reporting \in [Task -> BOOLEAN] /\ silenced \in [Task -> Seq(BOOLEAN)]

\* A task inside of @ has kept the level from outside of it, which reports errors; if it does
\* not run, the level that it gets back is the silent one.  A new coroutine is in no @.
SilenceSaved ==
  ~ nested /\ ~ on_bailout =>
    /\ \A t \in Task :
         /\ in_silence[t] <=> silenced[t] # <<>>
         /\ silenced[t] # <<>> => silenced[t] = <<TRUE>> /\ ori_error_reporting[t] = TRUE
         /\ in_silence[t] /\ t # current => tmp_error_reporting[t] = FALSE
    /\ \A c \in Co : state[c] = "none" => silenced[c] = <<>>

SInv == SilenceType /\ SilenceSaved /\ SilenceIsOwn

\* At the start nothing is silenced.
LEMMA InitSInv == Init => SInv
<1> SUFFICES ASSUME Init PROVE SInv
  BY Zenon
<1>1. SilenceType
  <2>1. <<>> \in Seq(BOOLEAN)
    OBVIOUS
  <2>2. silenced \in [Task -> Seq(BOOLEAN)]
    BY <2>1, Zenon DEF Init
  <2> QED
    BY <2>2, Zenon DEF Init, SilenceType
<1>2. \A t \in Task : silenced[t] = <<>> /\ in_silence[t] = FALSE
  BY Zenon DEF Init
<1>3. current \in Task /\ Co \subseteq Task /\ error_reporting = TRUE
  BY Zenon DEF Init, Task
<1> QED
  BY <1>1, <1>2, <1>3, Zenon DEF SInv, SilenceSaved, SilenceIsOwn

\* switch() gives the task that runs next the level that it had, or the one from outside of
\* the @ of the task that ran before.
LEMMA SwitchSInv ==
  ASSUME SInv, ~ on_bailout, NEW t \in Task, NEW u \in Task, t # u, t = current, current' = u,
         switch(t, u), UNCHANGED <<silence, on_bailout>>,
         \A c \in Co : state'[c] = "none" => state[c] = "none"
  PROVE  SInv'
<1>1. /\ tmp_error_reporting' \in [Task -> BOOLEAN]
      /\ tmp_error_reporting'[t] = IF in_silence[t] THEN error_reporting ELSE tmp_error_reporting[t]
      /\ \A x \in Task : x # t => tmp_error_reporting'[x] = tmp_error_reporting[x]
      /\ in_silence' = in_silence /\ ori_error_reporting' = ori_error_reporting
      /\ silenced' = silenced /\ nested' = nested
  BY Zenon DEF SInv, SilenceType, switch, silence
<1>2. error_reporting' \in BOOLEAN
  BY Zenon DEF SInv, SilenceType, switch, Unsilenced
<1>3. SilenceType'
  BY <1>1, <1>2, Zenon DEF SInv, SilenceType
<1>4. ASSUME ~ nested
      PROVE  /\ in_silence[t] => error_reporting = FALSE
             /\ error_reporting' <=> silenced[u] = <<>>
  <2>1. /\ error_reporting <=> silenced[t] = <<>>
        /\ in_silence[t] <=> silenced[t] # <<>>
        /\ in_silence[u] <=> silenced[u] # <<>>
        /\ in_silence[u] => tmp_error_reporting[u] = FALSE
        /\ silenced[t] # <<>> => ori_error_reporting[t] = TRUE
        /\ error_reporting \in BOOLEAN
    BY <1>4, Zenon DEF SInv, SilenceSaved, SilenceIsOwn, SilenceType
  <2>2. error_reporting' = IF in_silence[u] THEN tmp_error_reporting[u]
                           ELSE IF in_silence[t] THEN ori_error_reporting[t] ELSE error_reporting
    BY Zenon DEF switch, Unsilenced
  <2> QED
    BY <2>1, <2>2, Zenon
<1>5. SilenceSaved'
  BY <1>1, <1>4, Zenon DEF SInv, SilenceSaved
<1>6. SilenceIsOwn'
  BY <1>1, <1>4, Zenon DEF SilenceIsOwn
<1> QED
  BY <1>3, <1>5, <1>6, Zenon DEF SInv

\* A yield saves the level of an @ and restores the one before;
LEMMA YieldSInv == ASSUME IInv, SInv, ~ on_bailout, NEW c \in Co, yield(c) PROVE SInv'
<1>1. origin[c] \in Task /\ c \in Task /\ origin[c] # c
  BY CoroutineAssumption, Zenon DEF IInv, TypeOK, RunningChain, Task, yield
<1>2. \A d \in Co : state'[d] = "none" => state[d] = "none"
  BY Zenon DEF yield, IInv, TypeOK
<1> QED
  BY <1>1, <1>2, SwitchSInv, Zenon DEF yield

\* a resume does so for the coroutine it leaves, and loads that of the other;
LEMMA ResumeSInv ==
  ASSUME IInv, SInv, ~ on_bailout, NEW c \in Co, state[c] = "waiting", resume(c) PROVE SInv'
<1>1. current \in Task /\ c \in Task /\ current # c
  BY CoroutineAssumption DEF IInv, TypeOK, RunningChain, Task
<1>2. \A d \in Co : state'[d] = "none" => state[d] = "none"
  BY Zenon DEF resume, IInv, TypeOK
<1> QED
  BY <1>1, <1>2, SwitchSInv, Zenon DEF resume

\* so does a create,
LEMMA CreateSInv == ASSUME IInv, SInv, NEW c \in Co, create(c) PROVE SInv'
<1>1. /\ current \in Task /\ c \in Task /\ c # current /\ current' = c
      /\ ~ on_bailout /\ on_bailout' = on_bailout
  BY CoroutineAssumption DEF create, Task, IInv, TypeOK, RunningChain
<1>2. /\ tmp_error_reporting' \in [Task -> BOOLEAN]
      /\ tmp_error_reporting'[current] =
           IF in_silence[current] THEN error_reporting ELSE tmp_error_reporting[current]
      /\ \A x \in Task : x # current => tmp_error_reporting'[x] = tmp_error_reporting[x]
      /\ in_silence' = in_silence /\ ori_error_reporting' = ori_error_reporting
      /\ silenced' = silenced /\ nested' = nested
  BY <1>1, Zenon DEF SInv, SilenceType, create, silence
<1>3. error_reporting' = IF in_silence[current] THEN ori_error_reporting[current] ELSE error_reporting
  BY Zenon DEF create, Unsilenced
<1>4. SilenceType'
  BY <1>1, <1>2, <1>3, Zenon DEF SInv, SilenceType
<1>5. ASSUME ~ nested
      PROVE  /\ in_silence[current] => error_reporting = FALSE
             /\ error_reporting' <=> silenced[c] = <<>>
  <2>1. /\ error_reporting <=> silenced[current] = <<>>
        /\ in_silence[current] <=> silenced[current] # <<>>
        /\ silenced[current] # <<>> => ori_error_reporting[current] = TRUE
        /\ silenced[c] = <<>> /\ error_reporting \in BOOLEAN
    BY <1>1, <1>5, Zenon DEF SilenceType, SInv, SilenceSaved, SilenceIsOwn, create
  <2> QED
    BY <2>1, <1>3, Zenon
<1>6. \A d \in Co : state'[d] = "none" => state[d] = "none"
  BY Zenon DEF create, IInv, TypeOK
<1>7. SilenceSaved'
  BY <1>1, <1>2, <1>5, <1>6, Zenon DEF SInv, SilenceSaved
<1>8. SilenceIsOwn'
  BY <1>1, <1>2, <1>5, Zenon DEF SilenceIsOwn
<1> QED
  BY <1>4, <1>7, <1>8, Zenon DEF SInv

\* and the end of a coroutine loads that of its origin.
LEMMA CloseSInv == ASSUME IInv, SInv, NEW c \in Co, close(c) PROVE SInv'
<1>1. /\ origin[c] \in Task /\ c \in Task /\ origin[c] # c /\ current = c
      /\ current' = origin[c]
      /\ ~ on_bailout /\ on_bailout' = on_bailout /\ silenced[c] = <<>>
  BY CoroutineAssumption, Zenon DEF close, Task, IInv, TypeOK, RunningChain
<1>2. /\ tmp_error_reporting' = tmp_error_reporting
      /\ in_silence' = in_silence /\ ori_error_reporting' = ori_error_reporting
      /\ silenced' = silenced /\ nested' = nested
      /\ error_reporting' =
           IF in_silence[origin[c]] THEN tmp_error_reporting[origin[c]] ELSE error_reporting
  BY Zenon DEF close, silence
<1>3. SilenceType'
  BY <1>1, <1>2, Zenon DEF SInv, SilenceType
<1>4. ASSUME ~ nested PROVE (error_reporting' <=> silenced[origin[c]] = <<>>) /\ ~ in_silence[c]
  <2>1. /\ error_reporting /\ ~ in_silence[c]
        /\ in_silence[origin[c]] <=> silenced[origin[c]] # <<>>
        /\ in_silence[origin[c]] => tmp_error_reporting[origin[c]] = FALSE
    BY <1>1, <1>4, Zenon DEF SInv, SilenceSaved, SilenceIsOwn
  <2> QED
    BY <2>1, <1>2, Zenon
<1>5. \A d \in Co : state'[d] = "none" => state[d] = "none"
  BY Zenon DEF close, IInv, TypeOK
<1>6. SilenceSaved'
  BY <1>1, <1>2, <1>4, <1>5, Zenon DEF SInv, SilenceSaved
<1>7. SilenceIsOwn'
  BY <1>1, <1>2, <1>4, Zenon DEF SilenceIsOwn
<1> QED
  BY <1>3, <1>6, <1>7, Zenon DEF SInv

\* The beginning of an @ remembers the level,
LEMMA BeginSInv == ASSUME IInv, SInv, begin_silence PROVE SInv'
<1>1. /\ current \in Task /\ current' = current /\ state' = state
      /\ ~ on_bailout /\ on_bailout' = on_bailout
      /\ tmp_error_reporting' = tmp_error_reporting /\ error_reporting' = FALSE
      /\ nested' = (nested \/ silenced[current] # <<>>)
      /\ in_silence' = [in_silence EXCEPT ![current] = TRUE]
      /\ ori_error_reporting' = [ori_error_reporting EXCEPT ![current] = error_reporting]
      /\ silenced' = [silenced EXCEPT ![current] = <<error_reporting>> \o @]
  BY Zenon DEF begin_silence, Runs, IInv, TypeOK
<1>2. <<error_reporting>> \o silenced[current] \in Seq(BOOLEAN)
  BY <1>1 DEF SInv, SilenceType
<1>3. /\ in_silence' \in [Task -> BOOLEAN] /\ ori_error_reporting' \in [Task -> BOOLEAN]
      /\ silenced' \in [Task -> Seq(BOOLEAN)]
  BY <1>1, <1>2, Zenon DEF SInv, SilenceType
<1>4. SilenceType'
  BY <1>1, <1>3, Zenon DEF SInv, SilenceType
<1>5. ASSUME ~ nested'
      PROVE  /\ ~ nested /\ silenced'[current] = <<TRUE>>
             /\ ori_error_reporting'[current] = TRUE
             /\ in_silence'[current] = TRUE
             /\ \A c \in Co : state[c] = "none" => c # current
             /\ \A t \in Task : t # current =>
                  /\ silenced'[t] = silenced[t] /\ in_silence'[t] = in_silence[t]
                  /\ ori_error_reporting'[t] = ori_error_reporting[t]
  <2>1. ~ nested /\ silenced[current] = <<>>
    BY <1>1, <1>5, Zenon
  <2>2. error_reporting = TRUE
    BY <1>1, <2>1, Zenon DEF SInv, SilenceIsOwn
  <2>3. <<error_reporting>> \o silenced[current] = <<TRUE>>
    BY <2>1, <2>2
  <2>4. \A c \in Co : state[c] = "none" => c # current
    BY <1>1, CoroutineAssumption, Zenon DEF IInv, TypeOK, RunningChain
  <2> QED
    BY <1>1, <2>1, <2>2, <2>3, <2>4, Zenon DEF SInv, SilenceType
<1>6. <<TRUE>> # <<>>
  BY Zenon
<1>7. SilenceSaved'
  <2> SUFFICES ASSUME ~ nested', ~ on_bailout'
               PROVE  /\ \A t \in Task :
                           /\ in_silence'[t] <=> silenced'[t] # <<>>
                           /\ silenced'[t] # <<>> => silenced'[t] = <<TRUE>> /\ ori_error_reporting'[t] = TRUE
                           /\ in_silence'[t] /\ t # current' => tmp_error_reporting'[t] = FALSE
                      /\ \A c \in Co : state'[c] = "none" => silenced'[c] = <<>>
    BY Zenon DEF SilenceSaved
  <2>1. ASSUME NEW t \in Task, t # current
        PROVE  /\ in_silence'[t] <=> silenced'[t] # <<>>
               /\ silenced'[t] # <<>> => silenced'[t] = <<TRUE>> /\ ori_error_reporting'[t] = TRUE
               /\ in_silence'[t] /\ t # current' => tmp_error_reporting'[t] = FALSE
    BY <1>1, <1>5, <2>1, Zenon DEF SInv, SilenceSaved
  <2>2. /\ in_silence'[current] <=> silenced'[current] # <<>>
        /\ silenced'[current] = <<TRUE>> /\ ori_error_reporting'[current] = TRUE
        /\ current = current'
    BY <1>1, <1>5, <1>6, Zenon
  <2>3. ASSUME NEW c \in Co, state'[c] = "none" PROVE silenced'[c] = <<>>
    BY <1>1, <1>5, <2>3, Zenon DEF SInv, SilenceSaved, Task
  <2> QED
    BY <2>1, <2>2, <2>3, Zenon
<1>8. SilenceIsOwn'
  BY <1>1, <1>5, <1>6, Zenon DEF SilenceIsOwn
<1> QED
  BY <1>4, <1>7, <1>8, Zenon DEF SInv

\* and its end restores it.
LEMMA EndSInv == ASSUME IInv, SInv, end_silence PROVE SInv'
<1>1. /\ current \in Task /\ current' = current /\ state' = state
      /\ ~ on_bailout /\ on_bailout' = on_bailout /\ nested' = nested
      /\ tmp_error_reporting' = tmp_error_reporting
      /\ ori_error_reporting' = ori_error_reporting
      /\ error_reporting' = (error_reporting \/ Head(silenced[current]))
      /\ silenced[current] # <<>>
      /\ in_silence' = [in_silence EXCEPT ![current] = FALSE]
      /\ silenced' = [silenced EXCEPT ![current] = Tail(@)]
  BY Zenon DEF end_silence, Runs, IInv, TypeOK
<1>2. Tail(silenced[current]) \in Seq(BOOLEAN)
  <2>1. \A q \in Seq(BOOLEAN) : q # <<>> => Tail(q) \in Seq(BOOLEAN)
    OBVIOUS
  <2> QED
    BY <1>1, <2>1, Zenon DEF SInv, SilenceType
<1>3. in_silence' \in [Task -> BOOLEAN] /\ silenced' \in [Task -> Seq(BOOLEAN)]
  BY <1>1, <1>2, Zenon DEF SInv, SilenceType
<1>4. SilenceType'
  BY <1>1, <1>3, Zenon DEF SInv, SilenceType
<1>5. ASSUME ~ nested
      PROVE  /\ silenced'[current] = <<>> /\ error_reporting' = TRUE
             /\ in_silence'[current] = FALSE
             /\ \A t \in Task : t # current =>
                  silenced'[t] = silenced[t] /\ in_silence'[t] = in_silence[t]
  <2>1. silenced[current] = <<TRUE>>
    BY <1>1, <1>5, Zenon DEF SInv, SilenceSaved
  <2>2. Head(<<TRUE>>) = TRUE /\ Tail(<<TRUE>>) = <<>>
    <3>1. <<TRUE>> \in Seq(BOOLEAN) /\ <<TRUE>> # <<>> /\ Len(<<TRUE>>) = 1 /\ <<TRUE>>[1] = TRUE
      OBVIOUS
    <3>2. Tail(<<TRUE>>) \in Seq(BOOLEAN) /\ Len(Tail(<<TRUE>>)) = 0
      BY <3>1
    <3>3. Tail(<<TRUE>>) = <<>>
      BY <3>2
    <3>4. \A s \in Seq(BOOLEAN) : s # <<>> => Head(s) = s[1]
      OBVIOUS
    <3> QED
      BY <3>1, <3>3, <3>4, Zenon
  <2> QED
    BY <1>1, <2>1, <2>2, Zenon DEF SInv, SilenceType
<1>6. SilenceSaved'
  BY <1>1, <1>5, Zenon DEF SInv, SilenceSaved, Task
<1>7. SilenceIsOwn'
  BY <1>1, <1>5, Zenon DEF SilenceIsOwn
<1> QED
  BY <1>4, <1>6, <1>7, Zenon DEF SInv

\* Every step keeps what is silenced with its coroutine.
LEMMA NextSInv == IInv /\ SInv /\ [Next]_vars => SInv'
<1> SUFFICES ASSUME IInv, SInv, [Next]_vars PROVE SInv'
  BY Zenon
<1>1. ASSUME NEW c \in Co, create(c) PROVE SInv'
  BY <1>1, CreateSInv, Zenon
<1>2. ASSUME NEW c \in Co, user_yield(c) \/ interrupt(c) \/ yield_m(c) PROVE SInv'
  BY <1>2, YieldSInv, Zenon DEF user_yield, interrupt, yield_m
<1>3. ASSUME NEW c \in Co, user_resume(c) \/ coro_interrupt_resume(c) \/ resume_m(c) PROVE SInv'
  <2>1. state[c] = "waiting" /\ ~ on_bailout /\ resume(c)
    BY <1>3, Zenon DEF user_resume, coro_interrupt_resume, resume_m, InIO, IInv, OnlyYielded
  <2> QED
    BY <2>1, ResumeSInv, Zenon
<1>4. ASSUME NEW c \in Co, close(c) PROVE SInv'
  BY <1>4, CloseSInv, Zenon
<1>5. ASSUME NEW c \in Co, bailout(c) PROVE SInv'
  <2>1. c \in Task /\ Main \in Task /\ c # Main
    BY CoroutineAssumption, Zenon DEF Task
  <2>2. SilenceType'
    BY <1>5, <2>1, Zenon DEF bailout, switch, Unsilenced, silence, SInv, SilenceType
  <2> QED
    BY <1>5, <2>2, Zenon DEF bailout, SInv, SilenceSaved, SilenceIsOwn
<1>6. ASSUME NEW c \in Co, defer(c) \/ return(c) \/ call_deferred(c) PROVE SInv'
  <2>1. Runs /\ UNCHANGED <<error_reporting, silence>>
    BY <1>6, Zenon DEF defer, return, call_deferred
  <2> QED
    BY <2>1, Zenon DEF Runs, silence, SInv, SilenceType, SilenceSaved, SilenceIsOwn
<1>7. CASE ob_start \/ ob_end
  <2>1. Runs /\ UNCHANGED <<error_reporting, silence>>
    BY <1>7, Zenon DEF ob_start, ob_end
  <2> QED
    BY <2>1, Zenon DEF Runs, silence, SInv, SilenceType, SilenceSaved, SilenceIsOwn
<1>8. CASE begin_silence
  BY <1>8, BeginSInv, Zenon
<1>9. CASE end_silence
  BY <1>9, EndSInv, Zenon
<1>10. CASE UNCHANGED vars
  BY <1>10, Zenon DEF vars, swaps, silence, SInv, SilenceType, SilenceSaved, SilenceIsOwn
<1> QED
  BY <1>1, <1>2, <1>3, <1>4, <1>5, <1>6, <1>7, <1>8, <1>9, <1>10, Zenon DEF Next

\* An @ in one coroutine does not silence another, as long as no @ is evaluated inside
\* another: save_vm_stack() and restore_vm_stack() keep error_reporting apart, whatever
\* coroutines are switched to inside of an @.
THEOREM SilenceFollows == Spec => []SilenceIsOwn
<1>1. SInv => SilenceIsOwn
  BY Zenon DEF SInv
<1>2. Init => IInv /\ SInv
  BY InitIInv, InitSInv, Zenon
<1>3. IInv /\ SInv /\ [Next]_vars => IInv' /\ SInv'
  BY NextIInv, NextSInv, Zenon
<1> QED
  BY <1>1, <1>2, <1>3, PTL DEF Spec

-----------------------------------------------------------------------------
\* The VM stack is the one of whoever runs, whatever coroutines create, resume, interrupt
\* and end one another, and each is destroyed by its own coroutine.
THEOREM StackFollows == Spec => []StackIsCurrents
<1>1. IInv => StackIsCurrents
  BY Zenon DEF IInv
<1> QED
  BY <1>1, InitIInv, NextIInv, PTL DEF Spec

\* Output never goes to the buffers of another coroutine.
THEOREM OutputFollows == Spec => []OutputIsOwn
<1>1. IInv => OutputIsOwn
  BY Zenon DEF IInv
<1> QED
  BY <1>1, InitIInv, NextIInv, PTL DEF Spec

\* The running coroutines form a chain down to the script.
THEOREM ChainHolds == Spec => []RunningChain
<1>1. IInv => RunningChain
  BY Zenon DEF IInv
<1> QED
  BY <1>1, InitIInv, NextIInv, PTL DEF Spec

\* Co::resume() and the interrupt handler resume only who is suspended there.
THEOREM ResumesYielded == Spec => []OnlyYielded
<1>1. IInv => OnlyYielded
  BY Zenon DEF IInv
<1> QED
  BY <1>1, InitIInv, NextIInv, PTL DEF Spec

\* The variables keep their types.
THEOREM Types == Spec => []TypeOK
<1>1. IInv => TypeOK
  BY Zenon DEF IInv
<1> QED
  BY <1>1, InitIInv, NextIInv, PTL DEF Spec

\* The switch as a whole, for any number of coroutines.
THEOREM SwitchIsSound == Spec => []SwitchSound
  BY Types, StackFollows, ChainHolds, ResumesYielded, PTL DEF SwitchSound

-----------------------------------------------------------------------------
\* waitSignal().

\* A coroutine that a signal would resume waits for that signal, co_signal_listener_num
\* counts the coroutines that wait, and the process blocks what the descriptor reads.
ListenerWaits == \A s \in Signo : listeners[s] # NoCatcher => sig[listeners[s]] = s
NumExact == listener_num = Cardinality(Waiting)
MaskBlocked ==
  /\ blocked = IF signal_fd THEN signalfd_mask ELSE {}
  /\ loop = "before" => ~ signal_fd

SigInv ==
  /\ SignalTypeOK /\ NotLeftBehind /\ SoleListener /\ CaughtWhenArmed
  /\ ListenerWaits /\ NumExact /\ MaskBlocked

\* At the start nobody waits for a signal.
LEMMA InitSig == SignalInit => SigInv
<1> SUFFICES ASSUME SignalInit PROVE SigInv
  BY Zenon
<1> USE WaitSignalAssumption DEF WaitSignalAssumption
<1>1. Waiting = {}
  BY Zenon DEF SignalInit, Waiting
<1>2. Cardinality({}) = 0 /\ Cardinality(Catchers) \in Nat
  BY FS_EmptySet, FS_CardinalityType, Zenon
<1>3. SignalTypeOK
  <2>1. 0 \in 0..MaxSignalWaits /\ 0 \in 0..Cardinality(Catchers)
    BY <1>2
  <2> QED
    BY <2>1, Zenon DEF SignalInit, SignalTypeOK
<1>4. NotLeftBehind /\ CaughtWhenArmed /\ NumExact /\ MaskBlocked
  BY <1>1, <1>2, Zenon DEF SignalInit, NotLeftBehind, CaughtWhenArmed, NumExact, MaskBlocked
<1>5. SoleListener
  BY Zenon DEF SignalInit, SoleListener
<1>6. ListenerWaits
  BY Zenon DEF SignalInit, ListenerWaits
<1> QED
  BY <1>3, <1>4, <1>5, <1>6, Zenon DEF SigInv

\* The count when a coroutine begins or ends to wait.
LEMMA CountWaiting ==
  ASSUME SignalTypeOK
  PROVE  /\ IsFiniteSet(Waiting) /\ Cardinality(Waiting) \in 0..Cardinality(Catchers)
         /\ Cardinality(Catchers) \in Nat
         /\ Cardinality(Waiting) = 0 => Waiting = {}
         /\ \A c \in Catchers : c \notin Waiting =>
              Cardinality(Waiting \cup {c}) = Cardinality(Waiting) + 1
              /\ Cardinality(Waiting) + 1 \in 0..Cardinality(Catchers)
         /\ \A c \in Waiting : Cardinality(Waiting \ {c}) = Cardinality(Waiting) - 1
              /\ Cardinality(Waiting) - 1 \in 0..Cardinality(Catchers)
<1> USE WaitSignalAssumption DEF WaitSignalAssumption
<1>1. Waiting \subseteq Catchers
  BY Zenon DEF Waiting
<1>2. IsFiniteSet(Waiting) /\ Cardinality(Waiting) <= Cardinality(Catchers)
  BY <1>1, FS_Subset, Zenon
<1>3. Cardinality(Waiting) \in Nat /\ Cardinality(Catchers) \in Nat
  BY <1>2, FS_CardinalityType, Zenon
<1>4. Cardinality(Waiting) = 0 => Waiting = {}
  BY <1>2, FS_EmptySet, Zenon
<1>5. ASSUME NEW c \in Catchers, c \notin Waiting
      PROVE  Cardinality(Waiting \cup {c}) = Cardinality(Waiting) + 1
             /\ Cardinality(Waiting) + 1 \in 0..Cardinality(Catchers)
  <2>1. Cardinality(Waiting \cup {c}) = Cardinality(Waiting) + 1
    BY <1>2, <1>5, FS_AddElement, Zenon
  <2>2. Waiting \cup {c} \subseteq Catchers
    BY <1>1, Zenon
  <2>3. Cardinality(Waiting \cup {c}) <= Cardinality(Catchers)
    BY <2>2, FS_Subset, Zenon
  <2> QED
    BY <2>1, <2>3, <1>3
<1>6. ASSUME NEW c \in Waiting
      PROVE  Cardinality(Waiting \ {c}) = Cardinality(Waiting) - 1
             /\ Cardinality(Waiting) - 1 \in 0..Cardinality(Catchers)
  <2>1. Cardinality(Waiting \ {c}) = Cardinality(Waiting) - 1
    BY <1>2, FS_RemoveElement, Zenon
  <2>2. Cardinality(Waiting) # 0
    BY <1>4, Zenon
  <2> QED
    BY <2>1, <2>2, <1>2, <1>3
<1> QED
  BY <1>2, <1>3, <1>4, <1>5, <1>6

\* waitSignal() registers its caller,
LEMMA WaitStep ==
  ASSUME SigInv, NEW c \in Catchers, NEW s \in Signo, NEW t \in BOOLEAN, wait_signal(c, s, t)
  PROVE  SigInv'
<1> USE WaitSignalAssumption DEF WaitSignalAssumption
<1>1. /\ SignalTypeOK /\ NotLeftBehind /\ SoleListener /\ CaughtWhenArmed /\ ListenerWaits
      /\ NumExact /\ MaskBlocked
  BY Zenon DEF SigInv
<1>2. /\ killer = NoCatcher /\ loop # "ended" /\ sig[c] = NoCatcher
      /\ signal_n[c] < MaxSignalWaits
      /\ listeners' = [listeners EXCEPT ![s] = c]
      /\ check_signalfd' = TRUE /\ signal_fd' = signal_fd /\ loop' = loop
      /\ signalfd_mask' = signalfd_mask \cup {s}
      /\ handler' = [handler EXCEPT ![s] = "listener"]
      /\ blocked' = IF signal_fd THEN signalfd_mask' ELSE blocked
      /\ listener_num' = listener_num + 1
      /\ sig' = [sig EXCEPT ![c] = s] /\ signal_timed' = [signal_timed EXCEPT ![c] = t]
      /\ signal_n' = [signal_n EXCEPT ![c] = @ + 1]
      /\ shared' = IF \E d \in Catchers : sig[d] = s THEN shared \cup {s} ELSE shared
      /\ UNCHANGED <<signal_pending, killer, late, lies>>
  BY Zenon DEF wait_signal, swSignalfd_set
<1>3. Waiting' = Waiting \cup {c} /\ c \notin Waiting
  BY <1>1, <1>2 DEF Waiting, SignalTypeOK
<1>4. /\ listener_num' = Cardinality(Waiting') /\ listener_num' \in 0..Cardinality(Catchers)
  BY <1>1, <1>2, <1>3, CountWaiting, Zenon DEF NumExact
<1>5. SignalTypeOK'
  BY <1>1, <1>2, <1>4 DEF SignalTypeOK
<1>6. NotLeftBehind' /\ CaughtWhenArmed' /\ NumExact' /\ MaskBlocked'
  BY <1>1, <1>2, <1>4, Zenon DEF NotLeftBehind, CaughtWhenArmed, NumExact, MaskBlocked
<1>7. ListenerWaits'
  BY <1>1, <1>2, Zenon DEF ListenerWaits, SignalTypeOK
<1>8. SoleListener'
  <2> SUFFICES ASSUME NEW x \in Signo \ shared'
      PROVE /\ x \notin lies'
            /\ handler'[x] = (IF listeners'[x] # NoCatcher THEN "listener" ELSE "none")
            /\ x \in signalfd_mask' <=> listeners'[x] # NoCatcher
            /\ \A d \in Catchers : listeners'[x] = d <=> sig'[d] = x
    BY Zenon DEF SoleListener
  <2>1. x \in Signo \ shared
    BY <1>2, Zenon
  <2>2. /\ x \notin lies
        /\ handler[x] = (IF listeners[x] # NoCatcher THEN "listener" ELSE "none")
        /\ x \in signalfd_mask <=> listeners[x] # NoCatcher
        /\ \A d \in Catchers : listeners[x] = d <=> sig[d] = x
    BY <2>1, <1>1, Zenon DEF SoleListener
  <2>3. CASE x = s
    <3>1. \A d \in Catchers : sig[d] # s
      BY <2>3, <1>2, Zenon
    <3> QED
      BY <2>2, <2>3, <3>1, <1>1, <1>2, Zenon DEF SignalTypeOK
  <2>4. CASE x # s
    BY <2>2, <2>4, <1>1, <1>2, Zenon DEF SignalTypeOK
  <2> QED
    BY <2>3, <2>4, Zenon
<1> QED
  BY <1>5, <1>6, <1>7, <1>8, Zenon DEF SigInv

\* and takes it away when it returns.
LEMMA ReturnStep ==
  ASSUME SigInv, NEW c \in Catchers, NEW came \in BOOLEAN, wait_signal_returns(c, came),
         sig[c] # NoCatcher,
         loop = "runs", killer = NoCatcher, signal_pending' \in SUBSET Signo,
         came => listeners[sig[c]] = c
  PROVE  SigInv'
<1> USE WaitSignalAssumption DEF WaitSignalAssumption
<1> DEFINE s == sig[c]
<1>1. /\ SignalTypeOK /\ NotLeftBehind /\ SoleListener /\ CaughtWhenArmed /\ ListenerWaits
      /\ NumExact /\ MaskBlocked
  BY Zenon DEF SigInv
<1>2. s \in Signo /\ s # NoCatcher
  BY <1>1, Zenon DEF SignalTypeOK
<1>3. /\ signalfd_mask' \in {signalfd_mask \ {s}, signalfd_mask \cup {s}}
      /\ handler' \in {[handler EXCEPT ![s] = "none"], [handler EXCEPT ![s] = "null"]}
      /\ handler[s] # "none" => signalfd_mask' = signalfd_mask \ {s}
                                /\ handler' = [handler EXCEPT ![s] = "none"]
      /\ blocked' = IF signal_fd THEN signalfd_mask' ELSE blocked
  BY Zenon DEF wait_signal_returns, swSignalfd_set
<1>4. /\ listener_num' = listener_num - 1
      /\ listeners' = [listeners EXCEPT ![s] = NoCatcher]
      /\ sig' = [sig EXCEPT ![c] = NoCatcher]
      /\ lies' = IF ~came /\ listeners[s] = NoCatcher THEN lies \cup {s} ELSE lies
      /\ (killer' = s /\ late' = TRUE) \/ UNCHANGED <<killer, late>>
      /\ UNCHANGED <<loop, check_signalfd, signal_fd, signal_timed, signal_n, shared>>
  BY Zenon DEF wait_signal_returns
<1>5. Waiting' = Waiting \ {c} /\ c \in Waiting
  BY <1>1, <1>2, <1>4, Zenon DEF Waiting, SignalTypeOK
<1>6. /\ listener_num' = Cardinality(Waiting') /\ listener_num' \in 0..Cardinality(Catchers)
  BY <1>1, <1>4, <1>5, CountWaiting, Zenon DEF NumExact
<1>7. SignalTypeOK'
  BY <1>1, <1>2, <1>3, <1>4, <1>6, Zenon DEF SignalTypeOK
<1>8. NotLeftBehind' /\ CaughtWhenArmed' /\ NumExact' /\ MaskBlocked'
  BY <1>1, <1>3, <1>4, <1>6, Zenon DEF NotLeftBehind, CaughtWhenArmed, NumExact, MaskBlocked
<1>9. ListenerWaits'
  BY <1>1, <1>2, <1>4, Zenon DEF ListenerWaits, SignalTypeOK
<1>10. SoleListener'
  <2> SUFFICES ASSUME NEW x \in Signo \ shared'
      PROVE /\ x \notin lies'
            /\ handler'[x] = (IF listeners'[x] # NoCatcher THEN "listener" ELSE "none")
            /\ x \in signalfd_mask' <=> listeners'[x] # NoCatcher
            /\ \A d \in Catchers : listeners'[x] = d <=> sig'[d] = x
    BY Zenon DEF SoleListener
  <2>2. /\ x \notin lies /\ x \in Signo
        /\ handler[x] = (IF listeners[x] # NoCatcher THEN "listener" ELSE "none")
        /\ x \in signalfd_mask <=> listeners[x] # NoCatcher
        /\ \A d \in Catchers : listeners[x] = d <=> sig[d] = x
    BY <1>1, <1>4, Zenon DEF SoleListener
  <2>3. CASE x = s
    <3>1. listeners[s] = c /\ handler[s] = "listener"
      BY <2>2, <2>3, Zenon
    <3>2. signalfd_mask' = signalfd_mask \ {s} /\ handler' = [handler EXCEPT ![s] = "none"]
      BY <3>1, <1>3, Zenon
    <3>3. listeners'[s] = NoCatcher /\ handler'[s] = "none" /\ lies' = lies
      BY <3>1, <3>2, <1>1, <1>2, <1>4, Zenon DEF SignalTypeOK
    <3>4. \A d \in Catchers : sig'[d] # s
      BY <2>2, <2>3, <3>1, <1>1, <1>2, <1>4, Zenon DEF SignalTypeOK
    <3> QED
      BY <2>2, <2>3, <3>2, <3>3, <3>4, Zenon
  <2>4. CASE x # s
    <3>1. handler'[x] = handler[x] /\ listeners'[x] = listeners[x] /\ x \notin lies'
          /\ (x \in signalfd_mask' <=> x \in signalfd_mask)
      BY <2>2, <2>4, <1>1, <1>2, <1>3, <1>4, Zenon DEF SignalTypeOK
    <3>2. \A d \in Catchers : sig'[d] = x <=> sig[d] = x
      BY <2>2, <2>4, <1>1, <1>2, <1>4, Zenon DEF SignalTypeOK
    <3> QED
      BY <2>2, <3>1, <3>2, Zenon
  <2> QED
    BY <2>3, <2>4, Zenon
<1> QED
  BY <1>7, <1>8, <1>9, <1>10, Zenon DEF SigInv

\* Every step keeps the invariant of the signals.
LEMMA NextSig == SigInv /\ [SignalNext]_signalVars => SigInv'
<1> SUFFICES ASSUME SigInv, [SignalNext]_signalVars PROVE SigInv'
  BY Zenon
<1> USE WaitSignalAssumption DEF WaitSignalAssumption
<1>0. /\ SignalTypeOK /\ NotLeftBehind /\ SoleListener /\ CaughtWhenArmed /\ ListenerWaits
      /\ NumExact /\ MaskBlocked
  BY Zenon DEF SigInv
<1>1. CASE event_wait
  <2>1. /\ killer = NoCatcher /\ loop = "before" /\ loop' = "runs"
        /\ signal_fd' = check_signalfd /\ Waiting' = Waiting
        /\ blocked' = IF check_signalfd THEN blocked \cup signalfd_mask ELSE blocked
        /\ UNCHANGED <<check_signalfd, signalfd_mask, handler, signal_calls, signal_pending,
                       killer, signalGhosts>>
        /\ UNCHANGED <<listeners, listener_num, sig, signal_timed, signal_n, late, shared,
                       lies>>
    BY <1>1, Zenon DEF event_wait, Waiting, signal_calls, signalGhosts
  <2>2. SignalTypeOK' /\ NumExact' /\ NotLeftBehind' /\ CaughtWhenArmed'
    BY <1>0, <2>1, Zenon DEF SignalTypeOK, NumExact, NotLeftBehind, CaughtWhenArmed
  <2>3. SoleListener' /\ ListenerWaits'
    <3>1. SoleListener'
      BY <1>0, <2>1, Zenon DEF SoleListener
    <3> QED
      BY <1>0, <2>1, <3>1, Zenon DEF ListenerWaits
  <2>4. MaskBlocked'
    BY <1>0, <2>1, Zenon DEF MaskBlocked, SignalTypeOK
  <2> QED
    BY <2>2, <2>3, <2>4, Zenon DEF SigInv
<1>2. CASE event_exit
  <2>1. /\ loop' = "ended" /\ Waiting' = Waiting /\ listener_num = 0
        /\ UNCHANGED <<fd, signal_calls, signal_pending, killer, signalGhosts>>
        /\ UNCHANGED <<check_signalfd, signal_fd, signalfd_mask, blocked, handler, listeners,
                       listener_num, sig, signal_timed, signal_n, late, shared, lies>>
    BY <1>2, Zenon DEF event_exit, Waiting, fd, signal_calls, signalGhosts
  <2>2. Waiting = {}
    BY <1>0, <2>1, CountWaiting, Zenon DEF NumExact
  <2>3. SignalTypeOK' /\ NumExact' /\ NotLeftBehind' /\ CaughtWhenArmed'
    BY <1>0, <2>1, <2>2, Zenon DEF SignalTypeOK, NumExact, NotLeftBehind, CaughtWhenArmed
  <2>4. SoleListener' /\ ListenerWaits' /\ MaskBlocked'
    <3>1. SoleListener'
      BY <1>0, <2>1, Zenon DEF SoleListener
    <3>2. ListenerWaits'
      BY <1>0, <2>1, Zenon DEF ListenerWaits
    <3>3. MaskBlocked'
      BY <1>0, <2>1, Zenon DEF MaskBlocked
    <3> QED
      BY <3>1, <3>2, <3>3, Zenon
  <2> QED
    BY <2>3, <2>4, Zenon DEF SigInv
<1>3. ASSUME NEW c \in Catchers, signal_timeout(c) PROVE SigInv'
  <2>1. /\ killer = NoCatcher /\ loop = "runs" /\ sig[c] # NoCatcher
        /\ signal_pending' \in SUBSET Signo
        /\ wait_signal_returns(c, FALSE)
    BY <1>0, <1>3, Zenon DEF signal_timeout, SignalTypeOK
  <2> QED
    BY <2>1, ReturnStep, Zenon
<1>4. ASSUME NEW c \in Catchers, NEW s \in Signo, NEW t \in BOOLEAN, wait_signal(c, s, t) PROVE SigInv'
  BY <1>4, WaitStep, Zenon
<1>5. ASSUME NEW s \in Signo, kill(s) PROVE SigInv'
  <2>1. /\ killer = NoCatcher /\ Waiting' = Waiting /\ loop' = loop
        /\ \E c \in Catchers : sig[c] = s
        /\ \/ signal_pending' = signal_pending \cup {s} /\ killer' = killer
           \/ s \notin blocked /\ killer' = s /\ signal_pending' = signal_pending
        /\ UNCHANGED <<check_signalfd, signal_fd, signalfd_mask, blocked, handler, listeners,
                       listener_num, sig, signal_timed, signal_n, late, shared, lies>>
    BY <1>5, Zenon DEF kill, Waiting, fd, signal_calls, signalGhosts
  <2>2. SignalTypeOK' /\ NumExact' /\ NotLeftBehind'
    BY <1>0, <2>1, Zenon DEF SignalTypeOK, NumExact, NotLeftBehind
  <2>3. SoleListener' /\ ListenerWaits' /\ MaskBlocked'
    <3>1. SoleListener'
      BY <1>0, <2>1, Zenon DEF SoleListener
    <3>2. ListenerWaits'
      BY <1>0, <2>1, Zenon DEF ListenerWaits
    <3>3. MaskBlocked'
      BY <1>0, <2>1, Zenon DEF MaskBlocked
    <3> QED
      BY <3>1, <3>2, <3>3, Zenon
  <2>4. s \notin shared /\ signal_fd => s \in blocked
    BY <1>0, <2>1 DEF SoleListener, MaskBlocked, SignalTypeOK
  <2>5. CaughtWhenArmed'
    BY <1>0, <2>1, <2>4, Zenon DEF CaughtWhenArmed
  <2> QED
    BY <2>2, <2>3, <2>5, Zenon DEF SigInv
<1>6. ASSUME NEW s \in Signo, onSignal(s) PROVE SigInv'
  <2>1. killer = NoCatcher /\ loop = "runs" /\ signal_pending' \in SUBSET Signo
    BY <1>0, <1>6, Zenon DEF onSignal, SignalTypeOK
  <2>2. CASE handler[s] = "listener" /\ listeners[s] # NoCatcher
    <3>1. listeners[s] \in Catchers /\ sig[listeners[s]] = s /\ s # NoCatcher
      BY <1>0, <2>2, Zenon DEF SignalTypeOK, ListenerWaits
    <3>2. wait_signal_returns(listeners[s], TRUE)
      BY <1>6, <2>2, Zenon DEF onSignal
    <3> QED
      BY <2>1, <3>1, <3>2, ReturnStep, Zenon
  <2>3. CASE ~ (handler[s] = "listener" /\ listeners[s] # NoCatcher)
    <3>1. /\ Waiting' = Waiting
          /\ UNCHANGED <<loop, killer, check_signalfd, signal_fd, signalfd_mask, blocked,
                         handler,
                  listeners, listener_num, sig, signal_timed, signal_n, late, shared, lies>>
      BY <1>6, <2>3, Zenon DEF onSignal, Waiting, fd, signal_calls, signalGhosts
    <3>2. SignalTypeOK' /\ NumExact' /\ NotLeftBehind' /\ CaughtWhenArmed'
      BY <1>0, <2>1, <3>1, Zenon DEF SignalTypeOK, NumExact, NotLeftBehind, CaughtWhenArmed
    <3>3. SoleListener' /\ ListenerWaits' /\ MaskBlocked'
      <4>1. SoleListener'
        BY <1>0, <3>1, Zenon DEF SoleListener
      <4>2. ListenerWaits'
        BY <1>0, <3>1, Zenon DEF ListenerWaits
      <4>3. MaskBlocked'
        BY <1>0, <3>1, Zenon DEF MaskBlocked
      <4> QED
        BY <4>1, <4>2, <4>3, Zenon
    <3> QED
      BY <3>2, <3>3, Zenon DEF SigInv
  <2> QED
    BY <2>2, <2>3, Zenon
<1>7. CASE UNCHANGED signalVars
  <2>1. /\ UNCHANGED <<loop, check_signalfd, signal_fd, signalfd_mask, blocked, handler,
                       listeners, listener_num, signal_pending, sig, signal_timed, signal_n,
                       killer, late, shared, lies>>
        /\ Waiting' = Waiting
    BY <1>7, Zenon DEF signalVars, fd, signal_calls, signalGhosts, Waiting
  <2>2. SignalTypeOK' /\ NumExact' /\ NotLeftBehind' /\ CaughtWhenArmed'
    BY <1>0, <2>1, Zenon DEF SignalTypeOK, NumExact, NotLeftBehind, CaughtWhenArmed
  <2>3. SoleListener'
    BY <1>0, <2>1, Zenon DEF SoleListener
  <2>4. ListenerWaits'
    BY <1>0, <2>1, Zenon DEF ListenerWaits
  <2>5. MaskBlocked'
    BY <1>0, <2>1, Zenon DEF MaskBlocked
  <2> QED
    BY <2>2, <2>3, <2>4, <2>5, Zenon DEF SigInv
<1> QED
  BY <1>1, <1>2, <1>3, <1>4, <1>5, <1>6, <1>7, Zenon DEF SignalNext

\* The loop outlives the coroutines that wait for a signal, and a signal that one coroutine
\* waits for resumes it (coroutine/system.cc, os/signal.cc).
THEOREM SignalsAreReported == SignalSpec => []SignalsReported
<1>1. SigInv => SignalsReported
  BY Zenon DEF SigInv, SignalsReported
<1> QED
  BY InitSig, NextSig, <1>1, PTL DEF SignalSpec
=============================================================================

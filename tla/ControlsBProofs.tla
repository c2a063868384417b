--------------------------- MODULE ControlsBProofs ---------------------------
(***************************************************************************)
(* Proofs about ControlsB: its type invariant, what a reported success     *)
(* says of the two work tasks, that a run reports one outcome, that gold   *)
(* stays behind Silver, and that the state row behaves as ProgressRow      *)
(* says.                                                                   *)
(***************************************************************************)
EXTENDS ControlsB, TLAPS

(* The shape of a run.  TypeOK is not inductive: a task that has begun has a *)
(* window, and only a work task gets to its writes.                          *)

ShapeInv ==
  /\ DOMAIN gold = Work
  /\ run = None => \A t \in Tasks : task[t] = "skipped"
  /\ asked # None => asked \in Days \X Days
  /\ \A t \in Tasks :
       /\ task[t] \in {"running", "writing", "succeeded"} => window[t] \in Days \X Days
       /\ task[t] = "writing" => t \in Work

\* Rows reported through apply_pipeline_state are rows of the table.
LEMMA AppliedTyped ==
  ASSUME NEW w \in Days \X Days, NEW end \in Int, NEW now \in Int,
         NEW current \in Optional(StateRow(Days \X Days, {None}))
  PROVE  /\ ApplySuccess(w, end, None, now) \in StateRow(Days \X Days, {None})
         /\ ApplyFailure(current, w, now) \in StateRow(Days \X Days, {None})
  <1>1. ApplySuccess(w, end, None, now) \in StateRow(Days \X Days, {None})
    BY DEF ApplySuccess, StateRow, Status, Optional
  <1>2. BlankRow(now) \in StateRow(Days \X Days, {None})
    BY DEF BlankRow, StateRow, Status, Optional
  <1>3. ApplyFailure(current, w, now) \in StateRow(Days \X Days, {None})
    BY <1>2 DEF ApplyFailure, StateRow, Status, Optional
  <1> QED BY <1>1, <1>3

\* The initial state is well typed and has no run.
LEMMA TypingInit == Init => TypeOK /\ ShapeInv
  <1> SUFFICES ASSUME Init PROVE TypeOK /\ ShapeInv
    OBVIOUS
  <1> USE ControlsBAssumption
  <1>1. task = [t \in Tasks |-> "skipped"]
    BY DEF Init, Idle
  <1>2. \A t \in Work : gold[t] \in [1..TableCount[t] -> SUBSET Days]
    BY DEF Init
  <1>3. TypeOK
    BY <1>1, <1>2 DEF Init, TypeOK, Optional
  <1>4. ShapeInv
    BY <1>1 DEF Init, ShapeInv
  <1> QED BY <1>3, <1>4

\* The shape of a run survives every step.
LEMMA ShapeNext == TypeOK /\ ShapeInv /\ [Next]_vars => ShapeInv'
  <1> SUFFICES ASSUME TypeOK, ShapeInv, [Next]_vars PROVE ShapeInv'
    OBVIOUS
  <1> USE ControlsBAssumption
  <1>t. task = [t \in Tasks |-> task[t]] /\ window = [t \in Tasks |-> window[t]]
    BY DEF TypeOK
  <1>u. ASSUME UNCHANGED << gold, run, asked, task, window >> PROVE ShapeInv'
    BY <1>u DEF ShapeInv
  \* A step of one task of the run that leaves its window alone.
  <1>p. ASSUME NEW t \in Tasks, NEW to, run # None, DOMAIN gold' = Work,
               task' = [task EXCEPT ![t] = to],
               UNCHANGED << run, asked, window >>,
               to \in {"running", "writing", "succeeded"} =>
                 task[t] \in {"running", "writing"},
               to = "writing" => t \in Work
        PROVE  ShapeInv'
    BY <1>p, <1>t DEF ShapeInv
  <1>r. ASSUME NEW t \in Tasks, task[t] # "skipped" PROVE run # None
    BY <1>r DEF ShapeInv
  <1>1. CASE Midnight
    BY <1>1, <1>u DEF Midnight, job
  <1>2. CASE SilverSucceeds
    BY <1>2, <1>u DEF SilverSucceeds, job
  <1>3. CASE StartRun
    <2>1. asked' # None => asked' \in Days \X Days
      BY <1>3 DEF StartRun
    <2>2. run' # None
      BY <1>3, NoneAssumption DEF StartRun
    <2>3. \A t \in Tasks : task'[t] \in {"pending", "blocked"}
      BY <1>3 DEF StartRun
    <2>4. DOMAIN gold' = Work
      BY <1>3 DEF StartRun, ShapeInv
    <2> QED BY <2>1, <2>2, <2>3, <2>4 DEF ShapeInv
  <1>4. CASE ReleaseFinalize
    <2>1. /\ run' = run /\ asked' = asked /\ window' = window /\ gold' = gold
          /\ run # None
      BY <1>4 DEF ReleaseFinalize
    <2>2. \A t \in Tasks : task'[t] = task[t] \/ task'[t] \in {"pending", "skipped"}
      BY <1>4, <1>t DEF ReleaseFinalize
    <2> QED BY <2>1, <2>2 DEF ShapeInv
  <1>5. CASE Clear
    <2>1. run' = None /\ asked' = None /\ gold' = gold
      BY <1>5 DEF Clear
    <2>2. \A t \in Tasks : task'[t] = "skipped"
      BY <1>5 DEF Clear, Idle
    <2> QED BY <2>1, <2>2 DEF ShapeInv
  <1>6. CASE FinalizeSuccess
    <2>1. run # None
      BY <1>6, <1>r DEF FinalizeSuccess, Tasks, Finalize
    <2> QED BY <1>6, <2>1, <1>p DEF FinalizeSuccess, Tasks, Finalize, ShapeInv
  <1>7. CASE FinalizeFailure
    <2>1. run # None
      BY <1>7, <1>r DEF FinalizeFailure, Tasks, Finalize
    <2> QED BY <1>7, <2>1, <1>p DEF FinalizeFailure, Tasks, Finalize, ShapeInv
  <1>8. ASSUME NEW t \in Tasks, TaskStep(t) PROVE ShapeInv'
    <2>1. CASE Begin(t)
      <3>1. /\ run' = run /\ run # None /\ asked' = asked /\ gold' = gold
            /\ task' = [task EXCEPT ![t] = "running"]
            /\ window' = [window EXCEPT ![t] = IF asked = None THEN Yesterday ELSE asked]
        BY <2>1 DEF Begin
      <3>2. Yesterday \in Days \X Days
        BY DEF Yesterday, TypeOK, Days
      <3>3. window'[t] \in Days \X Days
        BY <3>1, <3>2, <1>t DEF ShapeInv
      <3> QED BY <3>1, <3>3, <1>t DEF ShapeInv
    <2>2. CASE PassReadiness(t)
      BY <2>2, <1>p, <1>r DEF PassReadiness, ShapeInv
    <2>3. CASE Write(t)
      BY <2>3, <1>u DEF Write, ShapeInv
    <2>4. CASE Succeed(t)
      BY <2>4, <1>p, <1>r DEF Succeed, ShapeInv
    <2>5. CASE Raise(t)
      BY <2>5, <1>p, <1>r DEF Raise, ShapeInv
    <2> QED BY <1>8, <2>1, <2>2, <2>3, <2>4, <2>5 DEF TaskStep
  <1>9. CASE UNCHANGED vars
    BY <1>9, <1>u DEF vars, job
  <1> QED BY <1>1, <1>2, <1>3, <1>4, <1>5, <1>6, <1>7, <1>8, <1>9
          DEF Next, JobStep, EndRun, Timeout, Finished

\* Every step of the clock, of Silver, of the job and of its tasks keeps the
\* types.
LEMMA TypingNext == TypeOK /\ ShapeInv /\ [Next]_vars => TypeOK'
  <1> SUFFICES ASSUME TypeOK, ShapeInv, [Next]_vars PROVE TypeOK'
    OBVIOUS
  <1> USE ControlsBAssumption
  <1> DEFINE states == {"pending", "blocked", "running", "writing",
                        "succeeded", "failed", "skipped"}
  <1>d. /\ today \in Int
        /\ \A t \in Tasks : window[t] \in Days \X Days =>
             window[t][1] \in Int /\ window[t][2] \in Int
    BY DEF TypeOK, Days
  \* A step of the job or of one of its tasks that reports nothing.
  <1>p. ASSUME task' \in [Tasks -> states], tries' \in [Tasks -> 0..MaxRetries],
               UNCHANGED << today, silver_state, pipeline_state, gold, run, started,
                            asked, window, written, history >>
        PROVE  TypeOK'
    BY <1>p DEF history, TypeOK
  \* A finalize task writes the row.
  <1>f. ASSUME NEW t \in Finalize, task' = [task EXCEPT ![t] = "succeeded"],
               pipeline_state' \in StateRow(Days \X Days, {None}),
               NEW s \in {"success", "failure"}, run # None,
               reported' = reported \cup {[run |-> run, status |-> s]},
               UNCHANGED << today, silver_state, gold, run, started, asked, tries,
                            window, written, silver_high, finished >>
        PROVE  TypeOK'
    <2>1. task' \in [Tasks -> states]
      BY <1>f DEF TypeOK
    <2>2. pipeline_state' \in Optional(StateRow(Days \X Days, {None}))
      BY <1>f DEF Optional
    <2>3. reported' \subseteq [run : Runs, status : {"success", "failure"}]
      BY <1>f DEF TypeOK, Optional
    <2> QED BY <1>f, <2>1, <2>2, <2>3 DEF TypeOK
  <1>r. ASSUME NEW t \in Tasks, task[t] # "skipped" PROVE run # None
    BY <1>r DEF ShapeInv
  <1>1. CASE Midnight
    <2>1. today' \in FirstDay..Horizon
      BY <1>1 DEF Midnight, TypeOK
    <2> QED BY <1>1, <2>1 DEF Midnight, job, history, TypeOK
  <1>2. CASE SilverSucceeds
    <2>1. PICK end \in Ends :
            /\ silver_state' = ApplySuccess(None, end, None, FirstDay)
            /\ silver_high' = IF silver_high = None \/ silver_high < end
                              THEN end ELSE silver_high
      BY <1>2 DEF SilverSucceeds
    <2>2. silver_state' \in Optional(StateRow({None}, {None}))
      BY <2>1, <1>d DEF Ends, ApplySuccess, StateRow, Status, Optional
    <2>3. silver_high' \in Optional(Int)
      BY <2>1, <1>d DEF Ends, Optional, TypeOK
    <2>4. UNCHANGED << today, pipeline_state, gold, job, finished, reported >>
      BY <1>2 DEF SilverSucceeds
    <2> QED BY <2>2, <2>3, <2>4 DEF job, TypeOK
  <1>3. CASE StartRun
    <2>1. run' \in Optional(Runs) /\ started' \subseteq Runs
      BY <1>3 DEF StartRun, TypeOK, Optional
    <2>2. asked' \in Optional(Days \X Days)
      BY <1>3 DEF StartRun, Optional
    <2>3. task' \in [Tasks -> states]
      BY <1>3 DEF StartRun
    <2>4. UNCHANGED << today, silver_state, pipeline_state, gold, tries, window,
                       written, history >>
      BY <1>3 DEF StartRun
    <2> QED BY <2>1, <2>2, <2>3, <2>4 DEF history, TypeOK
  <1>4. CASE ReleaseFinalize
    <2>1. task' \in [Tasks -> states]
      BY <1>4 DEF ReleaseFinalize, TypeOK
    <2> QED BY <1>4, <2>1, <1>p DEF ReleaseFinalize, TypeOK
  <1>5. CASE Clear
    <2>1. /\ task' \in [Tasks -> states] /\ tries' \in [Tasks -> 0..MaxRetries]
          /\ window' \in [Tasks -> Optional(Days \X Days)]
          /\ written' \in [Tasks -> Nat]
          /\ run' \in Optional(Runs) /\ asked' \in Optional(Days \X Days)
      BY <1>5 DEF Clear, Idle, Optional
    <2>2. UNCHANGED << today, silver_state, pipeline_state, gold, started, history >>
      BY <1>5 DEF Clear
    <2> QED BY <2>1, <2>2 DEF history, TypeOK
  <1>6. CASE FinalizeSuccess
    <2> DEFINE f == "finalize_success"
    <2>1. f \in Finalize /\ f \in Tasks /\ task[f] = "running"
      BY <1>6 DEF FinalizeSuccess, Tasks, Finalize
    <2>2. window[f] \in Days \X Days /\ window[f][2] + 1 \in Int /\ run # None
      BY <2>1, <1>d, <1>r DEF ShapeInv
    <2>3. pipeline_state' = ApplySuccess(window[f], window[f][2] + 1, None, today)
      BY <1>6 DEF FinalizeSuccess, RunIdOf, ProcessedEndOf
    <2>4. None \in Optional(StateRow(Days \X Days, {None}))
      BY DEF Optional
    <2>5. pipeline_state' \in StateRow(Days \X Days, {None})
      BY <2>2, <2>3, <2>4, <1>d, AppliedTyped
    <2> QED BY <1>6, <2>1, <2>2, <2>5, <1>f DEF FinalizeSuccess
  <1>7. CASE FinalizeFailure
    <2> DEFINE f == "finalize_failure"
    <2>1. f \in Finalize /\ f \in Tasks /\ task[f] = "running"
      BY <1>7 DEF FinalizeFailure, Tasks, Finalize
    <2>2. window[f] \in Days \X Days /\ run # None
      BY <2>1, <1>r DEF ShapeInv
    <2>3. pipeline_state' = ApplyFailure(pipeline_state, window[f], today)
      BY <1>7 DEF FinalizeFailure, RunIdOf
    <2>4. pipeline_state \in Optional(StateRow(Days \X Days, {None}))
      BY DEF TypeOK
    <2>5. pipeline_state' \in StateRow(Days \X Days, {None})
      BY <2>2, <2>3, <2>4, <1>d, AppliedTyped
    <2> QED BY <1>7, <2>1, <2>2, <2>5, <1>f DEF FinalizeFailure
  <1>8. ASSUME NEW t \in Tasks, TaskStep(t) PROVE TypeOK'
    <2>1. CASE Begin(t)
      <3>1. task' \in [Tasks -> states]
        BY <2>1 DEF Begin, TypeOK
      <3>2. Yesterday \in Days \X Days
        BY DEF Yesterday, Days, TypeOK
      <3>3. window' \in [Tasks -> Optional(Days \X Days)]
        BY <2>1, <3>2 DEF Begin, TypeOK, Optional
      <3>4. written' \in [Tasks -> Nat]
        BY <2>1 DEF Begin, TypeOK
      <3>5. UNCHANGED << today, silver_state, pipeline_state, gold, run, started, asked,
                         tries, history >>
        BY <2>1 DEF Begin
      <3> QED BY <3>1, <3>3, <3>4, <3>5 DEF history, TypeOK
    <2>2. CASE PassReadiness(t)
      <3>1. task' \in [Tasks -> states]
        BY <2>2 DEF PassReadiness, TypeOK
      <3> QED BY <2>2, <3>1, <1>p DEF PassReadiness, TypeOK
    <2>3. CASE Write(t)
      <3> DEFINE i == written[t] + 1
                 days == window[t][1]..window[t][2]
      <3>1. t \in Work /\ window[t] \in Days \X Days
        BY <2>3 DEF Write, ShapeInv
      <3>2. i \in 1..TableCount[t]
        BY <2>3, <3>1 DEF Write, TypeOK
      <3>3. days \subseteq Days
        BY <3>1 DEF Days
      <3>4. gold' = [gold EXCEPT ![t][i] = gold[t][i] \cup days]
        BY <2>3 DEF Write
      <3>5. DOMAIN gold = Work
        BY DEF ShapeInv
      <3>6. gold'[t] = [gold[t] EXCEPT ![i] = gold[t][i] \cup days]
        BY <3>1, <3>4, <3>5
      <3>7. gold'[t] \in [1..TableCount[t] -> SUBSET Days]
        BY <3>1, <3>2, <3>3, <3>6 DEF TypeOK
      <3>8. \A u \in Work : u # t => gold'[u] = gold[u]
        BY <3>4, <3>5
      <3>9. \A u \in Work : gold'[u] \in [1..TableCount[u] -> SUBSET Days]
        BY <3>7, <3>8 DEF TypeOK
      <3>10. written' \in [Tasks -> Nat]
        BY <2>3 DEF Write, TypeOK
      <3>11. UNCHANGED << today, silver_state, pipeline_state, run, started, asked, task,
                          tries, window, history >>
        BY <2>3 DEF Write
      <3> QED BY <3>9, <3>10, <3>11 DEF history, TypeOK
    <2>4. CASE Succeed(t)
      <3>1. task' \in [Tasks -> states]
        BY <2>4 DEF Succeed, TypeOK
      <3>2. t \in Work /\ window[t] \in Days \X Days /\ run # None
        BY <2>4, <1>r DEF Succeed, ShapeInv
      <3>3. finished' \subseteq [run : Runs, task : Work, window : Days \X Days]
        BY <2>4, <3>2 DEF Succeed, TypeOK, Optional
      <3>4. UNCHANGED << today, silver_state, pipeline_state, gold, run, started, asked,
                         tries, window, silver_high, reported >>
        BY <2>4 DEF Succeed
      <3>5. written' \in [Tasks -> Nat]
        BY <2>4 DEF Succeed, TypeOK
      <3> QED BY <3>1, <3>3, <3>4, <3>5 DEF TypeOK
    <2>5. CASE Raise(t)
      <3>1. task' \in [Tasks -> states]
        BY <2>5 DEF Raise, TypeOK
      <3>2. tries \in [Tasks -> 0..MaxRetries] /\ MaxRetries \in Nat
        BY DEF TypeOK
      <3>w. written' \in [Tasks -> Nat]
        BY <2>5 DEF Raise, TypeOK
      <3>u. UNCHANGED << today, silver_state, pipeline_state, gold, run, started, asked,
                         window, history >>
        BY <2>5 DEF Raise
      <3>3. CASE tries[t] < MaxRetries
        <4>1. tries[t] + 1 \in 0..MaxRetries
          BY <3>2, <3>3
        <4>2. tries' = [tries EXCEPT ![t] = tries[t] + 1]
          BY <2>5, <3>3 DEF Raise
        <4>3. tries' \in [Tasks -> 0..MaxRetries]
          BY <3>2, <4>1, <4>2
        <4> QED BY <3>1, <3>w, <3>u, <4>3 DEF history, TypeOK
      <3>4. CASE ~(tries[t] < MaxRetries)
        <4>1. tries' = tries
          BY <2>5, <3>4 DEF Raise
        <4> QED BY <3>1, <3>2, <3>w, <3>u, <4>1 DEF history, TypeOK
      <3> QED BY <3>3, <3>4
    <2> QED BY <1>8, <2>1, <2>2, <2>3, <2>4, <2>5 DEF TaskStep
  <1>9. CASE UNCHANGED vars
    BY <1>9 DEF vars, job, history, TypeOK
  <1> QED BY <1>1, <1>2, <1>3, <1>4, <1>5, <1>6, <1>7, <1>8, <1>9
          DEF Next, JobStep, EndRun, Timeout, Finished

\* The types and the shape of a run hold in every state.
LEMMA Shape == Spec => [](TypeOK /\ ShapeInv)
  BY TypingInit, TypingNext, ShapeNext, PTL DEF Spec

\* Every variable keeps its type, for any number of runs, tables and retries.
THEOREM Typing == Spec => []TypeOK
  BY Shape, PTL

-----------------------------------------------------------------------------
(* The outcome of a run.  Before the finalize tasks are released nothing is *)
(* reported for the run; after it one of them is skipped, and only the one  *)
(* that was released can have succeeded.                                    *)

Released(t) == task[t] \notin {"blocked", "skipped"}

OutcomeInv ==
  /\ OneOutcomePerRun
  /\ run # None => run \in started
  /\ \A r \in reported : r.run \in started
  /\ run # None /\ Released("finalize_success") =>
       /\ \A t \in Work : task[t] = "succeeded"
       /\ task["finalize_failure"] = "skipped"
  /\ run # None /\ Released("finalize_failure") => task["finalize_success"] = "skipped"
  /\ \A r \in reported : run # None /\ r.run = run =>
       IF r.status = "success" THEN task["finalize_success"] = "succeeded"
                               ELSE task["finalize_failure"] = "succeeded"

\* Before its first step no run has reported anything.
LEMMA OutcomeInit == Init => OutcomeInv
  BY DEF Init, OutcomeInv, OneOutcomePerRun

\* Every step keeps the outcome of the current run in agreement with its
\* finalize tasks: they are released once, and only one of them.
LEMMA OutcomeNext == TypeOK /\ ShapeInv /\ OutcomeInv /\ [Next]_vars => OutcomeInv'
  <1> SUFFICES ASSUME TypeOK, ShapeInv, OutcomeInv, [Next]_vars PROVE OutcomeInv'
    OBVIOUS
  <1> USE DEF Tasks, Work, Finalize
  <1>t. /\ task = [t \in Tasks |-> task[t]]
        /\ \A r \in reported : r.status \in {"success", "failure"}
        /\ \A r, s \in reported : r.run = s.run /\ r.status = s.status => r = s
    BY DEF TypeOK
  <1>u. ASSUME UNCHANGED << run, started, task, reported >> PROVE OutcomeInv'
    BY <1>u DEF OutcomeInv, OneOutcomePerRun, Released
  \* A task that has not ended goes on, without a report.
  <1>p. ASSUME NEW t \in Tasks, NEW to, Released(t), ~Ended(t),
               to \notin {"blocked", "skipped"}, task' = [task EXCEPT ![t] = to],
               UNCHANGED << run, started, reported >>
        PROVE  OutcomeInv'
    <2>1. \A u \in Tasks : Released(u)' <=> Released(u)
      BY <1>p, <1>t DEF Released
    <2>2. \A u \in Tasks : Ended(u) => task'[u] = task[u]
      BY <1>p, <1>t
    <2> QED BY <1>p, <2>1, <2>2 DEF OutcomeInv, OneOutcomePerRun, Ended
  \* The finalize task that was released reports.
  <1>f. ASSUME NEW f \in Finalize, task[f] = "running", NEW s,
               s = IF f = "finalize_success" THEN "success" ELSE "failure",
               task' = [task EXCEPT ![f] = "succeeded"],
               reported' = reported \cup {[run |-> run, status |-> s]},
               UNCHANGED << run, started >>
        PROVE  OutcomeInv'
    <2>1. run # None /\ Released(f)
      BY <1>f DEF ShapeInv, Released
    <2>2. \A u \in Tasks : Released(u)' <=> Released(u)
      BY <1>f, <1>t DEF Released
    <2>3. \A r \in reported : r.run # run
      BY <1>f, <2>1, <1>t DEF OutcomeInv, Released
    <2>4. OneOutcomePerRun'
      BY <1>f, <2>3 DEF OutcomeInv, OneOutcomePerRun
    <2>5. task'[f] = "succeeded" /\ \A u \in Tasks : u # f => task'[u] = task[u]
      BY <1>f, <1>t
    <2>6. \A r \in reported' : r.run = run =>
            IF r.status = "success" THEN task'["finalize_success"] = "succeeded"
                                    ELSE task'["finalize_failure"] = "succeeded"
      BY <1>f, <2>3, <2>5
    <2> QED BY <1>f, <2>1, <2>2, <2>4, <2>5, <2>6 DEF OutcomeInv
  <1>1. CASE Midnight
    BY <1>1, <1>u DEF Midnight, job, history
  <1>2. CASE SilverSucceeds
    BY <1>2, <1>u DEF SilverSucceeds, job
  <1>3. CASE StartRun
    <2>1. run' \notin started /\ run' \in started' /\ started \subseteq started'
      BY <1>3 DEF StartRun
    <2>2. \A r \in reported : r.run # run'
      BY <2>1 DEF OutcomeInv
    <2>3. ~Released("finalize_success")' /\ ~Released("finalize_failure")'
      BY <1>3 DEF StartRun, Released
    <2>4. reported' = reported
      BY <1>3 DEF StartRun, history
    <2> QED BY <2>1, <2>2, <2>3, <2>4 DEF OutcomeInv, OneOutcomePerRun
  <1>4. CASE ReleaseFinalize
    <2>1. UNCHANGED << run, started, reported >>
      BY <1>4 DEF ReleaseFinalize, history
    <2>2. run # None /\ \A f \in Finalize : task[f] = "blocked"
      BY <1>4 DEF ReleaseFinalize
    <2>3. \A r \in reported : r.run # run
      BY <2>2, <1>t DEF OutcomeInv
    <2>4. \A t \in Work : task'[t] = task[t]
      BY <1>4, <1>t DEF ReleaseFinalize
    <2>5. /\ task'["finalize_success"] =
                IF \A t \in Work : task[t] = "succeeded" THEN "pending" ELSE "skipped"
          /\ task'["finalize_failure"] =
                IF \E t \in Work : task[t] = "failed" THEN "pending" ELSE "skipped"
      BY <1>4, <1>t DEF ReleaseFinalize
    <2>6. Released("finalize_success")' => \A t \in Work : task[t] = "succeeded"
      BY <2>5 DEF Released
    <2>7. Released("finalize_failure")' => \E t \in Work : task[t] = "failed"
      BY <2>5 DEF Released
    <2> QED BY <2>1, <2>2, <2>3, <2>4, <2>5, <2>6, <2>7 DEF OutcomeInv, OneOutcomePerRun
  <1>5. CASE Clear
    <2>1. run' = None /\ UNCHANGED << started, reported >>
      BY <1>5 DEF Clear, history
    <2> QED BY <2>1 DEF OutcomeInv, OneOutcomePerRun
  <1>6. CASE FinalizeSuccess
    BY <1>6, <1>f DEF FinalizeSuccess
  <1>7. CASE FinalizeFailure
    BY <1>7, <1>f DEF FinalizeFailure
  <1>8. ASSUME NEW t \in Tasks, TaskStep(t) PROVE OutcomeInv'
    <2>1. CASE Begin(t)
      BY <2>1, <1>p DEF Begin, Released, Ended, history
    <2>2. CASE PassReadiness(t)
      BY <2>2, <1>p DEF PassReadiness, Released, Ended, history
    <2>3. CASE Write(t)
      BY <2>3, <1>u DEF Write, history
    <2>4. CASE Succeed(t)
      BY <2>4, <1>p DEF Succeed, Released, Ended
    <2>5. CASE Raise(t)
      BY <2>5, <1>p DEF Raise, Released, Ended, history
    <2> QED BY <1>8, <2>1, <2>2, <2>3, <2>4, <2>5 DEF TaskStep
  <1>9. CASE UNCHANGED vars
    BY <1>9, <1>u DEF vars, job, history
  <1> QED BY <1>1, <1>2, <1>3, <1>4, <1>5, <1>6, <1>7, <1>8, <1>9
          DEF Next, JobStep, EndRun, Timeout, Finished

\* No run ever reports both outcomes, whatever is retried or cancelled.
THEOREM OneOutcome == Spec => []OneOutcomePerRun
  <1>1. OutcomeInv => OneOutcomePerRun
    BY DEF OutcomeInv
  <1> QED BY <1>1, Shape, OutcomeInit, OutcomeNext, PTL DEF Spec

-----------------------------------------------------------------------------
(* What a task has written.  Gold only grows, so that the tables a task has *)
(* written hold the days of its window as long as it has that window.       *)

HasDays(g, t, n, w) == \A i \in 1..n : w[1]..w[2] \subseteq g[t][i]

WrittenInv ==
  /\ \A f \in finished : HasDays(gold, f.task, TableCount[f.task], f.window)
  /\ \A t \in Work :
       /\ task[t] = "running" => written[t] = 0
       /\ task[t] = "writing" =>
            written[t] <= TableCount[t] /\ HasDays(gold, t, written[t], window[t])
       /\ task[t] = "succeeded" => \E f \in finished : f.run = run /\ f.task = t
  /\ SuccessAfterBoth

\* Before its first step nothing is written and nothing has succeeded.
LEMMA WrittenInit == Init => WrittenInv
  BY DEF Init, Idle, WrittenInv, SuccessAfterBoth, Work, Tasks

\* No step takes a day out of a gold table, and only the write of a task
\* changes its tables.
LEMMA GoldGrows ==
  ASSUME TypeOK, ShapeInv, [Next]_vars
  PROVE  \/ gold' = gold
         \/ \E t \in Work : /\ Write(t) /\ written[t] + 1 \in 1..TableCount[t]
                            /\ \A u \in Work : \A i \in 1..TableCount[u] :
                                 gold'[u][i] = IF u = t /\ i = written[t] + 1
                                               THEN gold[u][i] \cup window[t][1]..window[t][2]
                                               ELSE gold[u][i]
  <1>1. ASSUME NEW t \in Tasks, Write(t)
        PROVE  /\ t \in Work /\ written[t] + 1 \in 1..TableCount[t]
               /\ \A u \in Work : \A i \in 1..TableCount[u] :
                    gold'[u][i] = IF u = t /\ i = written[t] + 1
                                  THEN gold[u][i] \cup window[t][1]..window[t][2]
                                  ELSE gold[u][i]
    <2> DEFINE n == written[t] + 1
               days == window[t][1]..window[t][2]
    <2>1. t \in Work /\ DOMAIN gold = Work
      BY <1>1 DEF Write, ShapeInv
    <2>2. n \in 1..TableCount[t]
      BY <1>1, <2>1, ControlsBAssumption DEF Write, TypeOK
    <2>3. gold' = [gold EXCEPT ![t][n] = gold[t][n] \cup days]
      BY <1>1 DEF Write
    <2>4. gold'[t] = [gold[t] EXCEPT ![n] = gold[t][n] \cup days]
      BY <2>1, <2>3
    <2>5. \A u \in Work : u # t => gold'[u] = gold[u]
      BY <2>1, <2>3
    <2>6. DOMAIN gold[t] = 1..TableCount[t]
      BY <2>1 DEF TypeOK
    <2> QED BY <2>1, <2>2, <2>4, <2>5, <2>6
  <1>2. (\E t \in Tasks : Write(t)) \/ gold' = gold
    BY DEF Next, Midnight, SilverSucceeds, StartRun, JobStep, ReleaseFinalize, EndRun,
           Clear, FinalizeSuccess, FinalizeFailure, Timeout, TaskStep, Begin,
           PassReadiness, Succeed, Raise, Finished, vars
  <1> QED BY <1>1, <1>2

\* Every step keeps what the tasks of the run have written in gold: a window
\* whose tables are written stays written.
LEMMA WrittenNext ==
  TypeOK /\ ShapeInv /\ OutcomeInv /\ WrittenInv /\ [Next]_vars => WrittenInv'
  <1> SUFFICES ASSUME TypeOK, ShapeInv, OutcomeInv, WrittenInv, [Next]_vars
               PROVE  WrittenInv'
    OBVIOUS
  <1>t. /\ task = [t \in Tasks |-> task[t]]
        /\ \A f \in finished : f.task \in Work
        /\ Work \subseteq Tasks
    BY DEF TypeOK, Tasks
  <1>c. \A t \in Work : TableCount[t] \in Nat /\ TableCount[t] \in 0..TableCount[t]
    BY ControlsBAssumption
  <1>h. ASSUME NEW t \in Work, NEW i \in 1..TableCount[t] PROVE gold[t][i] \subseteq gold'[t][i]
    <2>1. CASE gold' = gold
      BY <2>1
    <2>2. ASSUME NEW u \in Work,
                 gold'[t][i] = IF t = u /\ i = written[u] + 1
                               THEN gold[t][i] \cup window[u][1]..window[u][2]
                               ELSE gold[t][i]
          PROVE  gold[t][i] \subseteq gold'[t][i]
      BY <2>2
    <2> QED BY <2>1, <2>2, GoldGrows
  <1>g. ASSUME NEW t \in Work, NEW n \in 0..TableCount[t], NEW w, HasDays(gold, t, n, w)
        PROVE  HasDays(gold', t, n, w)
    <2>1. \A i \in 1..n : i \in 1..TableCount[t]
      BY <1>c
    <2> QED BY <1>g, <1>h, <2>1 DEF HasDays
  \* What has succeeded stays.
  <1>f. /\ \A f \in finished : HasDays(gold', f.task, TableCount[f.task], f.window)
        /\ finished \subseteq finished' /\ reported' = reported => SuccessAfterBoth'
    <2>1. \A f \in finished : HasDays(gold', f.task, TableCount[f.task], f.window)
      <3> SUFFICES ASSUME NEW f \in finished
                   PROVE  HasDays(gold', f.task, TableCount[f.task], f.window)
        OBVIOUS
      <3>1. f.task \in Work /\ HasDays(gold, f.task, TableCount[f.task], f.window)
        BY <1>t DEF WrittenInv
      <3> QED BY <3>1, <1>g, <1>c
    <2>2. ASSUME finished \subseteq finished', reported' = reported
          PROVE  SuccessAfterBoth'
      <3> SUFFICES ASSUME NEW r \in reported, r.status = "success", NEW t \in Work
                   PROVE  \E f \in finished' :
                            /\ f.run = r.run /\ f.task = t
                            /\ HasDays(gold', t, TableCount[t], f.window)
        BY <2>2 DEF SuccessAfterBoth, HasDays
      <3>1. PICK f \in finished : f.run = r.run /\ f.task = t
        BY DEF WrittenInv, SuccessAfterBoth
      <3> QED BY <2>1, <2>2, <3>1
    <2> QED BY <2>1, <2>2
  \* A step that writes no table, ends no task and reports nothing.
  <1>u. ASSUME UNCHANGED << finished, reported >>,
               \A t \in Work :
                 /\ task'[t] \in {"running", "writing"} =>
                      /\ task[t] = task'[t]
                      /\ UNCHANGED << written[t], window[t] >>
                 /\ task'[t] = "succeeded" => task[t] = "succeeded" /\ run' = run,
               gold' = gold
        PROVE  WrittenInv'
    BY <1>u, <1>f DEF WrittenInv, HasDays
  <1>1. CASE Midnight
    BY <1>1, <1>u DEF Midnight, job, history
  <1>2. CASE SilverSucceeds
    BY <1>2, <1>u DEF SilverSucceeds, job
  <1>3. CASE StartRun
    <2>1. \A t \in Work : task'[t] = "pending"
      BY <1>3, <1>t DEF StartRun
    <2> QED BY <1>3, <2>1, <1>u DEF StartRun, history
  <1>4. CASE ReleaseFinalize
    <2>1. \A t \in Work : task'[t] = task[t]
      BY <1>4, <1>t DEF ReleaseFinalize, Work
    <2> QED BY <1>4, <2>1, <1>u DEF ReleaseFinalize, history
  <1>5. CASE Clear
    <2>1. \A t \in Work : task'[t] = "skipped"
      BY <1>5, <1>t DEF Clear, Idle
    <2> QED BY <1>5, <2>1, <1>u DEF Clear, history
  <1>6. CASE FinalizeSuccess
    <2>1. /\ run # None /\ Released("finalize_success")
      BY <1>6 DEF FinalizeSuccess, ShapeInv, Released, Tasks, Finalize
    <2>2. \A t \in Work : task[t] = "succeeded"
      BY <2>1 DEF OutcomeInv
    <2>3. \A t \in Work : \E f \in finished : f.run = run /\ f.task = t
      BY <2>2 DEF WrittenInv
    <2>4. UNCHANGED << gold, finished, run, written, window >>
      BY <1>6 DEF FinalizeSuccess
    <2>5. \A t \in Work : task'[t] = task[t]
      BY <1>6, <1>t DEF FinalizeSuccess, Work
    <2>6. SuccessAfterBoth'
      <3> SUFFICES ASSUME NEW r \in reported', r.status = "success", NEW t \in Work
                   PROVE  \E f \in finished :
                            /\ f.run = r.run /\ f.task = t
                            /\ HasDays(gold, t, TableCount[t], f.window)
        BY <2>4 DEF SuccessAfterBoth, HasDays
      <3>1. r \in reported \/ r.run = run
        BY <1>6 DEF FinalizeSuccess
      <3>2. PICK f \in finished : f.run = r.run /\ f.task = t
        BY <2>3, <3>1 DEF WrittenInv, SuccessAfterBoth
      <3> QED BY <3>2 DEF WrittenInv
    <2> QED BY <2>4, <2>5, <2>6, <1>f DEF WrittenInv, HasDays
  <1>7. CASE FinalizeFailure
    <2>1. UNCHANGED << gold, finished, run, written, window >>
      BY <1>7 DEF FinalizeFailure
    <2>2. \A t \in Work : task'[t] = task[t]
      BY <1>7, <1>t DEF FinalizeFailure, Work
    <2>3. \A r \in reported' : r.status = "success" => r \in reported
      BY <1>7 DEF FinalizeFailure
    <2>4. SuccessAfterBoth'
      BY <2>1, <2>3 DEF WrittenInv, SuccessAfterBoth
    <2> QED BY <2>1, <2>2, <2>4, <1>f DEF WrittenInv, HasDays
  <1>8. ASSUME NEW t \in Tasks, TaskStep(t) PROVE WrittenInv'
    <2>1. CASE Begin(t)
      <3>1. /\ task'[t] = "running" /\ written'[t] = 0
            /\ \A u \in Tasks : u # t =>
                 /\ task'[u] = task[u] /\ written'[u] = written[u]
                 /\ window'[u] = window[u]
            /\ UNCHANGED << gold, run, finished, reported >>
        BY <2>1, <1>t DEF Begin, history, TypeOK
      <3> QED BY <3>1, <1>t, <1>f DEF WrittenInv, HasDays
    <2>2. CASE PassReadiness(t)
      <3>1. /\ t \in Work /\ task[t] = "running" /\ task'[t] = "writing"
            /\ \A u \in Tasks : u # t => task'[u] = task[u]
            /\ UNCHANGED << gold, run, written, window, finished, reported >>
        BY <2>2, <1>t DEF PassReadiness, history
      <3>2. written[t] = 0 /\ 0 <= TableCount[t] /\ HasDays(gold, t, 0, window[t])
        BY <3>1, ControlsBAssumption DEF WrittenInv, HasDays
      <3> QED BY <3>1, <3>2, <1>t, <1>f DEF WrittenInv, HasDays
    <2>3. CASE Write(t)
      <3> DEFINE n == written[t] + 1
      <3>1. /\ task[t] = "writing" /\ t \in Work /\ written'[t] = n
            /\ \A u \in Tasks : u # t => written'[u] = written[u]
            /\ UNCHANGED << run, task, window, finished, reported >>
        BY <2>3 DEF Write, TypeOK, ShapeInv, history
      <3>2. n \in 1..TableCount[t] /\ n - 1 = written[t]
        BY <2>3, <3>1, ControlsBAssumption DEF Write, TypeOK
      <3>3. gold' = [gold EXCEPT ![t][n] = gold[t][n] \cup window[t][1]..window[t][2]]
        BY <2>3 DEF Write
      <3>4. window[t][1]..window[t][2] \subseteq gold'[t][n]
        <4>1. DOMAIN gold = Work /\ DOMAIN gold[t] = 1..TableCount[t]
          BY <3>1 DEF TypeOK, ShapeInv
        <4>2. gold'[t] = [gold[t] EXCEPT ![n] = gold[t][n] \cup window[t][1]..window[t][2]]
          BY <3>1, <3>3, <4>1
        <4> QED BY <3>2, <4>1, <4>2
      <3>5. HasDays(gold', t, n, window[t])
        <4>1. HasDays(gold, t, n - 1, window[t]) /\ n - 1 \in 0..TableCount[t]
          BY <3>1, <3>2, <1>c DEF WrittenInv
        <4>2. HasDays(gold', t, n - 1, window[t])
          BY <3>1, <4>1, <1>g
        <4>3. \A i \in 1..n : i \in 1..(n - 1) \/ i = n
          BY <3>2
        <4> QED BY <3>4, <4>2, <4>3 DEF HasDays
      <3>6. ASSUME NEW u \in Work, u # t, task[u] = "writing"
            PROVE  /\ written'[u] <= TableCount[u]
                   /\ HasDays(gold', u, written'[u], window'[u])
        <4>1. written[u] <= TableCount[u] /\ HasDays(gold, u, written[u], window[u])
          BY <3>6 DEF WrittenInv
        <4>2. written[u] \in 0..TableCount[u]
          BY <4>1, <1>t, <1>c DEF TypeOK
        <4> QED BY <3>1, <3>6, <4>1, <4>2, <1>g, <1>t
      <3>7. \A u \in Work : task'[u] = "writing" =>
               written'[u] <= TableCount[u] /\ HasDays(gold', u, written'[u], window'[u])
        BY <3>1, <3>2, <3>5, <3>6
      <3>8. \A u \in Work : task'[u] = "running" => written'[u] = 0
        BY <3>1, <1>t DEF WrittenInv
      <3>9. SuccessAfterBoth' /\ \A f \in finished : HasDays(gold', f.task, TableCount[f.task], f.window)
        BY <3>1, <1>f
      <3> QED BY <3>1, <3>7, <3>8, <3>9 DEF WrittenInv
    <2>4. CASE Succeed(t)
      <3> DEFINE new == [run |-> run, task |-> t, window |-> window[t]]
      <3>1. /\ task[t] = "writing" /\ t \in Work /\ written[t] = TableCount[t]
            /\ finished' = finished \cup {new}
            /\ task'[t] = "succeeded"
            /\ \A u \in Tasks : u # t => task'[u] = task[u]
            /\ \A u \in Tasks : u # t => written'[u] = written[u]
            /\ UNCHANGED << gold, run, window, reported >>
        BY <2>4, <1>t DEF Succeed, ShapeInv, TypeOK
      <3>2. HasDays(gold', t, TableCount[t], window[t])
        BY <3>1 DEF WrittenInv, HasDays
      <3>3. \A f \in finished' : HasDays(gold', f.task, TableCount[f.task], f.window)
        BY <3>1, <3>2, <1>f
      <3>4. SuccessAfterBoth'
        BY <3>1, <1>f
      <3>5. \A u \in Work :
              task'[u] = "succeeded" => \E f \in finished' : f.run = run' /\ f.task = u
        <4>1. new \in finished' /\ new.run = run' /\ new.task = t
          BY <3>1
        <4>2. ASSUME NEW u \in Work, u # t, task[u] = "succeeded"
              PROVE  \E f \in finished' : f.run = run' /\ f.task = u
          <5>1. PICK f \in finished : f.run = run /\ f.task = u
            BY <4>2 DEF WrittenInv
          <5> QED BY <3>1, <5>1
        <4> HIDE DEF new
        <4> QED BY <3>1, <4>1, <4>2, <1>t
      <3>6. \A u \in Work :
              /\ task'[u] = "running" => written'[u] = 0
              /\ task'[u] = "writing" =>
                   written'[u] <= TableCount[u] /\ HasDays(gold', u, written'[u], window'[u])
        BY <3>1, <1>t DEF WrittenInv
      <3> QED BY <3>3, <3>4, <3>5, <3>6 DEF WrittenInv
    <2>5. CASE Raise(t)
      BY <2>5, <1>t, <1>u DEF Raise, history
    <2> QED BY <1>8, <2>1, <2>2, <2>3, <2>4, <2>5 DEF TaskStep
  <1>9. CASE UNCHANGED vars
    BY <1>9, <1>u DEF vars, job, history
  <1> QED BY <1>1, <1>2, <1>3, <1>4, <1>5, <1>6, <1>7, <1>8, <1>9
          DEF Next, JobStep, EndRun, Timeout, Finished

\* A run that reports success has both its tasks behind it, with every table
\* of their windows written.
THEOREM SuccessIsWhole == Spec => []SuccessAfterBoth
  <1>1. WrittenInv => SuccessAfterBoth
    BY DEF WrittenInv
  <1> QED BY <1>1, Shape, OutcomeInit, OutcomeNext, WrittenInit, WrittenNext, PTL DEF Spec

-----------------------------------------------------------------------------
(* What Silver has reported.  Its row never holds an end above the highest  *)
(* one, and a task that writes has seen the end of its window there.        *)

BehindInv ==
  /\ GoldBehindSilver
  /\ ProcessedEnd(silver_state) # None =>
       silver_high # None /\ ProcessedEnd(silver_state) <= silver_high
  /\ \A t \in Work : task[t] = "writing" =>
       silver_high # None /\ window[t][2] < silver_high

\* Before its first step nothing is in gold and Silver has reported nothing.
LEMMA BehindInit == Init => BehindInv
  <1> SUFFICES ASSUME Init PROVE BehindInv
    OBVIOUS
  <1>1. \A t \in Work : \A i \in 1..TableCount[t] : gold[t][i] = {}
    BY DEF Init
  <1>2. ProcessedEnd(silver_state) = None
    BY DEF Init, ProcessedEnd
  <1>3. \A t \in Work : task[t] = "skipped"
    BY DEF Init, Idle, Tasks
  <1> QED BY <1>1, <1>2, <1>3 DEF BehindInv, GoldBehindSilver

\* Every step keeps gold behind Silver: the highest end it has reported never
\* goes down, even when its row does.
LEMMA BehindNext == TypeOK /\ ShapeInv /\ BehindInv /\ [Next]_vars => BehindInv'
  <1> SUFFICES ASSUME TypeOK, ShapeInv, BehindInv, [Next]_vars PROVE BehindInv'
    OBVIOUS
  <1> USE NoneAssumption, ControlsBAssumption
  <1>t. /\ task = [t \in Tasks |-> task[t]] /\ Work \subseteq Tasks
        /\ silver_high # None => silver_high \in Int
        /\ today \in Int
    BY DEF TypeOK, Optional, Tasks
  <1>w. ASSUME NEW t \in Tasks, task[t] \in {"running", "writing"}
        PROVE  window[t][1] \in Int /\ window[t][2] \in Int
    BY <1>w DEF ShapeInv, Days
  <1>d. ASSUME NEW t \in Work, NEW i \in 1..TableCount[t], NEW d \in gold[t][i]
        PROVE  d \in Int
    <2>1. gold[t] \in [1..TableCount[t] -> SUBSET Days] /\ Days \subseteq Int
      BY DEF TypeOK, Days
    <2> QED BY <2>1
  \* A step that starts no write and writes nothing.
  <1>u. ASSUME UNCHANGED << silver_state, silver_high, gold >>,
               \A t \in Work : task'[t] = "writing" =>
                 task[t] = "writing" /\ UNCHANGED window[t]
        PROVE  BehindInv'
    BY <1>u DEF BehindInv, GoldBehindSilver
  <1>1. CASE Midnight
    <2>1. UNCHANGED << silver_state, silver_high, gold, task, window >>
      BY <1>1 DEF Midnight, job, history
    <2> QED BY <2>1, <1>u
  <1>2. CASE SilverSucceeds
    <2>1. PICK end \in Ends :
            /\ silver_state' = ApplySuccess(None, end, None, FirstDay)
            /\ silver_high' = IF silver_high = None \/ silver_high < end
                              THEN end ELSE silver_high
      BY <1>2 DEF SilverSucceeds
    <2>2. UNCHANGED << gold, task, window >>
      BY <1>2 DEF SilverSucceeds, job
    <2>3. end \in Int /\ end # None
      BY <1>t, ControlsBAssumption, NoneAssumption DEF Ends
    <2>4. silver_high' \in Int /\ silver_high' # None /\ end <= silver_high'
      BY <2>1, <2>3, <1>t
    <2>5. silver_high # None => silver_high <= silver_high'
      BY <2>1, <2>3, <1>t
    <2>6. ProcessedEnd(silver_state') \in {None, end}
      BY <2>1 DEF ProcessedEnd, ApplySuccess
    <2>7. GoldBehindSilver'
      BY <2>2, <2>4, <2>5, <1>d, <1>t DEF BehindInv, GoldBehindSilver
    <2>8. \A t \in Work : task'[t] = "writing" =>
            silver_high' # None /\ window'[t][2] < silver_high'
      BY <2>2, <2>4, <2>5, <1>w, <1>t DEF BehindInv
    <2> QED BY <2>4, <2>6, <2>7, <2>8 DEF BehindInv
  <1>3. CASE StartRun
    <2>1. \A t \in Work : task'[t] = "pending"
      BY <1>3, <1>t DEF StartRun
    <2> QED BY <1>3, <2>1, <1>u DEF StartRun, history
  <1>4. CASE ReleaseFinalize
    <2>1. \A t \in Work : task'[t] = task[t]
      BY <1>4, <1>t DEF ReleaseFinalize, Work
    <2> QED BY <1>4, <2>1, <1>u DEF ReleaseFinalize, history
  <1>5. CASE Clear
    <2>1. \A t \in Work : task'[t] = "skipped"
      BY <1>5, <1>t DEF Clear, Idle
    <2> QED BY <1>5, <2>1, <1>u DEF Clear, history
  <1>6. CASE FinalizeSuccess
    BY <1>6, <1>t, <1>u DEF FinalizeSuccess
  <1>7. CASE FinalizeFailure
    BY <1>7, <1>t, <1>u DEF FinalizeFailure
  <1>8. ASSUME NEW t \in Tasks, TaskStep(t) PROVE BehindInv'
    <2>1. CASE Begin(t)
      BY <2>1, <1>t, <1>u DEF Begin, history, TypeOK
    <2>2. CASE PassReadiness(t)
      <3>1. /\ t \in Work /\ task[t] = "running"
            /\ Ready(silver_state, window[t][2] + 1)
            /\ \A u \in Tasks : u # t => task'[u] = task[u]
            /\ UNCHANGED << gold, window, silver_state, silver_high >>
        BY <2>2, <1>t DEF PassReadiness, ProcessedEndOf, history
      <3>2. ProcessedEnd(silver_state) # None
            /\ ProcessedEnd(silver_state) >= window[t][2] + 1
        BY <3>1 DEF Ready
      <3>3. ProcessedEnd(silver_state) \in Int
        BY <3>2 DEF ProcessedEnd, TypeOK, StateRow, Optional
      <3>4. silver_high # None /\ window[t][2] < silver_high
        BY <3>1, <3>2, <3>3, <1>t, <1>w DEF BehindInv
      <3> QED BY <3>1, <3>4, <1>t DEF BehindInv, GoldBehindSilver
    <2>3. CASE Write(t)
      <3>1. /\ task[t] = "writing" /\ t \in Work
            /\ UNCHANGED << task, window, silver_state, silver_high >>
        BY <2>3 DEF Write, ShapeInv, history
      <3>2. silver_high # None /\ \A d \in window[t][1]..window[t][2] : d < silver_high
        BY <3>1, <1>t, <1>w DEF BehindInv
      <3>3. ASSUME NEW u \in Work, NEW i \in 1..TableCount[u], NEW d \in gold'[u][i]
            PROVE  d < silver_high
        <4>1. DOMAIN gold = Work /\ gold[t] \in [1..TableCount[t] -> SUBSET Days]
          BY <3>1 DEF TypeOK, ShapeInv
        <4>2. d \in gold[u][i] \/ d \in window[t][1]..window[t][2]
          BY <2>3, <3>3, <4>1 DEF Write
        <4> QED BY <3>2, <4>2 DEF BehindInv, GoldBehindSilver
      <3> QED BY <3>1, <3>2, <3>3 DEF BehindInv, GoldBehindSilver
    <2>4. CASE Succeed(t)
      BY <2>4, <1>t, <1>u DEF Succeed
    <2>5. CASE Raise(t)
      BY <2>5, <1>t, <1>u DEF Raise, history
    <2> QED BY <1>8, <2>1, <2>2, <2>3, <2>4, <2>5 DEF TaskStep
  <1>9. CASE UNCHANGED vars
    BY <1>9, <1>u DEF vars, job, history
  <1> QED BY <1>1, <1>2, <1>3, <1>4, <1>5, <1>6, <1>7, <1>8, <1>9
          DEF Next, JobStep, EndRun, Timeout, Finished

\* Nothing is ever in gold for a day Silver has not reported as processed.
THEOREM BehindSilver == Spec => []GoldBehindSilver
  <1>1. BehindInv => GoldBehindSilver
    BY DEF BehindInv
  <1> QED BY <1>1, Shape, BehindInit, BehindNext, PTL DEF Spec

-----------------------------------------------------------------------------
(* The state row. *)

\* Every step is a change ProgressRow allows, or leaves the row alone.
LEMMA RowStep == TypeOK /\ ShapeInv /\ [Next]_vars => [Progress!Next]_pipeline_state
  <1> SUFFICES ASSUME TypeOK, ShapeInv, [Next]_vars, pipeline_state' # pipeline_state
               PROVE  Progress!Next
    OBVIOUS
  <1>1. FinalizeSuccess \/ FinalizeFailure
    BY DEF Next, Midnight, SilverSucceeds, StartRun, JobStep, ReleaseFinalize, EndRun,
           Clear, Timeout, TaskStep, Begin, PassReadiness, Write, Succeed, Raise,
           Finished, vars
  <1>2. today \in FirstDay..Horizon
    BY DEF TypeOK
  <1>3. ASSUME NEW t \in Finalize, task[t] = "running"
        PROVE  window[t] \in Days \X Days /\ window[t][2] + 1 \in Ends
    BY <1>3, ControlsBAssumption DEF ShapeInv, Ends, Days, Tasks
  <1>4. CASE FinalizeSuccess
    <2> DEFINE f == "finalize_success"
    <2>1. window[f] \in Days \X Days /\ window[f][2] + 1 \in Ends
      BY <1>3, <1>4 DEF FinalizeSuccess, Finalize
    <2>2. pipeline_state' = Progress!ApplySuccess(window[f], window[f][2] + 1, None, today)
      BY <1>4 DEF FinalizeSuccess, RunIdOf, ProcessedEndOf, ApplySuccess,
                  Progress!ApplySuccess
    <2> QED BY <1>2, <2>1, <2>2 DEF Progress!Next, Progress!Succeed
  <1>5. CASE FinalizeFailure
    <2> DEFINE f == "finalize_failure"
    <2>1. window[f] \in Days \X Days
      BY <1>3, <1>5 DEF FinalizeFailure, Finalize
    <2>2. pipeline_state' = Progress!ApplyFailure(pipeline_state, window[f], today)
      BY <1>5 DEF FinalizeFailure, RunIdOf, ApplyFailure, BlankRow,
                  Progress!ApplyFailure, Progress!BlankRow
    <2> QED BY <1>2, <2>1, <2>2 DEF Progress!Next, Progress!Fail
  <1> QED BY <1>1, <1>4, <1>5

\* Pipeline B keeps the promise of ProgressRow: a success reports the end of a
\* window, a failure leaves the reported progress alone.
THEOREM ControlsRefineProgressRow == Spec => ProgressSpec
  <1>1. Init => Progress!Init
    BY DEF Init, Progress!Init
  <1> QED BY <1>1, Shape, RowStep, PTL DEF Spec, ProgressSpec, Progress!Spec

=============================================================================

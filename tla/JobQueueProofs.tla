--------------------------- MODULE JobQueueProofs ---------------------------
(***************************************************************************)
(* Proofs about JobQueue for any files, instances and bounds.             *)
(***************************************************************************)
EXTENDS JobQueue, SequenceTheorems, FiniteSetTheorems, TLAPS

(* What handlers append: jobs that have not run.                           *)
FreshJob == {job \in Job : job.state = "Working" /\ job.function = 0}

LEMMA NewJobFresh ==
    ASSUME NEW kind \in JobKind, NEW owner \in Nat,
           NEW key \in Paths \cup Instances \cup {NoKey}
    PROVE  /\ NewJob(kind, key, owner) \in FreshJob
           /\ NewJob(kind, key, owner).kind = kind
           /\ NewJob(kind, key, owner).key = key
           /\ NewJob(kind, key, owner).owner = owner
  BY DEF NewJob, FreshJob, Job, JobState

LEMMA SeqOfIsSeq ==
    ASSUME NEW S, NEW n \in Nat, NEW s \in SeqOf(S, n)
    PROVE  s \in Seq(S)
  <1>1. PICK m \in 0 .. n : s \in [1 .. m -> S]
    BY DEF SeqOf
  <1> QED
    BY <1>1, SeqDef

LEMMA ScopeJobsFresh ==
    ASSUME NEW is_top_level \in BOOLEAN, NEW is_local \in BOOLEAN,
           NEW new \in process_scope(is_top_level, is_local)
    PROVE  new \in Seq(FreshJob)
  <1>1. new \in Seq(Statements(is_top_level, is_local))
    BY SeqOfIsSeq, ConstantsAssumption DEF process_scope
  <1>2. \A kind \in ScopeKinds :
          [NewJob(kind, NoKey, 0) EXCEPT !.is_local = is_local] \in FreshJob
    <2>1. \A kind \in ScopeKinds : NewJob(kind, NoKey, 0) \in FreshJob
      BY NewJobFresh, ConstantsAssumption DEF JobKind
    <2> QED
      BY <2>1 DEF FreshJob, Job
  <1>3. \A path \in Paths : NewJob("ParseFile", path, 0) \in FreshJob
    BY NewJobFresh DEF JobKind
  <1>4. NewJob("GenerateStaticVariable", NoKey, 0) \in FreshJob
    BY NewJobFresh DEF JobKind
  <1>5. Statements(is_top_level, is_local) \subseteq FreshJob
    BY <1>2, <1>3, <1>4 DEF Statements
  <1> QED
    BY <1>1, <1>5, SeqMonotonic

LEMMA StatementJobs ==
    ASSUME NEW is_top_level, NEW is_local,
           NEW job \in Statements(is_top_level, is_local)
    PROVE  /\ job.kind # "GenerateFunction"
           /\ job.key # NoKey => job.kind = "ParseFile"
  <1>1. ASSUME NEW kind \in ScopeKinds,
               job = [NewJob(kind, NoKey, 0) EXCEPT !.is_local = is_local]
        PROVE  job.kind # "GenerateFunction" /\ job.key = NoKey
    <2>1. kind # "GenerateFunction"
      BY ConstantsAssumption DEF DeclarationKinds
    <2>2. job.kind = kind /\ job.key = NoKey
      BY <1>1 DEF NewJob
    <2> QED
      BY <2>1, <2>2
  <1>2. ASSUME NEW path \in Paths, job = NewJob("ParseFile", path, 0)
        PROVE  job.kind = "ParseFile"
    BY <1>2 DEF NewJob
  <1>3. ASSUME job = NewJob("GenerateStaticVariable", NoKey, 0)
        PROVE  job.kind # "GenerateFunction" /\ job.key = NoKey
    BY <1>3 DEF NewJob
  <1> QED
    BY <1>1, <1>2, <1>3 DEF Statements

LEMMA InstanceJobFresh ==
    ASSUME NEW inst \in Instances
    PROVE  /\ InstanceJob(inst) \in FreshJob
           /\ InstanceJob(inst).kind = InstanceKind[inst]
           /\ InstanceKind[inst] # "GenerateFunction"
           /\ InstanceJob(inst).key = inst
  <1>1. InstanceKind[inst] \in PolymorphicKinds
    BY ConstantsAssumption
  <1>2. /\ InstanceKind[inst] \in JobKind
        /\ InstanceKind[inst] # "GenerateFunction"
    BY <1>1 DEF JobKind, PolymorphicKinds
  <1> QED
    BY <1>1, <1>2, NewJobFresh DEF InstanceJob

(* A list in which one job is replaced and to which others are appended.   *)
Updated(list, i, job, new) == [list EXCEPT ![i] = job] \o new

LEMMA UpdatedList ==
    ASSUME NEW list \in Seq(Job), NEW i \in DOMAIN list, NEW job \in Job,
           NEW new \in Seq(FreshJob)
    PROVE  /\ Updated(list, i, job, new) \in Seq(Job)
           /\ Len(Updated(list, i, job, new)) = Len(list) + Len(new)
           /\ DOMAIN Updated(list, i, job, new) = 1 .. Len(list) + Len(new)
           /\ \A k \in DOMAIN list :
                 Updated(list, i, job, new)[k] = IF k = i THEN job ELSE list[k]
           /\ \A k \in 1 .. Len(new) :
                 Updated(list, i, job, new)[Len(list) + k] = new[k]
  <1> DEFINE replaced == [list EXCEPT ![i] = job]
  <1>1. /\ replaced \in Seq(Job)
        /\ Len(replaced) = Len(list)
        /\ \A k \in DOMAIN list : replaced[k] = IF k = i THEN job ELSE list[k]
    BY ExceptSeq
  <1>2. new \in Seq(Job)
    BY SeqMonotonic DEF FreshJob
  <1> DEFINE updated == replaced \o new
  <1> HIDE DEF replaced
  <1>4. /\ updated \in Seq(Job)
        /\ Len(updated) = Len(replaced) + Len(new)
        /\ \A k \in 1 .. Len(replaced) + Len(new) :
              updated[k] = IF k <= Len(replaced) THEN replaced[k]
                           ELSE new[k - Len(replaced)]
    BY <1>1, <1>2, ConcatProperties
  <1>5. DOMAIN updated = 1 .. Len(list) + Len(new)
    BY <1>1, <1>4
  <1> HIDE DEF updated
  <1>6. DOMAIN list = 1 .. Len(list) /\ Len(list) \in Nat /\ Len(new) \in Nat
    BY <1>2, LenProperties
  <1>7. ASSUME NEW k \in DOMAIN list
        PROVE  /\ k \in DOMAIN updated
               /\ updated[k] = IF k = i THEN job ELSE list[k]
    <2>1. k \in 1 .. Len(list) + Len(new) /\ k <= Len(replaced)
      BY <1>1, <1>6
    <2> QED
      BY <2>1, <1>1, <1>4, <1>5
  <1>8. ASSUME NEW k \in 1 .. Len(new)
        PROVE  /\ Len(list) + k \in DOMAIN updated
               /\ updated[Len(list) + k] = new[k]
    <2>1. /\ Len(list) + k \in 1 .. Len(list) + Len(new)
          /\ ~ (Len(list) + k <= Len(replaced))
          /\ Len(list) + k - Len(replaced) = k
      BY <1>1, <1>6
    <2> QED
      BY <2>1, <1>1, <1>4, <1>5
  <1> QED
    BY <1>1, <1>4, <1>5, <1>7, <1>8 DEF updated, replaced, Updated

-----------------------------------------------------------------------------
(* No work is queued twice.                                                *)

Distinct(list) ==
    \A m, n \in DOMAIN list : SameWork(list[m], list[n]) => m = n

LEMMA SameWorkSymmetric ==
    ASSUME NEW a, NEW b
    PROVE  SameWork(a, b) => SameWork(b, a)
  BY DEF SameWork

(* Jobs searched for in the list and in what is already appended, each     *)
(* before it is appended, leave the list without duplicates.               *)
LEMMA DistinctConcat ==
    ASSUME NEW list \in Seq(Job), Distinct(list), NEW new \in Seq(Job),
           \A q \in DOMAIN new :
              \A m \in DOMAIN (list \o SubSeq(new, 1, q - 1)) :
                 ~ SameWork((list \o SubSeq(new, 1, q - 1))[m], new[q])
    PROVE  Distinct(list \o new)
  <1> DEFINE all == list \o new
  <1>0. /\ Len(list) \in Nat /\ Len(new) \in Nat
        /\ DOMAIN list = 1 .. Len(list) /\ DOMAIN new = 1 .. Len(new)
    OBVIOUS
  <1>1. /\ DOMAIN all = 1 .. Len(list) + Len(new)
        /\ \A m \in 1 .. Len(list) : all[m] = list[m]
        /\ \A q \in 1 .. Len(new) : all[Len(list) + q] = new[q]
    <2>1. /\ all \in Seq(Job)
          /\ Len(all) = Len(list) + Len(new)
          /\ \A m \in 1 .. Len(list) + Len(new) :
                all[m] = IF m <= Len(list) THEN list[m] ELSE new[m - Len(list)]
      BY ConcatProperties
    <2> HIDE DEF all
    <2> QED
      BY <2>1, <1>0
  <1> HIDE DEF all
  <1>2. ASSUME NEW q \in 1 .. Len(new), NEW m \in 1 .. Len(list) + q - 1
        PROVE  /\ m \in DOMAIN (list \o SubSeq(new, 1, q - 1))
               /\ (list \o SubSeq(new, 1, q - 1))[m] = all[m]
    <2> DEFINE seen == SubSeq(new, 1, q - 1)
               earlier == list \o seen
    <2>1. /\ seen \in Seq(Job) /\ Len(seen) = q - 1
          /\ \A k \in 1 .. q - 1 : seen[k] = new[k]
      BY <1>0, SubSeqProperties
    <2> HIDE DEF seen
    <2>c. /\ earlier \in Seq(Job)
          /\ Len(earlier) = Len(list) + Len(seen)
          /\ \A k \in 1 .. Len(list) + Len(seen) :
                earlier[k] = IF k <= Len(list) THEN list[k]
                             ELSE seen[k - Len(list)]
      BY <2>1, ConcatProperties
    <2> HIDE DEF earlier
    <2>2. /\ earlier \in Seq(Job)
          /\ Len(earlier) = Len(list) + q - 1
          /\ \A k \in 1 .. Len(list) + q - 1 :
                earlier[k] = IF k <= Len(list) THEN list[k]
                             ELSE seen[k - Len(list)]
      <3>1. Len(list) + Len(seen) = Len(list) + q - 1
        BY <1>0, <2>1
      <3> QED
        BY <2>c, <3>1
    <2>3. m \in DOMAIN earlier
      BY <1>0, <2>2
    <2>4. ASSUME m <= Len(list) PROVE earlier[m] = all[m]
      BY <1>0, <1>1, <2>2, <2>4
    <2>5. ASSUME ~ (m <= Len(list)) PROVE earlier[m] = all[m]
      <3>1. m - Len(list) \in 1 .. q - 1 /\ Len(list) + (m - Len(list)) = m
        BY <1>0, <2>5
      <3>2. earlier[m] = seen[m - Len(list)]
        BY <1>0, <2>2, <2>5
      <3>3. all[m] = new[m - Len(list)]
        BY <1>0, <1>1, <3>1
      <3> QED
        BY <2>1, <3>1, <3>2, <3>3
    <2>6. earlier[m] = all[m]
      BY <2>4, <2>5
    <2> QED
      BY <2>3, <2>6 DEF earlier, seen
  <1>3. ASSUME NEW m \in DOMAIN all, NEW n \in DOMAIN all, m < n,
               SameWork(all[m], all[n])
        PROVE  FALSE
    <2>1. CASE n <= Len(list)
      BY <1>0, <1>1, <1>3, <2>1 DEF Distinct
    <2>2. CASE n > Len(list)
      <3>1. /\ n - Len(list) \in 1 .. Len(new)
            /\ m \in 1 .. Len(list) + (n - Len(list)) - 1
            /\ Len(list) + (n - Len(list)) = n
        BY <1>0, <1>1, <1>3, <2>2
      <3>2. all[n] = new[n - Len(list)]
        BY <1>1, <3>1
      <3> QED
        BY <1>0, <1>2, <1>3, <3>1, <3>2
    <2> QED
      BY <1>0, <1>1, <2>1, <2>2
  <1>4. ASSUME NEW m \in DOMAIN all, NEW n \in DOMAIN all,
               SameWork(all[m], all[n])
        PROVE  m = n
    <2>1. SameWork(all[n], all[m])
      BY <1>4, SameWorkSymmetric
    <2>2. m \in Int /\ n \in Int
      BY <1>0, <1>1
    <2> QED
      BY <1>3, <1>4, <2>1, <2>2
  <1> QED
    BY <1>4 DEF Distinct, all

(* What handlers append: jobs that have not run, for work that nothing in  *)
(* the list does.                                                          *)
NewWork == {new \in Seq(FreshJob) : Distinct(jobs) => Distinct(jobs \o new)}

LEMMA NoNewWork == TypeOK => <<>> \in NewWork
  <1> SUFFICES ASSUME TypeOK PROVE <<>> \in NewWork
    OBVIOUS
  <1>1. jobs \o <<>> = jobs
    BY ConcatEmptySeq DEF TypeOK
  <1> QED
    BY <1>1, EmptySeq DEF NewWork

LEMMA ScopeJobsNew ==
    ASSUME TypeOK, NEW is_top_level \in BOOLEAN, NEW is_local \in BOOLEAN,
           NEW new \in process_scope(is_top_level, is_local)
    PROVE  new \in NewWork
  <1>1. new \in Seq(FreshJob)
    BY ScopeJobsFresh
  <1>2. jobs \in Seq(Job) /\ new \in Seq(Job)
    BY <1>1, SeqMonotonic DEF TypeOK, FreshJob
  <1>3. ASSUME NEW q \in DOMAIN new,
               NEW m \in DOMAIN (jobs \o SubSeq(new, 1, q - 1)),
               SameWork((jobs \o SubSeq(new, 1, q - 1))[m], new[q])
        PROVE  FALSE
    <2>1. new \in Seq(Statements(is_top_level, is_local))
      BY SeqOfIsSeq, ConstantsAssumption DEF process_scope
    <2>2. new[q] \in Statements(is_top_level, is_local)
      BY <2>1, ElementOfSeq
    <2>3. new[q].kind # "GenerateFunction"
      BY <2>2, StatementJobs
    <2>4. new[q].key # NoKey => new[q].kind = "ParseFile"
      BY <2>2, StatementJobs
    <2>5. new[q].kind = "ParseFile" =>
            ~ AlreadyAdded(new[q].key, jobs \o SubSeq(new, 1, q - 1))
      BY DEF process_scope
    <2> QED
      BY <1>3, <2>3, <2>4, <2>5 DEF SameWork, AlreadyAdded
  <1> QED
    BY <1>1, <1>2, <1>3, DistinctConcat DEF NewWork

(* One more job, after others.                                             *)
LEMMA OneMoreJob ==
    ASSUME TypeOK, NEW new \in NewWork, NEW job \in FreshJob,
           \A m \in DOMAIN (jobs \o new) : ~ SameWork((jobs \o new)[m], job)
    PROVE  Append(new, job) \in NewWork
  <1>1. new \in Seq(FreshJob) /\ Append(new, job) \in Seq(FreshJob)
    BY AppendProperties DEF NewWork
  <1>2. /\ jobs \in Seq(Job) /\ new \in Seq(Job) /\ job \in Job
        /\ <<job>> \in Seq(Job) /\ jobs \o new \in Seq(Job)
    BY <1>1, SeqMonotonic, ConcatProperties DEF TypeOK, FreshJob
  <1>3. jobs \o Append(new, job) = (jobs \o new) \o <<job>>
    BY <1>2, AppendIsConcat, ConcatAssociative
  <1>4. ASSUME Distinct(jobs \o new)
        PROVE  Distinct((jobs \o new) \o <<job>>)
    <2> DEFINE list == jobs \o new
    <2>0. list \in Seq(Job)
      BY <1>2
    <2> HIDE DEF list
    <2>1. ASSUME NEW q \in DOMAIN <<job>>,
                 NEW m \in DOMAIN (list \o SubSeq(<<job>>, 1, q - 1))
          PROVE  ~ SameWork((list \o SubSeq(<<job>>, 1, q - 1))[m], <<job>>[q])
      <3>1. q = 1 /\ <<job>>[q] = job
        OBVIOUS
      <3>2. SubSeq(<<job>>, 1, q - 1) = <<>>
        BY <3>1
      <3>3. list \o SubSeq(<<job>>, 1, q - 1) = list
        BY <2>0, <3>2, ConcatEmptySeq
      <3> QED
        BY <3>1, <3>3 DEF list
    <2> QED
      BY <1>2, <1>4, <2>0, <2>1, DistinctConcat DEF list
  <1> QED
    BY <1>1, <1>3, <1>4 DEF NewWork

LEMMA DeclaredJobNew ==
    ASSUME TypeOK, NEW i \in DOMAIN jobs, NEW new \in NewWork
    PROVE  new \o GenerateDeclared(i, new) \in NewWork
  <1> DEFINE job == NewJob("GenerateFunction", NoKey, i)
  <1>1. i \in Nat
    BY DEF TypeOK
  <1>2. /\ job \in FreshJob /\ job.kind = "GenerateFunction"
        /\ job.key = NoKey /\ job.owner = i
    BY <1>1, NewJobFresh DEF JobKind
  <1> HIDE DEF job
  <1>3. new \in Seq(FreshJob)
    BY DEF NewWork
  <1>4. CASE GenerateJobs(i, jobs \o new) = {}
    <2>1. \A m \in DOMAIN (jobs \o new) : ~ SameWork((jobs \o new)[m], job)
      BY <1>2, <1>4 DEF SameWork, GenerateJobs
    <2>2. Append(new, job) \in NewWork
      BY <1>2, <2>1, OneMoreJob
    <2>3. Append(new, job) = new \o <<job>>
      BY <1>2, <1>3, AppendIsConcat
    <2> QED
      BY <1>4, <2>2, <2>3 DEF GenerateDeclared, job
  <1>5. CASE GenerateJobs(i, jobs \o new) # {}
    BY <1>3, <1>5, ConcatEmptySeq DEF GenerateDeclared
  <1> QED
    BY <1>4, <1>5

LEMMA InstanceJobNew ==
    ASSUME TypeOK, NEW called \in NewWork,
           NEW inst \in NewInstances(jobs \o called)
    PROVE  Append(called, InstanceJob(inst)) \in NewWork
  <1> DEFINE job == InstanceJob(inst)
  <1>1. /\ inst \in Instances
        /\ job \in FreshJob /\ job.kind = InstanceKind[inst]
        /\ job.kind # "GenerateFunction" /\ job.key = inst
    BY InstanceJobFresh DEF NewInstances
  <1> HIDE DEF job
  <1>2. \A m \in DOMAIN (jobs \o called) : ~ SameWork((jobs \o called)[m], job)
    BY <1>1 DEF SameWork, NewInstances
  <1> QED
    BY <1>1, <1>2, OneMoreJob DEF job

LEMMA UnnoticedWaitNew ==
    ASSUME TypeOK, NEW new \in UnnoticedWait
    PROVE  new \in NewWork
  <1>1. ASSUME NEW inst \in NewInstances(jobs), new = <<InstanceJob(inst)>>
        PROVE  new \in NewWork
    <2>1. jobs \o <<>> = jobs
      BY ConcatEmptySeq DEF TypeOK
    <2>2. Append(<<>>, InstanceJob(inst)) \in NewWork
      BY <2>1, NoNewWork, InstanceJobNew
    <2> QED
      BY <1>1, <2>2
  <1> QED
    BY <1>1, NoNewWork DEF UnnoticedWait

(* What the body of a function may ask for: functions and instances.       *)
LEMMA CalledJobsNew ==
    ASSUME TypeOK, NEW new \in GenerateCalled
    PROVE  new \in NewWork
  <1> DEFINE Functions == {NewJob("GenerateFunction", NoKey, o) :
                              o \in FunctionValues}
             Wanted == Functions \cup {InstanceJob(inst) : inst \in Instances}
  <1>1. FunctionValues \subseteq Nat
    BY DEF FunctionValues, TypeOK
  <1>2. \A job \in Functions :
          job \in FreshJob /\ job.kind = "GenerateFunction" /\ job.key = NoKey
    BY <1>1, NewJobFresh DEF JobKind
  <1>3. \A inst \in Instances :
          /\ InstanceJob(inst) \in FreshJob
          /\ InstanceJob(inst).kind = InstanceKind[inst]
          /\ InstanceKind[inst] # "GenerateFunction"
          /\ InstanceJob(inst).key = inst
    BY InstanceJobFresh
  <1>4. new \in Seq(Wanted)
    BY SeqOfIsSeq, ConstantsAssumption DEF GenerateCalled
  <1>5. ASSUME NEW q \in DOMAIN new
        PROVE  \/ new[q] \in Functions
               \/ \E inst \in Instances : new[q] = InstanceJob(inst)
    BY <1>4, ElementOfSeq
  <1>6. ASSUME NEW q \in DOMAIN new
        PROVE  IF new[q].kind = "GenerateFunction"
                 THEN GenerateJobs(new[q].owner,
                                   jobs \o SubSeq(new, 1, q - 1)) = {}
                 ELSE new[q].key \in NewInstances(jobs \o SubSeq(new, 1, q - 1))
    BY DEF GenerateCalled
  <1> HIDE DEF Functions
  <1>7. Wanted \subseteq FreshJob
    BY <1>2, <1>3
  <1>8. new \in Seq(FreshJob)
    BY <1>4, <1>7, SeqMonotonic
  <1>9. jobs \in Seq(Job) /\ new \in Seq(Job)
    BY <1>8, SeqMonotonic DEF TypeOK, FreshJob
  <1>10. ASSUME NEW q \in DOMAIN new,
                NEW m \in DOMAIN (jobs \o SubSeq(new, 1, q - 1)),
                SameWork((jobs \o SubSeq(new, 1, q - 1))[m], new[q])
         PROVE  FALSE
    <2> DEFINE before == jobs \o SubSeq(new, 1, q - 1)
    <2>0. m \in DOMAIN before /\ SameWork(before[m], new[q])
      BY <1>10
    <2>1. IF new[q].kind = "GenerateFunction"
            THEN GenerateJobs(new[q].owner, before) = {}
            ELSE new[q].key \in NewInstances(before)
      BY <1>6
    <2> HIDE DEF before
    <2>2. CASE new[q] \in Functions
      BY <1>2, <2>0, <2>1, <2>2 DEF SameWork, GenerateJobs
    <2>3. ASSUME NEW inst \in Instances, new[q] = InstanceJob(inst)
          PROVE  FALSE
      BY <1>3, <2>0, <2>1, <2>3 DEF SameWork, NewInstances
    <2> QED
      BY <1>5, <2>2, <2>3
  <1> QED
    BY <1>8, <1>9, <1>10, DistinctConcat DEF NewWork

-----------------------------------------------------------------------------
(* What any handler does to the queue.                                     *)

(* The job a handler leaves behind is the one it ran, done or waiting.     *)
LeftBehind(i, job, length) ==
    /\ job \in Job
    /\ job.kind = jobs[i].kind
    /\ job.key = jobs[i].key
    /\ job.owner = jobs[i].owner
    /\ \/ job.state = "Done"
       \/ /\ job.state = "Waiting" /\ job.waiting_for \in 1 .. length
          /\ job.waiting_for \notin {w \in DOMAIN jobs : Done(w)}
          /\ job.function = jobs[i].function

RanJob(i, job, new) ==
    /\ LeftBehind(i, job, Len(jobs) + Len(new))
    /\ jobs' = Updated(jobs, i, job, new)
    /\ pc' = "main"
    /\ did_work' = TRUE

(* The jobs whose results go to the code generator, once they are done.    *)
Generated == {"GenerateFunction", "GenerateStaticVariable"}

PassedOn(i) ==
    \E constants \in Seq({0}) :
        runtime_statics' = Append(runtime_statics, i) \o constants

Passes(i, state) ==
    IF state = "Done" /\ jobs[i].kind \in Generated
      THEN PassedOn(i) ELSE UNCHANGED runtime_statics

(* Whether the job finished with a function of its own.                    *)
Answers(i, job) == job.state = "Done" /\ job.function = i

(* A function to generate is one that a job evaluated to, and a            *)
(* declaration that evaluates to one has it generated.                     *)
Owned(i, own, new) ==
    /\ \A n \in DOMAIN new :
          new[n].kind = "GenerateFunction" =>
              \/ new[n].owner \in FunctionValues
              \/ new[n].owner = i /\ own
    /\ own /\ jobs[i].kind = "ResolveFunctionDeclaration"
          => GenerateJobs(i, jobs \o new) # {}

RanOrFailed(i) ==
    \/ pc' = "error" /\ UNCHANGED <<jobs, did_work, runtime_statics>>
    \/ \E job \in Job, new \in NewWork :
          /\ RanJob(i, job, new)
          /\ Passes(i, job.state)
          /\ Owned(i, Answers(i, job), new)

LEMMA FinishStep ==
    ASSUME TypeOK, NEW i \in DOMAIN jobs, NEW function \in Nat,
           NEW new \in Seq(FreshJob), Finish(i, function, new)
    PROVE  \E job \in Job : /\ RanJob(i, job, new)
                            /\ job.state = "Done"
                            /\ job.function = function
  <1> DEFINE job == [jobs[i] EXCEPT !.state = "Done", !.function = function]
  <1>1. jobs[i] \in Job
    BY DEF TypeOK
  <1>2. /\ job \in Job
        /\ job.state = "Done"
        /\ job.function = function
        /\ job.kind = jobs[i].kind
        /\ job.key = jobs[i].key
        /\ job.owner = jobs[i].owner
    BY <1>1 DEF Job, JobState
  <1>3. jobs' = Updated(jobs, i, job, new)
    BY DEF Finish, Updated
  <1> QED
    BY <1>2, <1>3 DEF Finish, HandlerRan, RanJob, LeftBehind

LEMMA SuspendStep ==
    ASSUME TypeOK, NEW i \in DOMAIN jobs, NEW w, NEW new \in Seq(FreshJob),
           w \in 1 .. Len(jobs) + Len(new), Suspend(i, w, new),
           w \notin {k \in DOMAIN jobs : Done(k)}
    PROVE  /\ \E job \in Job : RanJob(i, job, new) /\ job.state = "Waiting"
           /\ UNCHANGED runtime_statics
  <1> DEFINE job == [jobs[i] EXCEPT !.state = "Waiting", !.waiting_for = w]
  <1>0. Len(jobs) \in Nat /\ Len(new) \in Nat
    BY DEF TypeOK
  <1>1. jobs[i] \in Job /\ w \in Nat
    BY <1>0 DEF TypeOK
  <1>2. /\ job \in Job
        /\ job.state = "Waiting" /\ job.waiting_for = w
        /\ job.function = jobs[i].function
        /\ job.kind = jobs[i].kind
        /\ job.key = jobs[i].key
        /\ job.owner = jobs[i].owner
    BY <1>1 DEF Job, JobState
  <1>3. jobs' = Updated(jobs, i, job, new)
    BY DEF Suspend, Updated
  <1> QED
    BY <1>2, <1>3 DEF Suspend, HandlerRan, RanJob, LeftBehind

(* Whom appended jobs belong to.                                           *)
LEMMA OwnedNothing == ASSUME NEW i PROVE Owned(i, FALSE, <<>>)
  BY DEF Owned

LEMMA OwnedInstance ==
    ASSUME NEW i, NEW called \in Seq(FreshJob), Owned(i, FALSE, called),
           NEW list, NEW inst \in NewInstances(list)
    PROVE  Owned(i, FALSE, Append(called, InstanceJob(inst)))
  <1> DEFINE job == InstanceJob(inst)
             new == Append(called, job)
  <1>1. job \in FreshJob /\ job.kind # "GenerateFunction"
    BY InstanceJobFresh DEF NewInstances
  <1> HIDE DEF job
  <1>2. ASSUME NEW n \in DOMAIN new
        PROVE  (n \in DOMAIN called /\ new[n] = called[n]) \/ new[n] = job
    BY <1>1, AppendProperties
  <1> HIDE DEF new
  <1>3. ASSUME NEW n \in DOMAIN new, new[n].kind = "GenerateFunction"
        PROVE  new[n].owner \in FunctionValues
    BY <1>1, <1>2, <1>3 DEF Owned
  <1> QED
    BY <1>3 DEF Owned, new, job

LEMMA OwnedScope ==
    ASSUME NEW i, NEW is_top_level \in BOOLEAN, NEW is_local \in BOOLEAN,
           NEW new \in process_scope(is_top_level, is_local)
    PROVE  /\ \A n \in DOMAIN new : new[n].kind # "GenerateFunction"
           /\ Owned(i, FALSE, new)
           /\ jobs[i].kind # "ResolveFunctionDeclaration" => Owned(i, TRUE, new)
  <1>1. new \in Seq(Statements(is_top_level, is_local))
    BY SeqOfIsSeq, ConstantsAssumption DEF process_scope
  <1>2. \A n \in DOMAIN new : new[n] \in Statements(is_top_level, is_local)
    BY <1>1, ElementOfSeq
  <1>3. \A n \in DOMAIN new : new[n].kind # "GenerateFunction"
    BY <1>2, StatementJobs
  <1> QED
    BY <1>3 DEF Owned

LEMMA OwnedDeclared ==
    ASSUME TypeOK, NEW i \in DOMAIN jobs, NEW new \in process_scope(FALSE, TRUE)
    PROVE  Owned(i, TRUE, new \o GenerateDeclared(i, new))
  <1> DEFINE job == NewJob("GenerateFunction", NoKey, i)
             all == new \o GenerateDeclared(i, new)
  <1>0. i \in Nat
    BY DEF TypeOK
  <1>1. job \in FreshJob /\ job.kind = "GenerateFunction" /\ job.owner = i
    BY <1>0, NewJobFresh DEF JobKind
  <1>s. new \in Seq(FreshJob)
    BY ScopeJobsFresh
  <1>2. new \in Seq(FreshJob) /\ Len(new) \in Nat /\ DOMAIN new = 1 .. Len(new)
    BY <1>s, LenProperties
  <1>3. /\ jobs \in Seq(Job) /\ new \in Seq(Job) /\ job \in Job
        /\ Len(jobs) \in Nat
    BY <1>1, <1>2, SeqMonotonic DEF TypeOK, FreshJob
  <1>4. \A n \in DOMAIN new : new[n].kind # "GenerateFunction"
    BY OwnedScope
  <1> HIDE DEF job
  <1>5. CASE GenerateJobs(i, jobs \o new) = {}
    <2>1. all = Append(new, job)
      BY <1>1, <1>2, <1>5, AppendIsConcat DEF GenerateDeclared, job
    <2>2. /\ DOMAIN all = 1 .. Len(new) + 1
          /\ \A n \in 1 .. Len(new) : all[n] = new[n]
          /\ all[Len(new) + 1] = job
          /\ all \in Seq(Job) /\ Len(all) = Len(new) + 1
      BY <1>3, <2>1, AppendProperties
    <2> HIDE DEF all
    <2>3. \A n \in DOMAIN all : all[n].kind = "GenerateFunction" => all[n].owner = i
      BY <1>1, <1>2, <1>4, <2>2
    <2>4. /\ Len(jobs) + Len(new) + 1 \in DOMAIN (jobs \o all)
          /\ (jobs \o all)[Len(jobs) + Len(new) + 1] = job
      BY <1>2, <1>3, <2>2, ConcatProperties
    <2>5. GenerateJobs(i, jobs \o all) # {}
      BY <1>1, <2>4 DEF GenerateJobs
    <2> QED
      BY <2>3, <2>5 DEF Owned, all
  <1>6. CASE GenerateJobs(i, jobs \o new) # {}
    <2>1. all = new
      BY <1>2, <1>6, ConcatEmptySeq DEF GenerateDeclared
    <2> QED
      BY <1>4, <1>6, <2>1 DEF Owned
  <1> QED
    BY <1>5, <1>6

LEMMA OwnedUnnoticed ==
    ASSUME NEW i, NEW new \in UnnoticedWait
    PROVE  Owned(i, FALSE, new)
  <1>1. ASSUME NEW inst \in NewInstances(jobs), new = <<InstanceJob(inst)>>
        PROVE  Owned(i, FALSE, new)
    <2>1. <<>> \in Seq(FreshJob)
      BY EmptySeq
    <2>2. Owned(i, FALSE, Append(<<>>, InstanceJob(inst)))
      BY <2>1, OwnedNothing, OwnedInstance
    <2>3. \A job : Append(<<>>, job) = <<job>>
      OBVIOUS
    <2>4. new = Append(<<>>, InstanceJob(inst))
      BY <1>1, <2>3
    <2> QED
      BY <2>2, <2>4
  <1> QED
    BY <1>1, OwnedNothing DEF UnnoticedWait

LEMMA OwnedCalled ==
    ASSUME NEW i, NEW new \in GenerateCalled
    PROVE  Owned(i, FALSE, new)
  <1> DEFINE Wanted == {NewJob("GenerateFunction", NoKey, o) : o \in FunctionValues}
                         \cup {InstanceJob(inst) : inst \in Instances}
  <1>1. new \in Seq(Wanted)
    BY SeqOfIsSeq, ConstantsAssumption DEF GenerateCalled
  <1>2. \A inst \in Instances : InstanceJob(inst).kind # "GenerateFunction"
    BY InstanceJobFresh
  <1>3. \A job \in Wanted :
          job.kind = "GenerateFunction" => job.owner \in FunctionValues
    BY <1>2 DEF NewJob
  <1>4. \A n \in DOMAIN new : new[n] \in Wanted
    BY <1>1, ElementOfSeq
  <1> QED
    BY <1>3, <1>4 DEF Owned

LEMMA BlocksStep ==
    ASSUME TypeOK, NEW i \in DOMAIN jobs, NEW kinds,
           NEW called \in NewWork, Owned(i, FALSE, called),
           Blocks(i, kinds, called)
    PROVE  /\ \E job \in Job, new \in NewWork :
                 RanJob(i, job, new) /\ job.state = "Waiting" /\ Owned(i, FALSE, new)
           /\ UNCHANGED runtime_statics
  <1>n. NewWork \subseteq Seq(FreshJob)
    BY DEF NewWork
  <1>0. Len(jobs) \in Nat /\ Len(called) \in Nat
    BY <1>n DEF TypeOK
  <1>1. ASSUME NEW w \in Unfinished(kinds), Suspend(i, w, called)
        PROVE  /\ \E job \in Job, new \in NewWork :
                     RanJob(i, job, new) /\ job.state = "Waiting" /\ Owned(i, FALSE, new)
               /\ UNCHANGED runtime_statics
    <2>1. /\ w \in 1 .. Len(jobs) + Len(called)
          /\ w \notin {k \in DOMAIN jobs : Done(k)}
      BY <1>0 DEF Unfinished, TypeOK
    <2> QED
      BY <1>1, <1>n, <2>1, SuspendStep
  <1>2. ASSUME NEW inst \in NewInstances(jobs \o called),
               NEW new, new = Append(called, InstanceJob(inst)),
               Suspend(i, Len(jobs) + Len(new), new)
        PROVE  /\ \E job \in Job, n \in NewWork :
                     RanJob(i, job, n) /\ job.state = "Waiting" /\ Owned(i, FALSE, n)
               /\ UNCHANGED runtime_statics
    <2>1. new \in NewWork
      BY <1>2, InstanceJobNew
    <2>2. InstanceJob(inst) \in FreshJob
      BY InstanceJobFresh DEF NewInstances
    <2>3. Len(new) = Len(called) + 1
      BY <1>2, <1>n, <2>2, AppendProperties
    <2>4. /\ Len(jobs) + Len(new) \in 1 .. Len(jobs) + Len(new)
          /\ Len(jobs) + Len(new) \notin {k \in DOMAIN jobs : Done(k)}
      BY <1>0, <2>3 DEF TypeOK
    <2>5. Owned(i, FALSE, new)
      BY <1>2, <1>n, OwnedInstance
    <2> QED
      BY <1>2, <1>n, <2>1, <2>4, <2>5, SuspendStep
  <1> QED
    BY <1>1, <1>2 DEF Blocks

LEMMA HandlerGuard ==
    ASSUME NEW i \in DOMAIN jobs, Handle(i)
    PROVE  pc = "scan" /\ Runnable(i) /\ MainUnchanged
  BY DEF Handle, Handling, Selected, ParseFile, ResolveStaticIf,
         ResolveFunctionDeclaration, ResolvePolymorphicFunction,
         ResolveDefinition, ResolveConstantDefinition,
         ResolveStructDefinition, ResolvePolymorphicStruct,
         ResolveUnionDefinition, ResolvePolymorphicUnion,
         ResolveEnumDefinition, GenerateFunction, GenerateStaticVariable

LEMMA HandlerStep ==
    ASSUME TypeOK, NEW i \in DOMAIN jobs, Handle(i)
    PROVE  RanOrFailed(i)
  <1>e. <<>> \in NewWork /\ Owned(i, FALSE, <<>>)
    BY NoNewWork, OwnedNothing
  <1>f. Fails => RanOrFailed(i)
    BY DEF Fails, RanOrFailed
  <1>i. i \in Nat /\ i # 0
    BY DEF TypeOK
  <1>d. ASSUME NEW function \in Nat, NEW own \in BOOLEAN, own <=> function = i,
               NEW new \in NewWork, Owned(i, own, new),
               Finish(i, function, new), Passes(i, "Done")
        PROVE  RanOrFailed(i)
    <2>1. new \in Seq(FreshJob)
      BY DEF NewWork
    <2>2. PICK job \in Job : /\ RanJob(i, job, new)
                             /\ job.state = "Done"
                             /\ job.function = function
      BY <1>d, <2>1, FinishStep
    <2>3. Answers(i, job) = own
      BY <1>d, <2>2 DEF Answers
    <2> QED
      BY <1>d, <2>2, <2>3 DEF RanOrFailed
  <1>o. ASSUME NEW function \in Nat \ {i}, NEW new \in NewWork,
               Owned(i, FALSE, new), Finish(i, function, new), Passes(i, "Done")
        PROVE  RanOrFailed(i)
    BY <1>o, <1>d
  <1>s. ASSUME NEW new \in NewWork, Owned(i, TRUE, new), Finish(i, i, new),
               Passes(i, "Done")
        PROVE  RanOrFailed(i)
    BY <1>s, <1>d, <1>i
  <1>z. ASSUME NEW new \in NewWork, Owned(i, FALSE, new), Finish(i, 0, new),
               Passes(i, "Done")
        PROVE  RanOrFailed(i)
    BY <1>z, <1>o, <1>i
  <1>c. ASSUME NEW kinds, NEW called \in NewWork, Owned(i, FALSE, called),
               Blocks(i, kinds, called)
        PROVE  RanOrFailed(i)
    <2>1. PICK job \in Job, new \in NewWork :
            RanJob(i, job, new) /\ job.state = "Waiting" /\ Owned(i, FALSE, new)
      BY <1>c, BlocksStep
    <2>2. UNCHANGED runtime_statics
      BY <1>c, BlocksStep
    <2>3. Answers(i, job) = FALSE /\ Passes(i, job.state)
      BY <2>1, <2>2 DEF Answers, Passes
    <2> QED
      BY <2>1, <2>3 DEF RanOrFailed
  <1>b. ASSUME NEW kinds, Blocks(i, kinds, <<>>)
        PROVE  RanOrFailed(i)
    BY <1>b, <1>c, <1>e
  <1>u. jobs[i].kind \notin Generated /\ UNCHANGED runtime_statics
          => Passes(i, "Done")
    BY DEF Passes
  <1>a. jobs[i].kind \in Generated /\ PassedOn(i) => Passes(i, "Done")
    BY DEF Passes
  <1>1. CASE ParseFile(i)
    <2>1. Passes(i, "Done")
      BY <1>1, <1>u DEF ParseFile, Handling, Generated
    <2> QED
      BY <1>1, <2>1, <1>z, <1>f, ScopeJobsNew, OwnedScope DEF ParseFile
  <1>2. CASE ResolveStaticIf(i)
    <2>p. Passes(i, "Done")
      BY <1>2, <1>u DEF ResolveStaticIf, Handling, Generated
    <2>1. ASSUME NEW condition \in BOOLEAN,
                 NEW new \in IF condition
                                THEN process_scope(TRUE, jobs[i].is_local)
                                ELSE {<<>>},
                 Finish(i, 0, new)
          PROVE  RanOrFailed(i)
      <3>j. jobs[i] \in Job
        BY DEF TypeOK
      <3>0. jobs[i].is_local \in BOOLEAN
        BY <3>j DEF Job
      <3>1. new \in NewWork /\ Owned(i, FALSE, new)
        BY <1>e, <3>0, ScopeJobsNew, OwnedScope
      <3> QED
        BY <2>1, <2>p, <3>1, <1>z
    <2> QED
      BY <1>2, <2>1, <1>b, <1>f DEF ResolveStaticIf
  <1>3. CASE ResolveFunctionDeclaration(i)
    <2>p. Passes(i, "Done")
      BY <1>3, <1>u DEF ResolveFunctionDeclaration, Handling, Generated
    <2>1. ASSUME NEW new \in process_scope(FALSE, TRUE),
                 Finish(i, i, new \o GenerateDeclared(i, new))
          PROVE  RanOrFailed(i)
      <3>1. new \o GenerateDeclared(i, new) \in NewWork
        BY ScopeJobsNew, DeclaredJobNew
      <3>2. Owned(i, TRUE, new \o GenerateDeclared(i, new))
        BY OwnedDeclared
      <3> QED
        BY <2>1, <2>p, <3>1, <3>2, <1>s
    <2> QED
      BY <1>3, <2>1, <2>p, <1>z, <1>b, <1>e, <1>f DEF ResolveFunctionDeclaration
  <1>4. CASE ResolvePolymorphicFunction(i)
    <2>p. /\ Passes(i, "Done")
          /\ jobs[i].kind # "ResolveFunctionDeclaration"
      BY <1>4, <1>u DEF ResolvePolymorphicFunction, Handling, Generated
    <2>1. ASSUME NEW new \in process_scope(FALSE, TRUE), Finish(i, i, new)
          PROVE  RanOrFailed(i)
      <3>1. new \in NewWork /\ Owned(i, TRUE, new)
        BY <2>p, ScopeJobsNew, OwnedScope
      <3> QED
        BY <2>1, <2>p, <3>1, <1>s
    <2> QED
      BY <1>4, <2>1, <1>b, <1>f DEF ResolvePolymorphicFunction
  <1>5. ASSUME NEW kind \in JobKind \ Generated, ResolveDefinition(i, kind)
        PROVE  RanOrFailed(i)
    <2>p. Passes(i, "Done")
      BY <1>5, <1>u DEF ResolveDefinition, Handling
    <2> QED
      BY <1>5, <2>p, <1>z, <1>b, <1>e, <1>f DEF ResolveDefinition
  <1>6. CASE GenerateFunction(i)
    <2>1. ASSUME NEW called \in GenerateCalled, Finish(i, 0, called),
                 NEW constants \in SeqOf({0}, MaxStatics),
                 runtime_statics' = Append(runtime_statics, i) \o constants
          PROVE  RanOrFailed(i)
      <3>1. PassedOn(i)
        BY <2>1, SeqOfIsSeq, ConstantsAssumption DEF PassedOn
      <3>2. Passes(i, "Done")
        BY <1>6, <3>1, <1>a DEF GenerateFunction, Handling, Generated
      <3> QED
        BY <2>1, <3>2, <1>z, CalledJobsNew, OwnedCalled
    <2>2. ASSUME NEW called \in GenerateCalled,
                 Blocks(i, RuntimeResults, called)
          PROVE  RanOrFailed(i)
      BY <2>2, <1>c, CalledJobsNew, OwnedCalled
    <2> QED
      BY <1>6, <2>1, <2>2, <1>f DEF GenerateFunction
  <1>7. CASE GenerateStaticVariable(i)
    <2>1. ASSUME runtime_statics' = Append(runtime_statics, i)
          PROVE  Passes(i, "Done")
      <3>1. Append(runtime_statics, i) \in Seq({0} \cup DOMAIN jobs)
        BY AppendProperties DEF TypeOK
      <3>2. runtime_statics' = Append(runtime_statics, i) \o <<>>
        BY <2>1, <3>1, ConcatEmptySeq
      <3>3. PassedOn(i)
        BY <3>2, EmptySeq DEF PassedOn
      <3> QED
        BY <1>7, <3>3, <1>a DEF GenerateStaticVariable, Handling, Generated
    <2> QED
      BY <1>7, <2>1, <1>z, <1>b, <1>e, <1>f DEF GenerateStaticVariable
  <1>8. CASE ResolveEnumDefinition(i)
    <2>p. Passes(i, "Done")
      BY <1>8, <1>u DEF ResolveEnumDefinition, Handling, Generated
    <2>1. ASSUME NEW new \in UnnoticedWait,
                 Finish(i, 0, new) \/ Blocks(i, ConstantResults, new)
          PROVE  RanOrFailed(i)
      BY <2>1, <2>p, <1>z, <1>c, UnnoticedWaitNew, OwnedUnnoticed
    <2> QED
      BY <1>8, <2>1, <1>f DEF ResolveEnumDefinition
  <1>9. \A kind \in {"ResolveStructDefinition", "ResolvePolymorphicStruct",
                     "ResolveUnionDefinition", "ResolvePolymorphicUnion"} :
          ResolveDefinition(i, kind) => RanOrFailed(i)
    BY <1>5 DEF JobKind, DeclarationKinds, PolymorphicKinds, Generated
  <1>10. CASE ResolveConstantDefinition(i)
    <2>p. Passes(i, "Done")
      BY <1>10, <1>u DEF ResolveConstantDefinition, Handling, Generated
    <2>1. ~ Done(i)
      BY HandlerGuard DEF Runnable, Done
    <2>2. {0} \cup Reachable(jobs[i].is_local) \subseteq Nat \ {i}
      BY <1>i, <2>1 DEF Reachable, FunctionValues, TypeOK
    <2>3. ASSUME NEW function \in {0} \cup Reachable(jobs[i].is_local),
                 Finish(i, function, <<>>)
          PROVE  RanOrFailed(i)
      BY <2>3, <2>2, <2>p, <1>o, <1>e
    <2> QED
      BY <1>10, <2>3, <1>b, <1>f DEF ResolveConstantDefinition
  <1> QED
    BY <1>1, <1>2, <1>3, <1>4, <1>6, <1>7, <1>8, <1>9, <1>10
       DEF Handle, ResolveStructDefinition, ResolvePolymorphicStruct,
           ResolveUnionDefinition, ResolvePolymorphicUnion

-----------------------------------------------------------------------------
(* Type correctness.                                                       *)

(* The list keeps its jobs: what was at an index stays there.              *)
Grows ==
    /\ Len(jobs') >= Len(jobs)
    /\ DOMAIN jobs \subseteq DOMAIN jobs'

JobsTypeOK ==
    /\ jobs \in Seq(Job)
    /\ \A i \in DOMAIN jobs :
          jobs[i].state = "Waiting" => jobs[i].waiting_for \in DOMAIN jobs

LEMMA RanJobTypes ==
    ASSUME TypeOK, NEW i \in DOMAIN jobs, NEW job \in Job,
           NEW new \in Seq(FreshJob), RanJob(i, job, new)
    PROVE  JobsTypeOK' /\ Grows
  <1>l. jobs \in Seq(Job) /\ jobs' = Updated(jobs, i, job, new)
    BY DEF TypeOK, RanJob
  <1>0. /\ DOMAIN jobs = 1 .. Len(jobs)
        /\ Len(jobs) \in Nat /\ Len(new) \in Nat
    BY <1>l
  <1>1. /\ jobs' \in Seq(Job)
        /\ Len(jobs') = Len(jobs) + Len(new)
        /\ DOMAIN jobs' = 1 .. Len(jobs) + Len(new)
        /\ \A k \in DOMAIN jobs :
              jobs'[k] = IF k = i THEN job ELSE jobs[k]
        /\ \A k \in 1 .. Len(new) : jobs'[Len(jobs) + k] = new[k]
    <2>1. /\ jobs' \in Seq(Job)
          /\ Len(jobs') = Len(jobs) + Len(new)
          /\ \A k \in DOMAIN jobs :
                jobs'[k] = IF k = i THEN job ELSE jobs[k]
      BY <1>l, UpdatedList
    <2>2. DOMAIN jobs' = 1 .. Len(jobs) + Len(new)
      BY <1>l, UpdatedList
    <2>3. \A k \in 1 .. Len(new) : jobs'[Len(jobs) + k] = new[k]
      BY <1>l, UpdatedList
    <2> QED
      BY <2>1, <2>2, <2>3
  <1>2. Grows
    BY <1>0, <1>1 DEF Grows
  <1>3. ASSUME NEW k \in DOMAIN jobs', jobs'[k].state = "Waiting"
        PROVE  jobs'[k].waiting_for \in DOMAIN jobs'
    <2>1. CASE k = i
      BY <2>1, <1>0, <1>1, <1>3 DEF RanJob, LeftBehind
    <2>2. CASE k \in DOMAIN jobs /\ k # i
      BY <2>2, <1>0, <1>1, <1>2, <1>3 DEF TypeOK, Grows
    <2>3. CASE k \notin DOMAIN jobs
      <3>1. PICK m \in 1 .. Len(new) : k = Len(jobs) + m
        <4>1. k - Len(jobs) \in 1 .. Len(new) /\ k = Len(jobs) + (k - Len(jobs))
          BY <2>3, <1>0, <1>1
        <4> QED
          BY <4>1
      <3>2. jobs'[k] = new[m] /\ new[m] \in FreshJob
        BY <3>1, <1>1, ElementOfSeq
      <3> QED
        BY <3>2, <1>3 DEF FreshJob
    <2> QED
      BY <2>1, <2>2, <2>3
  <1> QED
    BY <1>1, <1>2, <1>3 DEF JobsTypeOK

LEMMA IndicesKept ==
    ASSUME TypeOK, Grows, NEW i \in DOMAIN jobs
    PROVE  /\ runtime_statics \in Seq({0} \cup DOMAIN jobs')
           /\ PassedOn(i) => runtime_statics' \in Seq({0} \cup DOMAIN jobs')
  <1>0. {0} \cup DOMAIN jobs \subseteq {0} \cup DOMAIN jobs'
    BY DEF Grows
  <1>1. runtime_statics \in Seq({0} \cup DOMAIN jobs')
    BY <1>0, SeqMonotonic DEF TypeOK
  <1>2. Append(runtime_statics, i) \in Seq({0} \cup DOMAIN jobs')
    BY <1>0, <1>1, AppendProperties
  <1>3. \A constants \in Seq({0}) : constants \in Seq({0} \cup DOMAIN jobs')
    BY SeqMonotonic
  <1>4. \A constants \in Seq({0}) :
          Append(runtime_statics, i) \o constants \in Seq({0} \cup DOMAIN jobs')
    BY <1>2, <1>3, ConcatProperties
  <1> QED
    BY <1>1, <1>4 DEF PassedOn

LEMMA InitTypes == Init => TypeOK
  <1> SUFFICES ASSUME Init PROVE TypeOK
    OBVIOUS
  <1>1. NewJob("ParseFile", MainPath, 0) \in FreshJob
    BY NewJobFresh, ConstantsAssumption DEF JobKind
  <1>2. jobs \in Seq(Job) /\ Len(jobs) = 1 /\ jobs[1].state = "Working"
    BY <1>1 DEF Init, FreshJob
  <1>3. DOMAIN jobs = {1}
    BY <1>2
  <1>4. runtime_statics \in Seq({0} \cup DOMAIN jobs)
    BY EmptySeq DEF Init
  <1>5. \A i \in DOMAIN jobs :
          jobs[i].state = "Waiting" => jobs[i].waiting_for \in DOMAIN jobs
    BY <1>2, <1>3
  <1> QED
    BY <1>2, <1>3, <1>4, <1>5 DEF Init, TypeOK

LEMMA HandlerTypes ==
    ASSUME TypeOK, NEW i \in DOMAIN jobs, Handle(i)
    PROVE  TypeOK' /\ Grows
  <1>g. MainUnchanged
    BY HandlerGuard
  <1>1. CASE pc' = "error" /\ UNCHANGED <<jobs, did_work, runtime_statics>>
    BY <1>1, <1>g DEF TypeOK, MainUnchanged, Grows, Finished, Done
  <1>2. ASSUME NEW job \in Job, NEW new \in NewWork, RanJob(i, job, new),
               Passes(i, job.state)
        PROVE  TypeOK' /\ Grows
    <2>1. JobsTypeOK' /\ Grows
      BY <1>2, RanJobTypes DEF NewWork
    <2>2. runtime_statics' \in Seq({0} \cup DOMAIN jobs')
      BY <1>2, <2>1, IndicesKept DEF Passes
    <2>3. pc' = "main" /\ did_work' = TRUE
      BY <1>2 DEF RanJob
    <2> QED
      BY <1>g, <2>1, <2>2, <2>3 DEF TypeOK, JobsTypeOK, Grows, MainUnchanged
  <1> QED
    BY <1>1, <1>2, HandlerStep DEF RanOrFailed

LEMMA MainWaitsTypes ==
    ASSUME TypeOK, MainWaits
    PROVE  TypeOK' /\ Grows
  <1>1. CASE \E w \in Unfinished(ConstantResults) :
               main_waiting_for' = w /\ UNCHANGED jobs
    <2>1. main_waiting_for' \in DOMAIN jobs' /\ UNCHANGED jobs
      BY <1>1 DEF Unfinished
    <2>2. Grows
      BY <2>1 DEF Grows, TypeOK
    <2> QED
      BY <2>1, <2>2 DEF TypeOK, MainWaits, NextPass
  <1>2. ASSUME NEW inst \in NewInstances(jobs), NEW job \in FreshJob,
               jobs' = jobs \o <<job>>, main_waiting_for' = Len(jobs) + 1
        PROVE  TypeOK' /\ Grows
    <2>0. jobs \in Seq(Job) /\ job \in Job /\ job.state = "Working"
      BY DEF TypeOK, FreshJob
    <2>1. jobs' = Append(jobs, job)
      BY <1>2, <2>0
    <2>2. /\ jobs' \in Seq(Job)
          /\ Len(jobs') = Len(jobs) + 1
          /\ \A k \in 1 .. Len(jobs) : jobs'[k] = jobs[k]
          /\ jobs'[Len(jobs) + 1] = job
      BY <2>0, <2>1, AppendProperties
    <2>3. /\ DOMAIN jobs = 1 .. Len(jobs) /\ Len(jobs) \in Nat
          /\ DOMAIN jobs' = 1 .. Len(jobs) + 1
      BY <2>0, <2>2
    <2>4. Grows
      BY <2>2, <2>3 DEF Grows
    <2>5. ASSUME NEW k \in DOMAIN jobs', jobs'[k].state = "Waiting"
          PROVE  jobs'[k].waiting_for \in DOMAIN jobs'
      <3>1. k \in DOMAIN jobs
        BY <2>0, <2>2, <2>3, <2>5
      <3> QED
        BY <3>1, <2>2, <2>3, <2>4, <2>5 DEF TypeOK, Grows
    <2>6. /\ main_waiting_for' \in DOMAIN jobs'
          /\ main_function' \in {0} \cup DOMAIN jobs'
          /\ runtime_statics' \in Seq({0} \cup DOMAIN jobs')
      <3>1. UNCHANGED <<main_function, runtime_statics>>
        BY DEF MainWaits
      <3>2. runtime_statics \in Seq({0} \cup DOMAIN jobs')
        BY <2>4, IndicesKept DEF TypeOK
      <3> QED
        BY <1>2, <2>3, <2>4, <3>1, <3>2 DEF TypeOK, Grows
    <2>7. /\ pc' \in {"scan", "main", "report"} \cup Finished
          /\ did_work' \in BOOLEAN /\ main_operand' \in BOOLEAN
          /\ main_state' \in {"Waiting", "Done"}
      BY DEF MainWaits, NextPass, TypeOK
    <2> QED
      BY <2>2, <2>4, <2>5, <2>6, <2>7 DEF TypeOK
  <1>3. \A inst \in NewInstances(jobs) : InstanceJob(inst) \in FreshJob
    BY InstanceJobFresh DEF NewInstances
  <1> QED
    BY <1>1, <1>2, <1>3 DEF MainWaits

LEMMA NextTypes == TypeOK /\ [Next]_vars => TypeOK'
  <1> SUFFICES ASSUME TypeOK, [Next]_vars PROVE TypeOK'
    OBVIOUS
  <1>1. ASSUME NEW i \in DOMAIN jobs, Handle(i) PROVE TypeOK'
    BY <1>1, HandlerTypes
  <1>2. CASE NothingToRun
    BY <1>2 DEF NothingToRun, TypeOK, MainUnchanged
  <1>3. CASE MainNotReady
    BY <1>3 DEF MainNotReady, TypeOK, MainUnchanged, NextPass
  <1>4. CASE MainWaits
    BY <1>4, MainWaitsTypes
  <1>5. CASE MainFails
    BY <1>5 DEF MainFails, Fails, TypeOK, MainUnchanged, Finished
  <1>6. ASSUME NEW owner \in FunctionValues, MainFound(owner)
        PROVE  TypeOK'
    <2>1. GenerateJobs(owner, jobs) \subseteq DOMAIN jobs
      BY DEF GenerateJobs
    <2> QED
      BY <1>6, <2>1 DEF MainFound, TypeOK, NextPass, Finished
  <1>7. CASE Report
    BY <1>7 DEF Report, TypeOK, MainUnchanged, Finished
  <1>8. CASE UNCHANGED vars
    BY <1>8 DEF vars, TypeOK
  <1> QED
    BY <1>1, <1>2, <1>3, <1>4, <1>5, <1>6, <1>7, <1>8 DEF Next, Stopped

(* The variables keep their types and every index names a job, whatever    *)
(* the program: jobs[job->waiting_for] (main.cpp:519) and                  *)
(* jobs[main_function_waiting_for] (main.cpp:1005) stay inside the list.   *)
THEOREM TypeCorrect == Spec => []TypeOK
  <1>1. Init => TypeOK
    BY InitTypes
  <1>2. TypeOK /\ [Next]_vars => TypeOK'
    BY NextTypes
  <1> QED
    BY <1>1, <1>2, PTL DEF Spec

-----------------------------------------------------------------------------
(* A circular dependency is real.                                          *)

Quiet == \A i \in DOMAIN jobs : ~ Runnable(i)

(* What the loop knows on leaving: a pass that ran nothing saw every job   *)
(* of the list, and neither that pass nor the step for 'main' after it     *)
(* changed any.                                                            *)
LoopInv ==
    /\ pc = "scan" => ~ did_work
    /\ pc = "main" /\ ~ did_work => Quiet
    /\ pc \in {"report", "circular", "abort", "codegen"} => Quiet
    /\ pc \in {"circular", "abort"} => UndoneJobs # {}
    /\ pc = "codegen" => UndoneJobs = {}

LEMMA QuietKept ==
    ASSUME Quiet, UNCHANGED jobs
    PROVE  Quiet'
  BY DEF Quiet, Runnable, Done

LEMMA LoopInvInductive == TypeOK /\ LoopInv /\ [Next]_vars => LoopInv'
  <1> SUFFICES ASSUME TypeOK, LoopInv, [Next]_vars PROVE LoopInv'
    OBVIOUS
  <1>1. ASSUME NEW i \in DOMAIN jobs, Handle(i) PROVE LoopInv'
    <2>1. \/ pc' = "error"
          \/ pc' = "main" /\ did_work' = TRUE
      BY <1>1, HandlerStep DEF RanOrFailed, RanJob
    <2> QED
      BY <2>1 DEF LoopInv
  <1>2. CASE NothingToRun
    <2>1. Quiet /\ pc' = "main" /\ UNCHANGED jobs
      BY <1>2 DEF NothingToRun, Quiet
    <2> QED
      BY <2>1, QuietKept DEF LoopInv
  <1>3. CASE MainNotReady
    <2>1. CASE did_work
      BY <1>3, <2>1 DEF MainNotReady, NextPass, LoopInv
    <2>2. CASE ~ did_work
      <3>1. Quiet /\ UNCHANGED jobs /\ pc' = "report"
        BY <1>3, <2>2 DEF MainNotReady, LoopInv
      <3> QED
        BY <3>1, QuietKept DEF LoopInv
    <2> QED
      BY <2>1, <2>2
  <1>4. CASE MainWaits
    BY <1>4 DEF MainWaits, NextPass, LoopInv
  <1>5. CASE MainFails
    BY <1>5 DEF MainFails, Fails, LoopInv
  <1>6. ASSUME NEW owner \in FunctionValues, MainFound(owner)
        PROVE  LoopInv'
    BY <1>6 DEF MainFound, NextPass, LoopInv
  <1>7. CASE Report
    <2>1. Quiet /\ UNCHANGED jobs
      BY <1>7 DEF Report, LoopInv
    <2>2. UndoneJobs' = UndoneJobs
      BY <2>1 DEF UndoneJobs, Done
    <2>3. pc' \in {"circular", "abort"} => UndoneJobs # {}
      BY <1>7 DEF Report, UndoneJobs
    <2>4. pc' = "codegen" => UndoneJobs = {}
      BY <1>7 DEF Report, UndoneJobs
    <2>5. pc' \in {"codegen", "circular", "abort"}
      BY <1>7 DEF Report
    <2> QED
      BY <2>1, <2>2, <2>3, <2>4, <2>5, QuietKept DEF LoopInv
  <1>8. CASE UNCHANGED vars
    <2>1. UNCHANGED <<jobs, pc, did_work>> /\ UndoneJobs' = UndoneJobs
      BY <1>8 DEF vars, UndoneJobs, Done
    <2> QED
      BY <2>1, QuietKept DEF LoopInv
  <1> QED
    BY <1>1, <1>2, <1>3, <1>4, <1>5, <1>6, <1>7, <1>8 DEF Next, Stopped

LEMMA QuietIsCircular ==
    ASSUME TypeOK, Quiet, NEW i \in UndoneJobs
    PROVE  jobs[i].state = "Waiting" /\ jobs[i].waiting_for \in UndoneJobs
  <1>1. i \in DOMAIN jobs /\ jobs[i] \in Job /\ jobs[i].state # "Done"
    BY DEF UndoneJobs, Done, TypeOK
  <1>2. jobs[i].state = "Waiting"
    BY <1>1 DEF Quiet, Runnable, Job, JobState
  <1>3. ~ Done(jobs[i].waiting_for)
    BY <1>1, <1>2 DEF Quiet, Runnable
  <1> QED
    BY <1>1, <1>2, <1>3 DEF TypeOK, UndoneJobs

(* However long the queue grew, "Circular dependency detected"             *)
(* (main.cpp:1120) is reported only when the unfinished jobs all wait for  *)
(* one another: the single pass that ran nothing is proof enough.          *)
THEOREM CircularIsReal == Spec => []CircularReportIsReal
  <1>1. Init => LoopInv
    BY DEF Init, LoopInv
  <1>2. TypeOK /\ LoopInv /\ [Next]_vars => LoopInv'
    BY LoopInvInductive
  <1>3. TypeOK /\ LoopInv => CircularReportIsReal
    BY QuietIsCircular DEF LoopInv, CircularReportIsReal
  <1> QED
    BY <1>1, <1>2, <1>3, TypeCorrect, PTL DEF Spec

-----------------------------------------------------------------------------
(* Results are final.                                                      *)

LEMMA HandlerKeepsResults ==
    ASSUME TypeOK, NEW i \in DOMAIN jobs, Handle(i), NEW k \in DOMAIN jobs
    PROVE  /\ k \in DOMAIN jobs'
           /\ jobs'[k].kind = jobs[k].kind
           /\ jobs'[k].key = jobs[k].key
           /\ jobs'[k].owner = jobs[k].owner
           /\ Done(k) => jobs'[k] = jobs[k]
  <1>1. ASSUME NEW job \in Job, NEW new \in Seq(FreshJob), RanJob(i, job, new)
        PROVE  /\ jobs'[k] = IF k = i THEN job ELSE jobs[k]
               /\ job.kind = jobs[i].kind
               /\ job.key = jobs[i].key
               /\ job.owner = jobs[i].owner
    <2>1. jobs \in Seq(Job) /\ jobs' = Updated(jobs, i, job, new)
      BY <1>1 DEF TypeOK, RanJob
    <2>2. jobs'[k] = IF k = i THEN job ELSE jobs[k]
      BY <2>1, UpdatedList
    <2> QED
      BY <1>1, <2>2 DEF RanJob, LeftBehind
  <1>2. Runnable(i)
    BY HandlerGuard
  <1>3. ~ Done(i)
    BY <1>2 DEF Runnable, Done
  <1>4. k \in DOMAIN jobs'
    BY HandlerTypes DEF Grows
  <1>5. CASE UNCHANGED jobs
    BY <1>5
  <1>6. CASE \E job \in Job, new \in NewWork : RanJob(i, job, new)
    BY <1>1, <1>3, <1>4, <1>6 DEF NewWork
  <1> QED
    BY <1>5, <1>6, HandlerStep DEF RanOrFailed

LEMMA MainKeepsResults ==
    ASSUME TypeOK, MainWaits, NEW k \in DOMAIN jobs
    PROVE  k \in DOMAIN jobs' /\ jobs'[k] = jobs[k]
  <1>1. k \in DOMAIN jobs'
    BY MainWaitsTypes DEF Grows
  <1>2. CASE UNCHANGED jobs
    BY <1>2
  <1>3. ASSUME NEW inst \in NewInstances(jobs),
               jobs' = jobs \o <<InstanceJob(inst)>>
        PROVE  jobs'[k] = jobs[k]
    BY <1>3 DEF TypeOK
  <1> QED
    BY <1>1, <1>2, <1>3 DEF MainWaits

(* Whatever a job found in the list before it suspended is still there,    *)
(* and still means the same, when it is started over: no step changes a    *)
(* done job or the identity of any.                                        *)
THEOREM FinalResults == Spec => ResultsAreFinal
  <1> DEFINE Kept == \A i \in DOMAIN jobs :
                /\ i \in DOMAIN jobs'
                /\ jobs'[i].kind = jobs[i].kind
                /\ jobs'[i].key = jobs[i].key
                /\ jobs'[i].owner = jobs[i].owner
                /\ Done(i) => jobs'[i] = jobs[i]
  <1>1. TypeOK /\ [Next]_vars => [Kept]_vars
    <2> SUFFICES ASSUME TypeOK, Next PROVE Kept
      OBVIOUS
    <2>1. ASSUME NEW i \in DOMAIN jobs, Handle(i) PROVE Kept
      BY <2>1, HandlerKeepsResults
    <2>2. CASE MainWaits
      BY <2>2, MainKeepsResults
    <2>3. CASE UNCHANGED jobs
      BY <2>3
    <2> QED
      BY <2>1, <2>2, <2>3
         DEF Next, NothingToRun, MainNotReady, MainFails, Fails, MainFound,
             Report, Stopped, vars
  <1>2. [][Kept]_vars => ResultsAreFinal
    BY DEF ResultsAreFinal
  <1> QED
    BY <1>1, <1>2, TypeCorrect, PTL DEF Spec

-----------------------------------------------------------------------------
(* No work is queued twice, over all runs.                                 *)

LEMMA SameWorkSameIdentity ==
    ASSUME NEW a, NEW b, NEW c, NEW d,
           a.kind = c.kind, a.key = c.key, a.owner = c.owner,
           b.kind = d.kind, b.key = d.key, b.owner = d.owner,
           SameWork(a, b)
    PROVE  SameWork(c, d)
  BY DEF SameWork

LEMMA RanJobDistinct ==
    ASSUME TypeOK, NoWorkTwice, NEW i \in DOMAIN jobs, NEW job \in Job,
           NEW new \in NewWork, RanJob(i, job, new)
    PROVE  NoWorkTwice'
  <1> DEFINE all == jobs \o new
  <1>l. /\ jobs \in Seq(Job) /\ jobs' = Updated(jobs, i, job, new)
        /\ new \in Seq(FreshJob)
    BY DEF TypeOK, RanJob, NewWork
  <1>j. /\ job.kind = jobs[i].kind
        /\ job.key = jobs[i].key
        /\ job.owner = jobs[i].owner
    BY DEF RanJob, LeftBehind
  <1>1. Distinct(all)
    BY DEF NewWork, NoWorkTwice, Distinct
  <1>2. DOMAIN jobs' = 1 .. Len(jobs) + Len(new)
    BY <1>l, UpdatedList
  <1>3. \A k \in DOMAIN jobs : jobs'[k] = IF k = i THEN job ELSE jobs[k]
    BY <1>l, UpdatedList
  <1>4. \A k \in 1 .. Len(new) : jobs'[Len(jobs) + k] = new[k]
    BY <1>l, UpdatedList
  <1>5. /\ Len(jobs) \in Nat /\ Len(new) \in Nat
        /\ DOMAIN jobs = 1 .. Len(jobs)
    BY <1>l
  <1>6. /\ DOMAIN all = 1 .. Len(jobs) + Len(new)
        /\ \A k \in 1 .. Len(jobs) : all[k] = jobs[k]
        /\ \A k \in 1 .. Len(new) : all[Len(jobs) + k] = new[k]
    <2>1. new \in Seq(Job)
      BY <1>l, SeqMonotonic DEF FreshJob
    <2>2. /\ all \in Seq(Job)
          /\ Len(all) = Len(jobs) + Len(new)
          /\ \A m \in 1 .. Len(jobs) + Len(new) :
                all[m] = IF m <= Len(jobs) THEN jobs[m] ELSE new[m - Len(jobs)]
      BY <1>l, <2>1, ConcatProperties
    <2> HIDE DEF all
    <2> QED
      BY <2>2, <1>5
  <1> HIDE DEF all
  <1>7. ASSUME NEW k \in DOMAIN jobs'
        PROVE  /\ k \in DOMAIN all
               /\ jobs'[k].kind = all[k].kind
               /\ jobs'[k].key = all[k].key
               /\ jobs'[k].owner = all[k].owner
    <2>1. CASE k <= Len(jobs)
      BY <1>2, <1>3, <1>5, <1>6, <1>j, <2>1
    <2>2. CASE ~ (k <= Len(jobs))
      <3>1. k - Len(jobs) \in 1 .. Len(new) /\ Len(jobs) + (k - Len(jobs)) = k
        BY <1>2, <1>5, <2>2
      <3>2. jobs'[k] = new[k - Len(jobs)] /\ all[k] = new[k - Len(jobs)]
        BY <1>4, <1>6, <3>1
      <3> QED
        BY <1>2, <1>6, <3>2
    <2> QED
      BY <2>1, <2>2
  <1>8. ASSUME NEW m \in DOMAIN jobs', NEW n \in DOMAIN jobs',
               SameWork(jobs'[m], jobs'[n])
        PROVE  m = n
    <2>1. SameWork(all[m], all[n])
      BY <1>7, <1>8, SameWorkSameIdentity
    <2> QED
      BY <1>1, <1>7, <2>1 DEF Distinct
  <1> QED
    BY <1>8 DEF NoWorkTwice

LEMMA MainWaitsDistinct ==
    ASSUME TypeOK, NoWorkTwice, MainWaits
    PROVE  NoWorkTwice'
  <1>1. CASE UNCHANGED jobs
    BY <1>1 DEF NoWorkTwice
  <1>2. ASSUME NEW inst \in NewInstances(jobs),
               jobs' = jobs \o <<InstanceJob(inst)>>
        PROVE  NoWorkTwice'
    <2> DEFINE job == InstanceJob(inst)
    <2>1. jobs \o <<>> = jobs
      BY ConcatEmptySeq DEF TypeOK
    <2>2. Append(<<>>, job) \in NewWork
      BY <2>1, NoNewWork, InstanceJobNew
    <2>3. Append(<<>>, job) = <<job>>
      OBVIOUS
    <2>4. Distinct(jobs')
      BY <1>2, <2>2, <2>3 DEF NewWork, NoWorkTwice, Distinct
    <2> QED
      BY <2>4 DEF NoWorkTwice, Distinct
  <1> QED
    BY <1>1, <1>2 DEF MainWaits

(* A path is parsed, an instance resolved and a function generated by one  *)
(* job at most, for any number of files, instances, retries and importers. *)
THEOREM WorkIsDoneOnce == Spec => []NoWorkTwice
  <1>1. Init => NoWorkTwice
    <2> SUFFICES ASSUME Init PROVE NoWorkTwice
      OBVIOUS
    <2>1. DOMAIN jobs = {1}
      BY DEF Init
    <2> QED
      BY <2>1 DEF NoWorkTwice
  <1>2. TypeOK /\ NoWorkTwice /\ [Next]_vars => NoWorkTwice'
    <2> SUFFICES ASSUME TypeOK, NoWorkTwice, [Next]_vars PROVE NoWorkTwice'
      OBVIOUS
    <2>1. ASSUME NEW i \in DOMAIN jobs, Handle(i) PROVE NoWorkTwice'
      <3>1. CASE UNCHANGED jobs
        BY <3>1 DEF NoWorkTwice
      <3>2. CASE \E job \in Job, new \in NewWork : RanJob(i, job, new)
        BY <3>2, RanJobDistinct
      <3> QED
        BY <2>1, <3>1, <3>2, HandlerStep DEF RanOrFailed
    <2>2. CASE MainWaits
      BY <2>2, MainWaitsDistinct
    <2>3. CASE UNCHANGED jobs
      BY <2>3 DEF NoWorkTwice
    <2> QED
      BY <2>1, <2>2, <2>3
         DEF Next, NothingToRun, MainNotReady, MainFails, Fails, MainFound,
             Report, Stopped, vars
  <1> QED
    BY <1>1, <1>2, TypeCorrect, PTL DEF Spec
-----------------------------------------------------------------------------
(* Functions are generated.                                                *)

(* Only a job that is done is known to be a function.                      *)
FunctionsAreDone == \A i \in DOMAIN jobs : jobs[i].function # 0 => Done(i)

(* What a handler leaves: its own job, the others as they were, and the    *)
(* new ones; the list that handlers search is this one but for states.     *)
LEMMA RanJobList ==
    ASSUME TypeOK, NEW i \in DOMAIN jobs, NEW job \in Job,
           NEW new \in NewWork, RanJob(i, job, new)
    PROVE  /\ jobs'[i] = job
           /\ \A k \in DOMAIN jobs : k # i => jobs'[k] = jobs[k]
           /\ \A k \in DOMAIN jobs' \ DOMAIN jobs :
                 jobs'[k] \in FreshJob /\ \E n \in DOMAIN new : jobs'[k] = new[n]
           /\ \A k \in DOMAIN (jobs \o new) :
                 /\ k \in DOMAIN jobs'
                 /\ jobs'[k].kind = (jobs \o new)[k].kind
                 /\ jobs'[k].owner = (jobs \o new)[k].owner
  <1> DEFINE all == jobs \o new
  <1>l. /\ jobs \in Seq(Job) /\ jobs' = Updated(jobs, i, job, new)
        /\ new \in Seq(FreshJob)
    BY DEF TypeOK, RanJob, NewWork
  <1>j. job.kind = jobs[i].kind /\ job.owner = jobs[i].owner
    BY DEF RanJob, LeftBehind
  <1>2. DOMAIN jobs' = 1 .. Len(jobs) + Len(new)
    BY <1>l, UpdatedList
  <1>3. \A k \in DOMAIN jobs : jobs'[k] = IF k = i THEN job ELSE jobs[k]
    BY <1>l, UpdatedList
  <1>4. \A k \in 1 .. Len(new) : jobs'[Len(jobs) + k] = new[k]
    BY <1>l, UpdatedList
  <1>5. /\ Len(jobs) \in Nat /\ Len(new) \in Nat
        /\ DOMAIN jobs = 1 .. Len(jobs) /\ DOMAIN new = 1 .. Len(new)
    BY <1>l
  <1>6. ASSUME NEW k \in DOMAIN jobs' \ DOMAIN jobs
        PROVE  /\ k - Len(jobs) \in DOMAIN new
               /\ jobs'[k] = new[k - Len(jobs)]
               /\ new[k - Len(jobs)] \in FreshJob
    <2>1. k - Len(jobs) \in 1 .. Len(new) /\ Len(jobs) + (k - Len(jobs)) = k
      BY <1>2, <1>5
    <2> QED
      BY <1>l, <1>4, <1>5, <2>1, ElementOfSeq
  <1>7. /\ DOMAIN all = 1 .. Len(jobs) + Len(new)
        /\ \A k \in 1 .. Len(jobs) + Len(new) :
              all[k] = IF k <= Len(jobs) THEN jobs[k] ELSE new[k - Len(jobs)]
    <2>1. new \in Seq(Job)
      BY <1>l, SeqMonotonic DEF FreshJob
    <2>2. /\ all \in Seq(Job)
          /\ Len(all) = Len(jobs) + Len(new)
          /\ \A m \in 1 .. Len(jobs) + Len(new) :
                all[m] = IF m <= Len(jobs) THEN jobs[m] ELSE new[m - Len(jobs)]
      BY <1>l, <2>1, ConcatProperties
    <2> HIDE DEF all
    <2> QED
      BY <2>2, <1>5
  <1> HIDE DEF all
  <1>8. ASSUME NEW k \in DOMAIN all
        PROVE  /\ k \in DOMAIN jobs'
               /\ jobs'[k].kind = all[k].kind
               /\ jobs'[k].owner = all[k].owner
    <2>1. CASE k <= Len(jobs)
      BY <1>2, <1>3, <1>5, <1>7, <1>j, <2>1
    <2>2. CASE ~ (k <= Len(jobs))
      BY <1>2, <1>5, <1>6, <1>7, <2>2
    <2> QED
      BY <2>1, <2>2
  <1> QED
    BY <1>3, <1>6, <1>8 DEF all

LEMMA RanJobFunctions ==
    ASSUME TypeOK, FunctionsAreDone, FunctionsAreGenerated,
           NEW i \in DOMAIN jobs, ~ Done(i), NEW job \in Job, NEW new \in NewWork,
           RanJob(i, job, new), Owned(i, Answers(i, job), new)
    PROVE  FunctionsAreDone' /\ FunctionsAreGenerated'
  <1> DEFINE all == jobs \o new
  <1>j. /\ job.kind = jobs[i].kind /\ job.owner = jobs[i].owner
        /\ job.state = "Done" \/ job.function = jobs[i].function
    BY DEF RanJob, LeftBehind
  <1>1. jobs'[i] = job
    BY RanJobList
  <1>2. \A k \in DOMAIN jobs : k # i => jobs'[k] = jobs[k]
    BY RanJobList
  <1>3. \A k \in DOMAIN jobs' \ DOMAIN jobs :
          jobs'[k] \in FreshJob /\ \E n \in DOMAIN new : jobs'[k] = new[n]
    BY RanJobList
  <1>4. \A k \in DOMAIN all : /\ k \in DOMAIN jobs'
                              /\ jobs'[k].kind = all[k].kind
                              /\ jobs'[k].owner = all[k].owner
    BY RanJobList
  <1> HIDE DEF all
  <1>5. DOMAIN jobs \subseteq DOMAIN jobs'
    BY RanJobTypes DEF Grows, NewWork
  <1>0. \A k \in DOMAIN jobs' : k # 0
    BY RanJobTypes DEF NewWork, JobsTypeOK
  <1>6. jobs[i].function = 0
    BY DEF FunctionsAreDone
  <1>7. /\ job.function # 0 => job.state = "Done"
        /\ job.function = i => Answers(i, job)
    BY <1>0, <1>5, <1>6, <1>j DEF Answers
  <1>8. FunctionsAreDone'
    <2> SUFFICES ASSUME NEW k \in DOMAIN jobs', jobs'[k].function # 0
                 PROVE  jobs'[k].state = "Done"
      BY DEF FunctionsAreDone, Done
    <2>1. CASE k = i
      BY <1>1, <1>7, <2>1
    <2>2. CASE k \in DOMAIN jobs /\ k # i
      BY <1>2, <2>2 DEF FunctionsAreDone, Done
    <2>3. CASE k \notin DOMAIN jobs
      BY <1>3, <2>3 DEF FreshJob
    <2> QED
      BY <2>1, <2>2, <2>3
  <1>9. FunctionValues \subseteq FunctionValues'
    <2> SUFFICES ASSUME NEW k \in DOMAIN jobs, Done(k), jobs[k].function = k
                 PROVE  /\ k \in DOMAIN jobs'
                        /\ jobs'[k].state = "Done" /\ jobs'[k].function = k
      BY DEF FunctionValues, Done
    <2> QED
      BY <1>2, <1>5 DEF Done
  <1>10. Answers(i, job) => i \in FunctionValues'
    BY <1>1, <1>5 DEF Answers, FunctionValues, Done
  <1>11. ASSUME NEW owner, GenerateJobs(owner, jobs) # {}
         PROVE  GenerateJobs(owner, jobs)' # {}
    <2>1. PICK n \in DOMAIN jobs :
            jobs[n].kind = "GenerateFunction" /\ jobs[n].owner = owner
      BY <1>11 DEF GenerateJobs
    <2>2. /\ n \in DOMAIN jobs'
          /\ jobs'[n].kind = "GenerateFunction" /\ jobs'[n].owner = owner
      BY <1>1, <1>2, <1>5, <1>j, <2>1
    <2> QED
      BY <2>2 DEF GenerateJobs
  <1>12. ASSUME NEW k \in DOMAIN jobs',
                jobs'[k].kind = "ResolveFunctionDeclaration", jobs'[k].function = k
         PROVE  GenerateJobs(k, jobs)' # {}
    <2>1. CASE k = i
      <3>1. GenerateJobs(i, all) # {}
        BY <1>1, <1>7, <1>12, <1>j, <2>1 DEF Owned, all
      <3>2. PICK n \in DOMAIN all : all[n].kind = "GenerateFunction" /\ all[n].owner = i
        BY <3>1 DEF GenerateJobs
      <3> QED
        BY <1>4, <2>1, <3>2 DEF GenerateJobs
    <2>2. CASE k \in DOMAIN jobs /\ k # i
      BY <1>2, <1>11, <1>12, <2>2 DEF FunctionsAreGenerated
    <2>3. CASE k \notin DOMAIN jobs
      BY <1>0, <1>3, <1>12, <2>3 DEF FreshJob
    <2> QED
      BY <2>1, <2>2, <2>3
  <1>13. ASSUME NEW k \in DOMAIN jobs', jobs'[k].kind = "GenerateFunction"
         PROVE  jobs'[k].owner \in FunctionValues'
    <2>1. CASE k \in DOMAIN jobs
      <3>1. jobs[k].kind = "GenerateFunction" /\ jobs'[k].owner = jobs[k].owner
        BY <1>1, <1>2, <1>13, <1>j, <2>1
      <3> QED
        BY <1>9, <2>1, <3>1 DEF FunctionsAreGenerated
    <2>2. CASE k \notin DOMAIN jobs
      <3>1. PICK n \in DOMAIN new : jobs'[k] = new[n]
        BY <1>3, <2>2
      <3>2. \/ new[n].owner \in FunctionValues
            \/ new[n].owner = i /\ Answers(i, job)
        BY <1>13, <3>1 DEF Owned
      <3> QED
        BY <1>9, <1>10, <3>1, <3>2
    <2> QED
      BY <2>1, <2>2
  <1>14. FunctionsAreGenerated'
    BY <1>12, <1>13 DEF FunctionsAreGenerated
  <1> QED
    BY <1>8, <1>14

LEMMA MainWaitsFunctions ==
    ASSUME TypeOK, FunctionsAreDone, FunctionsAreGenerated, MainWaits
    PROVE  FunctionsAreDone' /\ FunctionsAreGenerated'
  <1>1. CASE UNCHANGED jobs
    BY <1>1 DEF FunctionsAreDone, FunctionsAreGenerated, FunctionValues,
                GenerateJobs, Done
  <1>2. ASSUME NEW inst \in NewInstances(jobs), NEW job \in FreshJob,
               job.kind # "GenerateFunction", jobs' = jobs \o <<job>>
        PROVE  FunctionsAreDone' /\ FunctionsAreGenerated'
    <2>1. jobs \in Seq(Job) /\ job \in Job /\ job.function = 0
      BY DEF TypeOK, FreshJob
    <2>2. jobs' = Append(jobs, job)
      BY <1>2, <2>1
    <2>3. /\ \A k \in DOMAIN jobs : k \in DOMAIN jobs' /\ jobs'[k] = jobs[k]
          /\ \A k \in DOMAIN jobs' \ DOMAIN jobs : jobs'[k] = job
          /\ \A k \in DOMAIN jobs' : k # 0
      BY <2>1, <2>2, AppendProperties
    <2>4. FunctionsAreDone'
      BY <2>1, <2>3 DEF FunctionsAreDone, Done
    <2>5. FunctionValues \subseteq FunctionValues'
      BY <2>3 DEF FunctionValues, Done
    <2>6. \A owner : GenerateJobs(owner, jobs) \subseteq GenerateJobs(owner, jobs)'
      BY <2>3 DEF GenerateJobs
    <2>7. ASSUME NEW k \in DOMAIN jobs'
          PROVE  /\ jobs'[k].kind = "ResolveFunctionDeclaration" /\ jobs'[k].function = k
                      => GenerateJobs(k, jobs)' # {}
                 /\ jobs'[k].kind = "GenerateFunction"
                      => jobs'[k].owner \in FunctionValues'
      <3>1. CASE k \in DOMAIN jobs
        BY <2>3, <2>5, <2>6, <3>1 DEF FunctionsAreGenerated
      <3>2. CASE k \notin DOMAIN jobs
        BY <1>2, <2>1, <2>3, <3>2
      <3> QED
        BY <3>1, <3>2
    <2> QED
      BY <2>4, <2>7 DEF FunctionsAreGenerated
  <1>3. \A inst \in NewInstances(jobs) :
          /\ InstanceJob(inst) \in FreshJob
          /\ InstanceJob(inst).kind # "GenerateFunction"
    BY InstanceJobFresh DEF NewInstances
  <1> QED
    BY <1>1, <1>2, <1>3 DEF MainWaits

(* A function that is declared has a job that generates it, even when it   *)
(* is never called and however often its declaration was started over, and *)
(* what is generated is a function that a finished job evaluated to.       *)
THEOREM DeclaredAreGenerated == Spec => []FunctionsAreGenerated
  <1>1. Init => FunctionsAreDone /\ FunctionsAreGenerated
    <2> SUFFICES ASSUME Init PROVE FunctionsAreDone /\ FunctionsAreGenerated
      OBVIOUS
    <2>1. /\ DOMAIN jobs = {1} /\ jobs[1].kind = "ParseFile"
          /\ jobs[1].function = 0
      BY DEF Init, NewJob
    <2> QED
      BY <2>1 DEF FunctionsAreDone, FunctionsAreGenerated
  <1>2. TypeOK /\ FunctionsAreDone /\ FunctionsAreGenerated /\ [Next]_vars
          => FunctionsAreDone' /\ FunctionsAreGenerated'
    <2> SUFFICES ASSUME TypeOK, FunctionsAreDone, FunctionsAreGenerated, [Next]_vars
                 PROVE  FunctionsAreDone' /\ FunctionsAreGenerated'
      OBVIOUS
    <2>u. ASSUME UNCHANGED jobs
          PROVE  FunctionsAreDone' /\ FunctionsAreGenerated'
      BY <2>u DEF FunctionsAreDone, FunctionsAreGenerated, FunctionValues,
                  GenerateJobs, Done
    <2>1. ASSUME NEW i \in DOMAIN jobs, Handle(i)
          PROVE  FunctionsAreDone' /\ FunctionsAreGenerated'
      <3>1. ~ Done(i)
        BY <2>1, HandlerGuard DEF Runnable, Done
      <3>2. RanOrFailed(i)
        BY <2>1, HandlerStep
      <3> QED
        BY <2>u, <3>1, <3>2, RanJobFunctions DEF RanOrFailed
    <2>2. CASE MainWaits
      BY <2>2, MainWaitsFunctions
    <2> QED
      BY <2>1, <2>2, <2>u
         DEF Next, NothingToRun, MainNotReady, MainFails, Fails, MainFound,
             Report, Stopped, vars
  <1> QED
    BY <1>1, <1>2, TypeCorrect, PTL DEF Spec
-----------------------------------------------------------------------------
(* What reaches the code generator is complete.                            *)

(* runtime_statics holds, once each and between static constants, the done *)
(* jobs that generate.                                                     *)
StaticsMatch ==
    /\ \A n \in DOMAIN runtime_statics :
          runtime_statics[n] # 0 =>
              /\ Done(runtime_statics[n])
              /\ jobs[runtime_statics[n]].kind \in Generated
    /\ \A m, n \in DOMAIN runtime_statics :
          runtime_statics[m] = runtime_statics[n] /\ runtime_statics[n] # 0
              => m = n
    /\ \A i \in DOMAIN jobs :
          Done(i) /\ jobs[i].kind \in Generated =>
              \E n \in DOMAIN runtime_statics : runtime_statics[n] = i

(* The loop is not left while 'main' can be looked for, and once 'main' is *)
(* found main_function is the job that generates it.                       *)
MainInv ==
    /\ main_state = "Done" /\ pc # "assert_failed" =>
          main_function \in DOMAIN jobs /\ jobs[main_function].kind = "GenerateFunction"
    /\ pc \in {"report", "codegen"} => ~ MainReady

(* Done jobs stay, with their kinds, and no other becomes one.             *)
KeepsDone ==
    /\ \A k \in DOMAIN jobs : k \in DOMAIN jobs' /\ (Done(k) => jobs'[k] = jobs[k])
    /\ \A k \in DOMAIN jobs' : jobs'[k].state = "Done" => k \in DOMAIN jobs /\ Done(k)

LEMMA StaticsKept ==
    ASSUME TypeOK, StaticsMatch, KeepsDone, UNCHANGED runtime_statics
    PROVE  StaticsMatch'
  <1>1. \A n \in DOMAIN runtime_statics :
          runtime_statics[n] \in {0} \cup DOMAIN jobs
    BY ElementOfSeq DEF TypeOK
  <1> QED
    BY <1>1 DEF StaticsMatch, KeepsDone, Done

LEMMA RanJobStatics ==
    ASSUME TypeOK, StaticsMatch, NEW i \in DOMAIN jobs, ~ Done(i),
           NEW job \in Job, NEW new \in NewWork,
           RanJob(i, job, new), Passes(i, job.state)
    PROVE  StaticsMatch'
  <1>1. jobs'[i] = job /\ job.kind = jobs[i].kind
    BY RanJobList DEF RanJob, LeftBehind
  <1>2. \A k \in DOMAIN jobs : k # i => jobs'[k] = jobs[k]
    BY RanJobList
  <1>3. \A k \in DOMAIN jobs' \ DOMAIN jobs : jobs'[k].state # "Done"
    BY RanJobList DEF FreshJob
  <1>4. DOMAIN jobs \subseteq DOMAIN jobs'
    BY RanJobTypes DEF Grows, NewWork
  <1>0. i # 0
    BY DEF TypeOK
  <1>5. \A n \in DOMAIN runtime_statics :
          runtime_statics[n] \in {0} \cup DOMAIN jobs /\ runtime_statics[n] # i
    BY <1>0, ElementOfSeq DEF TypeOK, StaticsMatch
  <1>6. CASE job.state = "Done" /\ job.kind \in Generated
    <2>1. PICK constants \in Seq({0}) :
            runtime_statics' = Append(runtime_statics, i) \o constants
      BY <1>1, <1>6 DEF Passes, PassedOn
    <2>a. /\ Append(runtime_statics, i) \in Seq({0} \cup DOMAIN jobs)
          /\ Len(Append(runtime_statics, i)) = Len(runtime_statics) + 1
          /\ \A n \in 1 .. Len(runtime_statics) :
                Append(runtime_statics, i)[n] = runtime_statics[n]
          /\ Append(runtime_statics, i)[Len(runtime_statics) + 1] = i
          /\ Len(runtime_statics) \in Nat
          /\ DOMAIN runtime_statics = 1 .. Len(runtime_statics)
      BY AppendProperties, LenProperties DEF TypeOK
    <2>2. /\ DOMAIN runtime_statics \subseteq DOMAIN runtime_statics'
          /\ \A n \in DOMAIN runtime_statics :
                runtime_statics'[n] = runtime_statics[n]
          /\ Len(runtime_statics) + 1 \in DOMAIN runtime_statics'
          /\ runtime_statics'[Len(runtime_statics) + 1] = i
          /\ \A n \in DOMAIN runtime_statics' \ DOMAIN runtime_statics :
                n = Len(runtime_statics) + 1 \/ runtime_statics'[n] = 0
      <3> DEFINE first == Append(runtime_statics, i)
                 all == first \o constants
      <3>1. constants \in Seq({0} \cup DOMAIN jobs) /\ Len(constants) \in Nat
        BY SeqMonotonic, LenProperties
      <3> HIDE DEF first
      <3>2. /\ all \in Seq({0} \cup DOMAIN jobs)
            /\ Len(all) = Len(first) + Len(constants)
            /\ \A n \in 1 .. Len(first) + Len(constants) :
                  all[n] = IF n <= Len(first) THEN first[n]
                           ELSE constants[n - Len(first)]
        BY <2>a, <3>1, ConcatProperties DEF first
      <3> HIDE DEF all
      <3>3. DOMAIN all = 1 .. Len(runtime_statics) + 1 + Len(constants)
        BY <2>a, <3>1, <3>2 DEF first
      <3>4. \A n \in 1 .. Len(runtime_statics) + 1 : all[n] = first[n]
        BY <2>a, <3>1, <3>2 DEF first
      <3>5. ASSUME NEW n \in DOMAIN all, n > Len(runtime_statics) + 1
            PROVE  all[n] = 0
        <4>1. /\ n - Len(first) \in 1 .. Len(constants)
              /\ all[n] = constants[n - Len(first)]
          BY <2>a, <3>1, <3>2, <3>3, <3>5 DEF first
        <4> QED
          BY <4>1, ElementOfSeq, LenProperties
      <3>6. runtime_statics' = all
        BY <2>1 DEF all, first
      <3>7. \A n \in 1 .. Len(runtime_statics) : all[n] = runtime_statics[n]
        BY <2>a, <3>4 DEF first
      <3>8. all[Len(runtime_statics) + 1] = i
        BY <2>a, <3>4 DEF first
      <3>9. /\ 1 .. Len(runtime_statics) \subseteq DOMAIN all
            /\ Len(runtime_statics) + 1 \in DOMAIN all
            /\ \A n \in DOMAIN all \ (1 .. Len(runtime_statics)) :
                  n = Len(runtime_statics) + 1 \/ n > Len(runtime_statics) + 1
        BY <2>a, <3>1, <3>3
      <3> QED
        BY <2>a, <3>5, <3>6, <3>7, <3>8, <3>9
    <2>3. ASSUME NEW n \in DOMAIN runtime_statics', runtime_statics'[n] # 0
          PROVE  \/ /\ n \in DOMAIN runtime_statics
                    /\ runtime_statics'[n] = runtime_statics[n]
                 \/ /\ n = Len(runtime_statics) + 1
                    /\ runtime_statics'[n] = i
      BY <2>2, <2>3
    <2>5. ASSUME NEW n \in DOMAIN runtime_statics', runtime_statics'[n] # 0
          PROVE  /\ jobs'[runtime_statics'[n]].state = "Done"
                 /\ jobs'[runtime_statics'[n]].kind \in Generated
      BY <1>1, <1>2, <1>5, <1>6, <2>3, <2>5 DEF StaticsMatch, Done
    <2>6. ASSUME NEW m \in DOMAIN runtime_statics', NEW n \in DOMAIN runtime_statics',
                 runtime_statics'[m] = runtime_statics'[n], runtime_statics'[n] # 0
          PROVE  m = n
      BY <1>5, <2>3, <2>6 DEF StaticsMatch
    <2>7. ASSUME NEW k \in DOMAIN jobs', jobs'[k].state = "Done",
                 jobs'[k].kind \in Generated
          PROVE  \E n \in DOMAIN runtime_statics' : runtime_statics'[n] = k
      <3>1. CASE k = i
        BY <2>2, <3>1
      <3>2. CASE k # i
        <4>1. k \in DOMAIN jobs /\ Done(k) /\ jobs[k].kind \in Generated
          BY <1>2, <1>3, <2>7, <3>2 DEF Done
        <4> QED
          BY <2>2, <4>1 DEF StaticsMatch
      <3> QED
        BY <3>1, <3>2
    <2> QED
      BY <2>5, <2>6, <2>7 DEF StaticsMatch, Done
  <1>7. CASE ~ (job.state = "Done" /\ job.kind \in Generated)
    <2>1. UNCHANGED runtime_statics
      BY <1>1, <1>7 DEF Passes
    <2>2. \A n \in DOMAIN runtime_statics :
            runtime_statics[n] # 0 =>
                /\ jobs'[runtime_statics[n]].state = "Done"
                /\ jobs'[runtime_statics[n]].kind \in Generated
      BY <1>2, <1>5 DEF StaticsMatch, Done
    <2>3. ASSUME NEW k \in DOMAIN jobs', jobs'[k].state = "Done",
                 jobs'[k].kind \in Generated
          PROVE  \E n \in DOMAIN runtime_statics : runtime_statics[n] = k
      <3>1. k # i /\ k \in DOMAIN jobs /\ Done(k) /\ jobs[k].kind \in Generated
        BY <1>1, <1>2, <1>3, <1>7, <2>3 DEF Done
      <3> QED
        BY <3>1 DEF StaticsMatch
    <2> QED
      BY <2>1, <2>2, <2>3 DEF StaticsMatch, Done
  <1> QED
    BY <1>6, <1>7

LEMMA MainWaitsKeepsDone ==
    ASSUME TypeOK, MainWaits
    PROVE  KeepsDone
  <1>1. \A k \in DOMAIN jobs : k \in DOMAIN jobs' /\ jobs'[k] = jobs[k]
    BY MainKeepsResults
  <1>2. CASE UNCHANGED jobs
    BY <1>2 DEF KeepsDone, Done
  <1>3. ASSUME NEW job \in FreshJob, jobs' = jobs \o <<job>>
        PROVE  KeepsDone
    <2>1. jobs \in Seq(Job) /\ job \in Job /\ job.state = "Working"
      BY DEF TypeOK, FreshJob
    <2>2. jobs' = Append(jobs, job)
      BY <1>3, <2>1
    <2>3. \A k \in DOMAIN jobs' \ DOMAIN jobs : jobs'[k] = job
      BY <2>1, <2>2, AppendProperties
    <2> QED
      BY <1>1, <2>1, <2>3 DEF KeepsDone, Done
  <1>4. \A inst \in NewInstances(jobs) : InstanceJob(inst) \in FreshJob
    BY InstanceJobFresh DEF NewInstances
  <1> QED
    BY <1>2, <1>3, <1>4 DEF MainWaits

LEMMA StaticsInductive == TypeOK /\ StaticsMatch /\ [Next]_vars => StaticsMatch'
  <1> SUFFICES ASSUME TypeOK, StaticsMatch, [Next]_vars PROVE StaticsMatch'
    OBVIOUS
  <1>u. ASSUME UNCHANGED <<jobs, runtime_statics>> PROVE StaticsMatch'
    BY <1>u DEF StaticsMatch, Done
  <1>1. ASSUME NEW i \in DOMAIN jobs, Handle(i) PROVE StaticsMatch'
    <2>1. ~ Done(i)
      BY <1>1, HandlerGuard DEF Runnable, Done
    <2>2. RanOrFailed(i)
      BY <1>1, HandlerStep
    <2> QED
      BY <1>u, <2>1, <2>2, RanJobStatics DEF RanOrFailed
  <1>2. CASE MainWaits
    <2>1. UNCHANGED runtime_statics
      BY <1>2 DEF MainWaits
    <2> QED
      BY <1>2, <2>1, MainWaitsKeepsDone, StaticsKept
  <1> QED
    BY <1>1, <1>2, <1>u
       DEF Next, NothingToRun, MainNotReady, MainFails, Fails, MainFound,
           Report, Stopped, vars

LEMMA MainInvInductive == TypeOK /\ MainInv /\ [Next]_vars => MainInv'
  <1> SUFFICES ASSUME TypeOK, MainInv, [Next]_vars PROVE MainInv'
    OBVIOUS
  <1>1. ASSUME NEW i \in DOMAIN jobs, Handle(i) PROVE MainInv'
    <2>1. MainUnchanged /\ pc = "scan"
      BY <1>1, HandlerGuard
    <2>2. pc' \in {"main", "error"}
      BY <1>1, HandlerStep DEF RanOrFailed, RanJob
    <2>3. \A k \in DOMAIN jobs : k \in DOMAIN jobs' /\ jobs'[k].kind = jobs[k].kind
      BY <1>1, HandlerKeepsResults
    <2> QED
      BY <2>1, <2>2, <2>3 DEF MainInv, MainUnchanged
  <1>2. CASE NothingToRun
    BY <1>2 DEF NothingToRun, MainUnchanged, MainInv
  <1>3. CASE MainNotReady
    BY <1>3 DEF MainNotReady, MainUnchanged, NextPass, MainInv, MainReady, Done
  <1>4. CASE MainWaits
    BY <1>4 DEF MainWaits, NextPass, MainInv, MainReady
  <1>5. CASE MainFails
    BY <1>5 DEF MainFails, Fails, MainUnchanged, MainInv, MainReady
  <1>6. ASSUME NEW owner \in FunctionValues, MainFound(owner)
        PROVE  MainInv'
    BY <1>6 DEF MainFound, NextPass, MainInv, GenerateJobs
  <1>7. CASE Report
    BY <1>7 DEF Report, MainUnchanged, MainInv, MainReady, Done
  <1>8. CASE UNCHANGED vars
    BY <1>8 DEF vars, MainInv, MainReady, Done
  <1> QED
    BY <1>1, <1>2, <1>3, <1>4, <1>5, <1>6, <1>7, <1>8 DEF Next, Stopped

LEMMA CompleteWhenLeft ==
    ASSUME TypeOK, LoopInv, StaticsMatch, MainInv
    PROVE  CodegenComplete
  <1> SUFFICES ASSUME pc = "codegen"
               PROVE  /\ UndoneJobs = {}
                      /\ \A i \in DOMAIN jobs :
                            Cardinality({n \in DOMAIN runtime_statics :
                                              runtime_statics[n] = i})
                              = IF jobs[i].kind \in Generated THEN 1 ELSE 0
                      /\ main_function \in DOMAIN jobs
                      /\ jobs[main_function].kind = "GenerateFunction"
    BY DEF CodegenComplete, Generated
  <1>1. UndoneJobs = {} /\ \A i \in DOMAIN jobs : Done(i)
    BY DEF LoopInv, UndoneJobs
  <1>2. ASSUME NEW i \in DOMAIN jobs
        PROVE  Cardinality({n \in DOMAIN runtime_statics : runtime_statics[n] = i})
                 = IF jobs[i].kind \in Generated THEN 1 ELSE 0
    <2>0. i # 0
      BY DEF TypeOK
    <2>1. CASE jobs[i].kind \in Generated
      <3>1. PICK n \in DOMAIN runtime_statics : runtime_statics[n] = i
        BY <1>1, <2>1 DEF StaticsMatch
      <3>2. {m \in DOMAIN runtime_statics : runtime_statics[m] = i} = {n}
        BY <2>0, <3>1 DEF StaticsMatch
      <3> QED
        BY <2>1, <3>2, FS_Singleton
    <2>2. CASE jobs[i].kind \notin Generated
      <3>1. {m \in DOMAIN runtime_statics : runtime_statics[m] = i} = {}
        BY <2>0, <2>2 DEF StaticsMatch
      <3> QED
        BY <2>2, <3>1, FS_EmptySet
    <2> QED
      BY <2>1, <2>2
  <1>3. main_state = "Done"
    BY <1>1 DEF MainInv, MainReady, TypeOK
  <1> QED
    BY <1>1, <1>2, <1>3 DEF MainInv

(* generate_llvm_object is given every function and static variable once,  *)
(* and a 'main' among them, for every program: the loop cannot end with a  *)
(* job left over or before 'main' has been found.                          *)
THEOREM CodegenIsComplete == Spec => []CodegenComplete
  <1>1. Init => LoopInv /\ StaticsMatch /\ MainInv
    <2> SUFFICES ASSUME Init PROVE LoopInv /\ StaticsMatch /\ MainInv
      OBVIOUS
    <2>1. /\ DOMAIN jobs = {1} /\ jobs[1].state = "Working"
          /\ DOMAIN runtime_statics = {}
      BY DEF Init, NewJob
    <2> QED
      BY <2>1 DEF Init, LoopInv, StaticsMatch, MainInv, Done
  <1>2. TypeOK /\ LoopInv /\ StaticsMatch /\ MainInv /\ [Next]_vars
          => LoopInv' /\ StaticsMatch' /\ MainInv'
    BY LoopInvInductive, StaticsInductive, MainInvInductive
  <1>3. TypeOK /\ LoopInv /\ StaticsMatch /\ MainInv => CodegenComplete
    BY CompleteWhenLeft
  <1> QED
    BY <1>1, <1>2, <1>3, TypeCorrect, PTL DEF Spec

(***************************************************************************)
(* JobQueue implements WorkList, for any program: every pass of the loop   *)
(* is a step of the list of work, or none.                                 *)
(***************************************************************************)

(* The refinement mapping of JobQueue, with names.                         *)
Results == {i \in DOMAIN jobs : Done(i)}
Blocked == {k \in DOMAIN jobs : jobs[k].state = "Waiting"}
Needs == [i \in Blocked |-> jobs[i].waiting_for]
Outcome ==
    CASE pc \in {"scan", "main", "report"} -> "running"
      [] pc \in {"error", "assert_failed"} -> "rejected"
      [] pc \in {"circular", "abort"} -> "circular"
      [] pc = "codegen" -> "accepted"

(* What the mapping makes of the formulas of WorkList.                     *)
LEMMA Mapping ==
    /\ W!Unfinished = (1 .. Len(jobs)) \ Results
    /\ W!Discover <=> Len(jobs)' \in Nat /\ Len(jobs)' >= Len(jobs)
    /\ W!wvars = <<Len(jobs), Results, Needs, Outcome>>
  BY DEF W!Unfinished, W!Discover, W!wvars, Results, Needs, Blocked, Outcome

LEMMA MappingReady ==
    ASSUME NEW u
    PROVE  W!Ready(u) <=> /\ u \in (1 .. Len(jobs)) \ Results
                          /\ u \in DOMAIN Needs => Needs[u] \in Results
  BY DEF W!Ready, W!Unfinished, Results, Needs, Blocked

LEMMA OutcomeNow ==
    /\ pc \in {"scan", "main", "report"} => Outcome = "running"
    /\ pc \in {"error", "assert_failed"} => Outcome = "rejected"
    /\ pc \in {"circular", "abort"} => Outcome = "circular"
    /\ pc = "codegen" => Outcome = "accepted"
  BY DEF Outcome

LEMMA OutcomeNext ==
    /\ pc' \in {"scan", "main", "report"} => Outcome' = "running"
    /\ pc' \in {"error", "assert_failed"} => Outcome' = "rejected"
    /\ pc' \in {"circular", "abort"} => Outcome' = "circular"
    /\ pc' = "codegen" => Outcome' = "accepted"
  BY DEF Outcome

(* What a step has to show, of the list and of the outcome, to be a step   *)
(* of WorkList.                                                            *)
LEMMA WorkStep ==
    ASSUME TypeOK, Grows, jobs' \in Seq(Job),
           Outcome = "running", Outcome' = "running",
           \/ \E u \in (1 .. Len(jobs)) \ Results : W!Complete(u) \/ W!Block(u)
           \/ UNCHANGED <<Results, Needs>>
    PROVE  W!Next
  <1>1. Len(jobs)' \in Nat /\ Len(jobs)' >= Len(jobs)
    BY LenProperties DEF Grows
  <1>2. W!Discover
    BY <1>1, Mapping
  <1>3. CASE \E u \in (1 .. Len(jobs)) \ Results : W!Complete(u) \/ W!Block(u)
    BY <1>3, Mapping DEF W!Next, W!Work, Outcome
  <1>4. CASE UNCHANGED <<Results, Needs>>
    BY <1>2, <1>4 DEF W!Next, W!Work, Outcome, Results, Needs, Blocked
  <1> QED
    BY <1>3, <1>4

LEMMA StopStep ==
    ASSUME UNCHANGED jobs, Outcome = "running",
           \/ Outcome' = "rejected"
           \/ Outcome' = "accepted" /\ W!Unfinished = {}
           \/ /\ Outcome' = "circular" /\ W!Unfinished # {}
              /\ \A u \in W!Unfinished : ~ W!Ready(u)
    PROVE  W!Next
  <1>1. UNCHANGED <<Len(jobs), Results, Needs>>
    BY DEF Results, Needs, Blocked, Done
  <1>2. W!Reject \/ W!Accept \/ W!GiveUp
    BY DEF W!Reject, W!Accept, W!GiveUp, Outcome
  <1> QED
    BY <1>1, <1>2 DEF W!Next, W!Stop, Outcome, Results, Needs, Blocked

LEMMA Stutter ==
    ASSUME UNCHANGED jobs, UNCHANGED Outcome
    PROVE  UNCHANGED W!wvars
  BY Mapping DEF W!wvars, Outcome, Done

(* The jobs after a handler ran job i.                                     *)
LEMMA RanJobWorks ==
    ASSUME TypeOK, NEW i \in DOMAIN jobs, Runnable(i), NEW job \in Job,
           NEW new \in NewWork, RanJob(i, job, new)
    PROVE  W!Complete(i) \/ W!Block(i)
  <1>1. jobs'[i] = job
    BY RanJobList
  <1>2. \A k \in DOMAIN jobs : k # i => jobs'[k] = jobs[k]
    BY RanJobList
  <1>3. \A k \in DOMAIN jobs' \ DOMAIN jobs : jobs'[k].state = "Working"
    BY RanJobList DEF FreshJob
  <1>4. /\ DOMAIN jobs \subseteq DOMAIN jobs'
        /\ Len(jobs') >= Len(jobs) /\ jobs' \in Seq(Job)
    BY RanJobTypes DEF Grows, NewWork, JobsTypeOK
  <1>5. /\ DOMAIN jobs = 1 .. Len(jobs) /\ DOMAIN jobs' = 1 .. Len(jobs')
        /\ Len(jobs) \in Nat /\ Len(jobs') \in Nat
    BY <1>4, LenProperties DEF TypeOK
  <1>6. W!Ready(i)
    <2>1. i \in (1 .. Len(jobs)) \ Results
      BY <1>5 DEF Runnable, Results, Done
    <2>2. ASSUME i \in Blocked PROVE jobs[i].waiting_for \in Results
      BY <2>2 DEF Blocked, Runnable, Results, TypeOK
    <2> QED
      BY <2>1, <2>2, MappingReady DEF Needs
  <1>7. W!Discover
    BY <1>4, <1>5, Mapping
  <1>8. CASE job.state = "Done"
    <2>1. Results' = Results \cup {i}
      <3>1. \A k : k \in Results' <=> k \in DOMAIN jobs' /\ jobs'[k].state = "Done"
        BY DEF Results, Done
      <3>2. \A k : k \in Results <=> k \in DOMAIN jobs /\ jobs[k].state = "Done"
        BY DEF Results, Done
      <3> QED
        BY <1>1, <1>2, <1>3, <1>4, <1>8, <3>1, <3>2
    <2>2. Blocked' = Blocked \ {i}
      BY <1>1, <1>2, <1>3, <1>4, <1>8 DEF Blocked
    <2>3. \A v \in Blocked \ {i} : jobs'[v].waiting_for = jobs[v].waiting_for
      BY <1>2 DEF Blocked
    <2>4. Needs' = [v \in DOMAIN Needs \ {i} |-> Needs[v]]
      BY <2>2, <2>3 DEF Needs
    <2> QED
      BY <1>6, <1>7, <2>1, <2>4 DEF W!Complete, Results, Needs, Blocked
  <1>9. CASE job.state # "Done"
    <2>0. /\ job.state = "Waiting" /\ job.waiting_for \in DOMAIN jobs'
          /\ job.waiting_for \notin Results
      <3>1. RanJob(i, job, new) /\ Len(jobs') = Len(jobs) + Len(new)
        <4>1. jobs' = Updated(jobs, i, job, new) /\ jobs \in Seq(Job)
              /\ new \in Seq(FreshJob)
          BY DEF RanJob, NewWork, TypeOK
        <4> QED
          BY <4>1, UpdatedList
      <3> QED
        BY <1>5, <1>9, <3>1 DEF RanJob, LeftBehind, Results
    <2>1. Results' = Results
      <3>1. \A k : k \in Results' <=> k \in DOMAIN jobs' /\ jobs'[k].state = "Done"
        BY DEF Results, Done
      <3>2. \A k : k \in Results <=> k \in DOMAIN jobs /\ jobs[k].state = "Done"
        BY DEF Results, Done
      <3>3. jobs[i].state # "Done"
        BY DEF Runnable
      <3> QED
        BY <1>1, <1>2, <1>3, <1>4, <1>9, <3>1, <3>2, <3>3
    <2>2. Blocked' = Blocked \cup {i}
      BY <1>1, <1>2, <1>3, <1>4, <2>0 DEF Blocked
    <2>3. DOMAIN Needs' = DOMAIN Needs \cup {i}
      BY <2>2 DEF Needs
    <2>4. \A v \in DOMAIN Needs \ {i} : Needs'[v] = Needs[v]
      BY <1>2, <2>2 DEF Needs, Blocked
    <2>5. Needs'[i] \in (1 .. Len(jobs)') \ Results
      BY <1>1, <1>5, <2>0, <2>2 DEF Needs
    <2> QED
      BY <1>6, <1>7, <2>1, <2>3, <2>4, <2>5 DEF W!Block, Results, Needs, Blocked
  <1> QED
    BY <1>8, <1>9

LEMMA HandlerWorks ==
    ASSUME TypeOK, NEW i \in DOMAIN jobs, Handle(i)
    PROVE  W!Next
  <1>1. pc = "scan" /\ Runnable(i)
    BY HandlerGuard
  <1>2. Outcome = "running"
    BY <1>1, OutcomeNow
  <1>3. CASE pc' = "error" /\ UNCHANGED jobs
    BY <1>2, <1>3, OutcomeNext, StopStep
  <1>4. ASSUME NEW job \in Job, NEW new \in NewWork, RanJob(i, job, new)
        PROVE  W!Next
    <2>1. W!Complete(i) \/ W!Block(i)
      BY <1>1, <1>4, RanJobWorks
    <2>2. Grows /\ jobs' \in Seq(Job)
      BY <1>4, RanJobTypes DEF NewWork, JobsTypeOK
    <2>3. i \in (1 .. Len(jobs)) \ Results
      BY <1>1, LenProperties DEF Results, Runnable, Done, TypeOK
    <2>4. Outcome' = "running"
      BY <1>4, OutcomeNext DEF RanJob
    <2> QED
      BY <1>2, <2>1, <2>2, <2>3, <2>4, WorkStep
  <1> QED
    BY <1>3, <1>4, HandlerStep DEF RanOrFailed

LEMMA MainWaitsWorks ==
    ASSUME TypeOK, MainWaits
    PROVE  W!Next
  <1>1. Outcome = "running" /\ Outcome' = "running"
    BY OutcomeNow, OutcomeNext DEF MainWaits, NextPass
  <1>2. TypeOK' /\ Grows
    BY MainWaitsTypes
  <1>3. CASE UNCHANGED jobs
    <2>1. UNCHANGED <<Results, Needs>>
      BY <1>3 DEF Results, Needs, Blocked, Done
    <2> QED
      BY <1>1, <1>2, <2>1, WorkStep DEF TypeOK
  <1>4. ASSUME NEW job \in FreshJob, jobs' = jobs \o <<job>>
        PROVE  W!Next
    <2>1. jobs \in Seq(Job) /\ job \in Job /\ job.state = "Working"
      BY DEF TypeOK, FreshJob
    <2>2. jobs' = Append(jobs, job)
      BY <1>4, <2>1
    <2>3. /\ \A k \in DOMAIN jobs : k \in DOMAIN jobs' /\ jobs'[k] = jobs[k]
          /\ \A k \in DOMAIN jobs' \ DOMAIN jobs : jobs'[k].state = "Working"
      BY <2>1, <2>2, AppendProperties
    <2>4. Results' = Results
      BY <2>3 DEF Results, Done
    <2>5. Blocked' = Blocked
      BY <2>3 DEF Blocked
    <2>6. Needs' = Needs
      BY <2>3, <2>5 DEF Needs, Blocked
    <2> QED
      BY <1>1, <1>2, <2>4, <2>6, WorkStep DEF TypeOK
  <1>5. \A inst \in NewInstances(jobs) : InstanceJob(inst) \in FreshJob
    BY InstanceJobFresh DEF NewInstances
  <1> QED
    BY <1>3, <1>4, <1>5 DEF MainWaits

LEMMA ReportWorks ==
    ASSUME TypeOK, LoopInv, Report
    PROVE  W!Next
  <1>1. /\ Quiet /\ UNCHANGED jobs
        /\ Outcome = "running"
    BY OutcomeNow DEF Report, LoopInv
  <1>2. W!Unfinished = UndoneJobs
    BY Mapping, LenProperties DEF UndoneJobs, Results, TypeOK
  <1>3. CASE UndoneJobs = {}
    <2>1. pc' = "codegen"
      BY <1>3 DEF Report, UndoneJobs
    <2> QED
      BY <1>1, <1>2, <1>3, <2>1, OutcomeNext, StopStep
  <1>4. CASE UndoneJobs # {}
    <2>1. pc' \in {"circular", "abort"}
      BY <1>4 DEF Report, UndoneJobs
    <2>2. ASSUME NEW u \in UndoneJobs PROVE ~ W!Ready(u)
      <3>1. /\ u \in Blocked /\ Needs[u] = jobs[u].waiting_for
            /\ jobs[u].waiting_for \notin Results
        BY <1>1, <2>2, QuietIsCircular DEF Blocked, Needs, UndoneJobs, Results
      <3> QED
        BY <3>1, MappingReady DEF Needs
    <2> QED
      BY <1>1, <1>2, <1>4, <2>1, <2>2, OutcomeNext, StopStep
  <1> QED
    BY <1>3, <1>4

LEMMA StepWorks == TypeOK /\ LoopInv /\ [Next]_vars => [W!Next]_(W!wvars)
  <1> SUFFICES ASSUME TypeOK, LoopInv, [Next]_vars
               PROVE  W!Next \/ UNCHANGED W!wvars
    OBVIOUS
  <1>1. ASSUME NEW i \in DOMAIN jobs, Handle(i) PROVE W!Next
    BY <1>1, HandlerWorks
  <1>2. CASE NothingToRun
    <2>1. UNCHANGED jobs /\ Outcome = "running" /\ Outcome' = "running"
      BY <1>2, OutcomeNow, OutcomeNext DEF NothingToRun
    <2> QED
      BY <2>1, Stutter
  <1>3. CASE MainNotReady
    <2>1. UNCHANGED jobs /\ Outcome = "running" /\ Outcome' = "running"
      BY <1>3, OutcomeNow, OutcomeNext DEF MainNotReady, NextPass
    <2> QED
      BY <2>1, Stutter
  <1>4. CASE MainWaits
    BY <1>4, MainWaitsWorks
  <1>5. CASE MainFails
    BY <1>5, OutcomeNow, OutcomeNext, StopStep DEF MainFails, Fails
  <1>6. ASSUME NEW owner \in FunctionValues, MainFound(owner)
        PROVE  W!Next \/ UNCHANGED W!wvars
    <2>1. UNCHANGED jobs /\ Outcome = "running"
      BY <1>6, OutcomeNow DEF MainFound
    <2>2. CASE pc' = "scan"
      BY <2>1, <2>2, OutcomeNext, Stutter
    <2>3. CASE pc' = "assert_failed"
      BY <2>1, <2>3, OutcomeNext, StopStep
    <2> QED
      BY <1>6, <2>2, <2>3 DEF MainFound, NextPass
  <1>7. CASE Report
    BY <1>7, ReportWorks
  <1>8. CASE UNCHANGED vars
    <2>1. UNCHANGED <<jobs, Outcome>>
      BY <1>8 DEF vars, Outcome
    <2> QED
      BY <2>1, Stutter
  <1> QED
    BY <1>1, <1>2, <1>3, <1>4, <1>5, <1>6, <1>7, <1>8 DEF Next, Stopped

LEMMA InitWorks == Init => W!Init
  <1> SUFFICES ASSUME Init PROVE W!Init
    OBVIOUS
  <1>1. Len(jobs) = 1 /\ DOMAIN jobs = {1} /\ jobs[1].state = "Working"
    BY DEF Init, NewJob
  <1>2. Results = {} /\ Blocked = {}
    BY <1>1 DEF Results, Blocked, Done
  <1>3. Needs = [u \in {} |-> 0]
    BY <1>2 DEF Needs
  <1>4. Outcome = "running"
    BY OutcomeNow DEF Init
  <1> QED
    BY <1>1, <1>2, <1>3, <1>4 DEF W!Init, Results, Needs, Blocked, Outcome

(* The order in which the loop runs jobs, its restarts and its step for    *)
(* 'main' make no difference: whatever the program, units of work are      *)
(* finished once, a blocked one not before what it needs, and the program  *)
(* is accepted or given up only as WorkList allows.                        *)
THEOREM QueueImplementsWorkList == Spec => ImplementsWorkList
  <1>1. Init => LoopInv
    BY DEF Init, LoopInv
  <1> QED
    BY <1>1, InitWorks, StepWorks, LoopInvInductive, TypeCorrect, PTL
       DEF Spec, ImplementsWorkList, W!Spec
=============================================================================

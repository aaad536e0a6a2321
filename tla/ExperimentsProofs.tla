------------------------- MODULE ExperimentsProofs -------------------------
(***************************************************************************)
(* What TLAPS proves of Experiments for any experiments, arms, versions,   *)
(* visitors and number of handlers in flight, and, with the same lemmas    *)
(* on sums, of Quota for any calls and sizes.                              *)
(***************************************************************************)
EXTENDS Experiments, Quota, FiniteSetTheorems, TLAPS

\* What the foreign keys and the checks of create_experiment keep true.
RefInv ==
    /\ \A e \in Exps, s \in Subjects :
          assigned[e][s] # None => arms[e][assigned[e][s]] # None
    /\ \A e \in Exps, a \in Positions : arms[e][a] # None =>
          /\ status[e] \notin {"unborn", "gone"}
          /\ arms[e][a].version # None => Saved(arms[e][a].version)
    /\ \A e \in Exps, a, b \in Positions :
          (a \in Controls(arms[e]) /\ b \in Controls(arms[e])) => a = b

\* Nothing is known of an experiment before it is created.
KnownInv ==
    /\ \A e \in Exps : status[e] = "unborn" => startedAt[e] = 0
    /\ \A t \in usage : status[t.exp] # "unborn"
    /\ \A q \in Slots :
          req[q].at \in {"start", "pinned", "delete", "turn", "answer"} =>
              status[req[q].exp] # "unborn"

\* What a turn in flight has read of its arm is still so, or the arm is gone.
TurnInv ==
    \A q \in Slots : req[q].at \in {"turn", "answer"} =>
        LET turn == req[q]
            arm == arms[turn.exp][turn.arm]
        IN arm # None =>
              /\ ~turn.fresh => assigned[turn.exp][turn.subject] = turn.arm
              /\ (turn.at = "turn" /\ ~arm.control) => turn.version = arm.version
              /\ (turn.at = "answer" /\ ~arm.control /\ arm.version # None) =>
                    turn.graph = arm.version

\* A start that passed its check may set the control to what it read.
PinInv ==
    \A q \in Slots : req[q].at = "pinned" =>
        LET list == arms[req[q].exp]
            control == req[q].control
        IN /\ Controls(list) \subseteq {control}
           /\ list[control] # None =>
                 /\ list[control].control
                 /\ \A a \in Present(list) \ {control} :
                       /\ list[control].version # None => list[a].version # list[control].version
                       /\ req[q].pin # None => list[a].version # req[q].pin

\* TagsAgree, said of the tags one by one.
TagInv == \A t \in usage : arms[t.exp][t.arm] # None => assigned[t.exp][t.subject] = t.arm

IInv == /\ TypeOK /\ RefInv /\ KnownInv /\ TurnInv /\ PinInv
        /\ TagInv /\ CandidatesRunTheirGraph /\ ArmsApart
-----------------------------------------------------------------------------
(* The position of a handler tells what its record holds. *)
LEMMA Readings ==
  ASSUME NEW r \in Reading
  PROVE  /\ r.at = "start" => r \in [at : {"start"}, exp : Exps, status : {"draft", "running"}]
         /\ r.at = "pinned" =>
              r \in [at : {"pinned"}, exp : Exps, status : {"draft", "running"},
                     control : Positions, pin : Versions \cup {None}, time : 1 .. MaxStarts]
         /\ r.at = "delete" => r \in [at : {"delete"}, exp : Exps]
         /\ r.at = "drop" => r \in [at : {"drop"}, pipeline : Pipelines]
         /\ r.at = "turn" =>
              r \in [at : {"turn"}, exp : Exps, subject : Subjects, arm : Positions,
                     fresh : BOOLEAN, version : Versions \cup {None}]
         /\ r.at = "answer" =>
              r \in [at : {"answer"}, exp : Exps, subject : Subjects, arm : Positions,
                     fresh : BOOLEAN, graph : Versions \cup {None}]
  BY DEF Reading, Idle

(* A split that adds up has exactly one control. *)
LEMMA OneControl ==
  ASSUME NEW list, ValidSplit(list)
  PROVE  \A a, b \in Controls(list) : a = b
<1>1. IsFiniteSet(Controls(list))
  BY ExperimentsAssumption, FS_Subset DEF Controls, Present
<1>2. PICK c : Controls(list) = {c}
  BY <1>1, FS_Singleton DEF ValidSplit
<1>3. QED
  BY <1>2

-----------------------------------------------------------------------------
(* What one step may do to an arm, an assignment, a status, the usage.     *)

(* An experiment that exists gains no arm, and only a start touches an arm *)
(* that stays: it gives the control a version.                             *)
LEMMA ArmStep ==
  ASSUME IInv, Next, NEW e \in Exps, NEW a \in Positions,
         status[e] # "unborn", arms'[e][a] # None
  PROVE  /\ arms[e][a] # None
         /\ arms'[e][a].control = arms[e][a].control
         /\ ~arms[e][a].control => arms'[e][a] = arms[e][a]
<1>1. ASSUME NEW f \in Exps, NEW payload \in Payloads, Create(f, payload)
      PROVE  arms'[e] = arms[e]
  BY <1>1 DEF Create, IInv, TypeOK
<1>2. ASSUME NEW q \in Slots, Start(q)
      PROVE  /\ arms[e][a] # None
             /\ arms'[e][a].control = arms[e][a].control
             /\ ~arms[e][a].control => arms'[e][a] = arms[e][a]
  <2>1. CASE req[q].pin = None
    BY <1>2, <2>1 DEF Start
  <2>2. CASE req[q].pin # None
    <3>1. /\ req[q].at = "pinned" /\ arms[req[q].exp][req[q].control] # None
          /\ arms' = [arms EXCEPT ![req[q].exp][req[q].control].version = req[q].pin]
      BY <1>2, <2>2 DEF Start
    <3>2. req[q].exp \in Exps /\ req[q].control \in Positions
      BY <3>1, Readings DEF IInv, TypeOK
    <3>3. arms[req[q].exp][req[q].control].control
      BY <3>1 DEF IInv, PinInv
    <3>4. arms \in [Exps -> [Positions -> Arm \cup {None}]]
      BY DEF IInv, TypeOK
    <3>5. CASE e = req[q].exp /\ a = req[q].control
      <4>1. arms[e][a] \in Arm
        BY <3>1, <3>4, <3>5
      <4>2. arms'[e][a] = [arms[e][a] EXCEPT !.version = req[q].pin]
        BY <3>1, <3>4, <3>5
      <4>3. QED
        BY <3>1, <3>3, <3>5, <4>1, <4>2 DEF Arm
    <3>6. CASE ~(e = req[q].exp /\ a = req[q].control)
      BY <3>1, <3>2, <3>4, <3>6
    <3>7. QED
      BY <3>5, <3>6
  <2>3. QED
    BY <2>1, <2>2
<1>3. ASSUME NEW q \in Slots, Delete(q)
      PROVE  arms'[e][a] = arms[e][a]
  BY <1>3 DEF Delete, IInv, TypeOK
<1>4. ASSUME NEW q \in Slots, DeletePipeline(q)
      PROVE  arms'[e][a] = arms[e][a]
  BY <1>4 DEF DeletePipeline
<1>5. QED
  BY <1>1, <1>2, <1>3, <1>4
     DEF Next, Stop, Promote, OpenStart, OpenDelete, Resolve, OpenDeletePipeline, Check, Prepare,
         Answer, AnswerFailed, Abandon, SaveVersion, CreatePipeline,
         ActivateVersion, PatchBot, abVars

(* An assignment stays as it is, or its arm is gone. *)
LEMMA AssignmentStep ==
  ASSUME IInv, Next, NEW e \in Exps, NEW s \in Subjects, assigned[e][s] # None
  PROVE  assigned'[e][s] = assigned[e][s] \/ arms'[e][assigned[e][s]] = None
<1> DEFINE arm == assigned[e][s]
<1>1. arm \in Positions /\ arms[e][arm] # None
  BY DEF IInv, TypeOK, RefInv
<1>2. ASSUME NEW q \in Slots, Assign(req[q])
      PROVE  assigned'[e][s] = arm
  <2>1. CASE req[q].fresh
    BY <1>2, <2>1 DEF Assign, IInv, TypeOK
  <2>2. CASE ~req[q].fresh
    BY <1>2, <2>2 DEF Assign
  <2>3. QED
    BY <2>1, <2>2
<1>3. ASSUME NEW q \in Slots, Delete(q)
      PROVE  assigned'[e][s] = arm \/ arms'[e][arm] = None
  BY <1>1, <1>3 DEF Delete, IInv, TypeOK
<1>4. ASSUME NEW q \in Slots, DeletePipeline(q)
      PROVE  assigned'[e][s] = arm \/ arms'[e][arm] = None
  BY <1>1, <1>4 DEF DeletePipeline
<1>5. QED
  BY <1>2, <1>3, <1>4
     DEF Next, Create, Start, Stop, Promote, OpenStart, OpenDelete, Resolve, OpenDeletePipeline,
         Check, Prepare, Answer, AnswerFailed, Abandon, SaveVersion, CreatePipeline,
         ActivateVersion, PatchBot,
         abVars

(* Only Create brings an experiment into being. *)
LEMMA StatusStep ==
  ASSUME IInv, Next, NEW e \in Exps, status[e] # "unborn"
  PROVE  status'[e] # "unborn"
<1>1. ASSUME NEW f \in Exps, NEW payload \in Payloads, Create(f, payload)
      PROVE  status'[e] # "unborn"
  BY <1>1 DEF Create, IInv, TypeOK
<1>2. ASSUME NEW q \in Slots, Start(q) \/ Delete(q)
      PROVE  status'[e] # "unborn"
  BY <1>2 DEF Start, Delete, IInv, TypeOK
<1>3. ASSUME NEW f \in Exps, Stop(f) \/ \E a \in Positions : Promote(f, a)
      PROVE  status'[e] # "unborn"
  BY <1>3 DEF Stop, Promote, IInv, TypeOK
<1>4. QED
  BY <1>1, <1>2, <1>3
     DEF Next, OpenStart, OpenDelete, Resolve, OpenDeletePipeline, Check, Prepare, Answer,
         AnswerFailed, Abandon, SaveVersion, CreatePipeline,
         ActivateVersion, DeletePipeline, PatchBot, abVars

(* Usage is only written by a turn that is answered with its assignment. *)
LEMMA UsageStep ==
  ASSUME Next, NEW t \in usage', t \notin usage
  PROVE  \E q \in Slots :
            /\ req[q].at = "answer" /\ Assign(req[q])
            /\ t = [exp |-> req[q].exp, subject |-> req[q].subject, arm |-> req[q].arm,
                    graph |-> req[q].graph]
            /\ UNCHANGED <<arms, status>>
<1>1. ASSUME NEW q \in Slots, Answer(q)
      PROVE  /\ req[q].at = "answer" /\ Assign(req[q])
             /\ t = [exp |-> req[q].exp, subject |-> req[q].subject, arm |-> req[q].arm,
                     graph |-> req[q].graph]
             /\ UNCHANGED <<arms, status>>
  BY <1>1 DEF Answer
<1>2. QED
  BY <1>1
     DEF Next, Create, Start, Stop, Delete, Promote, OpenStart, OpenDelete, Resolve,
         OpenDeletePipeline, DeletePipeline, Check, Prepare, AnswerFailed, Abandon, SaveVersion, CreatePipeline,
         ActivateVersion, PatchBot, abVars
-----------------------------------------------------------------------------
(* The invariant is inductive: one lemma per conjunct.                     *)

(* Types: what a handler read has the type of where it was read. *)
LEMMA TypeStep == IInv /\ Next => TypeOK'
<1> SUFFICES ASSUME IInv, Next PROVE TypeOK'
  OBVIOUS
<1>r. /\ TypeOK
      /\ \A q \in Slots : req[q] \in Reading
  BY DEF IInv, TypeOK
<1>n. None \notin Versions /\ None \notin Pipelines /\ None \notin Positions
  BY ExperimentsAssumption
<1>b. BotGraph \in Versions \cup {None}
  BY DEF BotGraph, IInv, TypeOK
<1>1. ASSUME NEW e \in Exps, NEW payload \in Payloads, Create(e, payload) PROVE TypeOK'
  BY <1>1, PayloadsAssumption DEF Create, botVars, IInv, TypeOK
<1>2. ASSUME NEW e \in Exps, Stop(e) PROVE TypeOK'
  BY <1>2 DEF Stop, botVars, IInv, TypeOK
<1>3. ASSUME NEW e \in Exps, NEW a \in Positions, Promote(e, a) PROVE TypeOK'
  <2> DEFINE v == arms[e][a].version
  <2>1. v \in Versions /\ Saved(v)
    BY <1>3, <1>r DEF Promote, IInv, RefInv, TypeOK, Arm
  <2>2. PipelineOf[v] \in Pipelines /\ v \notin unsaved
    BY <2>1, ExperimentsAssumption DEF Saved
  <2>3. QED
    BY <1>3, <2>1, <2>2 DEF Promote, IInv, TypeOK
<1>4. ASSUME NEW q \in Slots, NEW e \in Exps, OpenStart(q, e) PROVE TypeOK'
  <2>1. req' = [req EXCEPT ![q] = [at |-> "start", exp |-> e, status |-> status[e]]]
        /\ status[e] \in {"draft", "running"}
    BY <1>4 DEF OpenStart
  <2>2. req' \in [Slots -> Reading]
    BY <1>r, <2>1 DEF Reading, TypeOK
  <2>3. QED
    BY <1>4, <2>2 DEF OpenStart, abVars, botVars, IInv, TypeOK
<1>5. ASSUME NEW q \in Slots, NEW e \in Exps, OpenDelete(q, e) PROVE TypeOK'
  <2>1. req' \in [Slots -> Reading]
    BY <1>r, <1>5 DEF OpenDelete, Reading, TypeOK
  <2>2. QED
    BY <1>5, <2>1 DEF OpenDelete, abVars, botVars, IInv, TypeOK
<1>6. ASSUME NEW q \in Slots, NEW s \in Subjects, Resolve(q, s) PROVE TypeOK'
  <2>1. PICK e \in Latest :
          \E arm \in IF assigned[e][s] = None THEN Picked(arms[e], BucketOf[e][s])
                                             ELSE {assigned[e][s]} :
             req' = [req EXCEPT ![q] = [at |-> "turn", exp |-> e, subject |-> s, arm |-> arm,
                                        fresh |-> (assigned[e][s] = None),
                                        version |-> arms[e][arm].version]]
    BY <1>6 DEF Resolve, ArmFor
  <2> DEFINE choices == IF assigned[e][s] = None THEN Picked(arms[e], BucketOf[e][s])
                                                 ELSE {assigned[e][s]}
  <2>2. PICK arm \in choices :
             req' = [req EXCEPT ![q] = [at |-> "turn", exp |-> e, subject |-> s, arm |-> arm,
                                        fresh |-> (assigned[e][s] = None),
                                        version |-> arms[e][arm].version]]
    BY <2>1
  <2>3. e \in Exps
    BY DEF Latest, Running
  <2>4. arm \in Positions /\ arms[e][arm] # None
    <3>1. CASE assigned[e][s] = None
      BY <2>2, <3>1 DEF Picked, Present
    <3>2. CASE assigned[e][s] # None
      BY <2>2, <2>3, <3>2 DEF IInv, RefInv, TypeOK
    <3>3. QED
      BY <3>1, <3>2
  <2>5. arms[e][arm].version \in Versions \cup {None}
    <3>1. arms[e] \in [Positions -> Arm \cup {None}]
      BY <1>r, <2>3 DEF TypeOK
    <3>2. arms[e][arm] \in Arm
      BY <2>4, <3>1
    <3>3. QED
      BY <3>2 DEF Arm
  <2>6. [at |-> "turn", exp |-> e, subject |-> s, arm |-> arm, fresh |-> (assigned[e][s] = None),
         version |-> arms[e][arm].version] \in Reading
    BY <2>3, <2>4, <2>5 DEF Reading
  <2>7. req' \in [Slots -> Reading]
    BY <1>r, <2>2, <2>6 DEF TypeOK
  <2>8. QED
    BY <1>6, <2>7 DEF Resolve, abVars, botVars, IInv, TypeOK
<1>7. ASSUME NEW q \in Slots, NEW p \in Pipelines, OpenDeletePipeline(q, p) PROVE TypeOK'
  <2>1. req' \in [Slots -> Reading]
    BY <1>r, <1>7 DEF OpenDeletePipeline, Reading, TypeOK
  <2>2. QED
    BY <1>7, <2>1 DEF OpenDeletePipeline, abVars, botVars, IInv, TypeOK
<1>8. ASSUME NEW q \in Slots, Check(q) PROVE TypeOK'
  <2>1. req[q].exp \in Exps /\ req[q].status \in {"draft", "running"}
    BY <1>8, <1>r, Readings DEF Check
  <2>2. PICK control \in Controls(arms[req[q].exp]), pin \in Versions \cup {None} :
          req' = [req EXCEPT ![q] = [at |-> "pinned", exp |-> req[q].exp, status |-> req[q].status,
                                     control |-> control, pin |-> pin, time |-> now + 1]]
    BY <1>8, <1>b DEF Check
  <2>3. control \in Positions
    BY DEF Controls, Present
  <2>4. now + 1 \in 1 .. MaxStarts
    BY <1>8, ExperimentsAssumption DEF Check, IInv, TypeOK
  <2>5. [at |-> "pinned", exp |-> req[q].exp, status |-> req[q].status, control |-> control,
         pin |-> pin, time |-> now + 1] \in Reading
    BY <2>1, <2>3, <2>4 DEF Reading
  <2>6. req' \in [Slots -> Reading]
    BY <1>r, <2>2, <2>5 DEF TypeOK
  <2>7. now' \in 0 .. MaxStarts
    BY <1>8, <2>4 DEF Check
  <2>8. QED
    BY <1>8, <2>6, <2>7 DEF Check, abVars, botVars, IInv, TypeOK
<1>f. ASSUME NEW q \in Slots, Free(q) PROVE req' \in [Slots -> Reading]
  BY <1>f, <1>r DEF Free, Reading, TypeOK
<1>9. ASSUME NEW q \in Slots, Start(q) PROVE TypeOK'
  <2>1. /\ req[q].exp \in Exps /\ req[q].control \in Positions
        /\ req[q].pin \in Versions \cup {None} /\ req[q].time \in 1 .. MaxStarts
    BY <1>9, <1>r, Readings DEF Start
  <2>2. req' \in [Slots -> Reading]
    BY <1>9, <1>f DEF Start
  <2>3. startedAt' \in [Exps -> 0 .. MaxStarts]
    BY <1>9, <2>1, ExperimentsAssumption DEF Start, IInv, TypeOK
  <2>4. arms' \in [Exps -> [Positions -> Arm \cup {None}]]
    <3>1. CASE req[q].pin = None
      BY <1>9, <1>r, <3>1 DEF Start, TypeOK
    <3>2. CASE req[q].pin # None
      <4>1. arms[req[q].exp][req[q].control] \in Arm
        BY <1>9, <1>r, <2>1, <3>2 DEF Start, TypeOK
      <4>2. [arms[req[q].exp][req[q].control] EXCEPT !.version = req[q].pin] \in Arm
        BY <2>1, <4>1 DEF Arm
      <4>3. QED
        BY <1>9, <1>r, <3>2, <4>2 DEF Start, TypeOK
    <3>3. QED
      BY <3>1, <3>2
  <2>5. status' \in [Exps -> {"unborn", "draft", "running", "stopped", "gone"}]
    BY <1>9, <1>r DEF Start, TypeOK
  <2>6. QED
    BY <1>9, <2>2, <2>3, <2>4, <2>5 DEF Start, botVars, IInv, TypeOK
<1>10. ASSUME NEW q \in Slots, Delete(q) PROVE TypeOK'
  <2>1. req' \in [Slots -> Reading]
    BY <1>10, <1>f DEF Delete
  <2>2. QED
    BY <1>10, <2>1 DEF Delete, botVars, IInv, TypeOK
<1>11. ASSUME NEW q \in Slots, DeletePipeline(q) PROVE TypeOK'
  <2>1. req' \in [Slots -> Reading]
    BY <1>11, <1>f DEF DeletePipeline
  <2>2. arms' \in [Exps -> [Positions -> Arm \cup {None}]]
    BY <1>11, <1>r DEF DeletePipeline, TypeOK
  <2>3. assigned' \in [Exps -> [Subjects -> Positions \cup {None}]]
    BY <1>11, <1>r DEF DeletePipeline, TypeOK
  <2>4. QED
    BY <1>11, <2>1, <2>2, <2>3 DEF DeletePipeline, IInv, TypeOK
<1>12. ASSUME NEW q \in Slots, Prepare(q) PROVE TypeOK'
  <2> DEFINE graph == IF req[q].version # None /\ Saved(req[q].version)
                      THEN req[q].version ELSE BotGraph
  <2>1. /\ req[q].exp \in Exps /\ req[q].subject \in Subjects /\ req[q].arm \in Positions
        /\ req[q].fresh \in BOOLEAN /\ req[q].version \in Versions \cup {None}
    BY <1>12, <1>r, Readings DEF Prepare
  <2>2. graph \in Versions \cup {None}
    BY <1>b, <2>1
  <2>3. [at |-> "answer", exp |-> req[q].exp, subject |-> req[q].subject, arm |-> req[q].arm,
         fresh |-> req[q].fresh, graph |-> graph] \in Reading
    BY <2>1, <2>2 DEF Reading
  <2>4. req' \in [Slots -> Reading]
    BY <1>12, <1>r, <2>3 DEF Prepare, DagFor, TypeOK
  <2>5. QED
    BY <1>12, <2>4 DEF Prepare, abVars, botVars, IInv, TypeOK
<1>13. ASSUME NEW q \in Slots, Answer(q) \/ AnswerFailed(q) PROVE TypeOK'
  <2>1. /\ req[q].exp \in Exps /\ req[q].subject \in Subjects /\ req[q].arm \in Positions
        /\ req[q].graph \in Versions \cup {None}
    BY <1>13, <1>r, Readings DEF Answer, AnswerFailed
  <2>2. req' \in [Slots -> Reading]
    BY <1>13, <1>f DEF Answer, AnswerFailed
  <2>3. assigned' \in [Exps -> [Subjects -> Positions \cup {None}]]
    <3>1. Assign(req[q])
      BY <1>13 DEF Answer, AnswerFailed
    <3>2. CASE req[q].fresh
      <4>1. assigned' = [assigned EXCEPT ![req[q].exp][req[q].subject] = req[q].arm]
        BY <3>1, <3>2 DEF Assign
      <4>2. QED
        BY <1>r, <2>1, <4>1 DEF TypeOK
    <3>3. CASE ~req[q].fresh
      BY <1>r, <3>1, <3>3 DEF Assign, TypeOK
    <3>4. QED
      BY <3>2, <3>3
  <2>4. usage' \subseteq Tags
    BY <1>13, <1>r, <2>1 DEF Answer, AnswerFailed, TypeOK, Tags
  <2>5. QED
    BY <1>13, <2>2, <2>3, <2>4 DEF Answer, AnswerFailed, botVars, IInv, TypeOK
<1>14. ASSUME NEW q \in Slots, Abandon(q) PROVE TypeOK'
  <2>1. req' \in [Slots -> Reading]
    BY <1>14, <1>f DEF Abandon
  <2>2. QED
    BY <1>14, <2>1 DEF Abandon, abVars, botVars, IInv, TypeOK
<1>19. ASSUME NEW p \in Pipelines, CreatePipeline(p) PROVE TypeOK'
  BY <1>19, ExperimentsAssumption DEF CreatePipeline, abVars, IInv, TypeOK
<1>15. ASSUME NEW v \in Versions, SaveVersion(v) PROVE TypeOK'
  BY <1>15, ExperimentsAssumption DEF SaveVersion, abVars, IInv, TypeOK
<1>16. ASSUME NEW v \in Versions, ActivateVersion(v) PROVE TypeOK'
  BY <1>16, ExperimentsAssumption DEF ActivateVersion, Saved, abVars, IInv, TypeOK
<1>17. ASSUME NEW p \in Pipelines \cup {None}, PatchBot(p) PROVE TypeOK'
  BY <1>17 DEF PatchBot, abVars, IInv, TypeOK
<1>18. QED
  BY <1>1, <1>2, <1>3, <1>4, <1>5, <1>6, <1>7, <1>8, <1>9, <1>10, <1>11, <1>12, <1>13, <1>14,
     <1>15, <1>16, <1>17, <1>19 DEF Next

(* An assignment names an arm that exists: the cascades take both. *)
LEMMA AssignedStep ==
  IInv /\ Next => \A e \in Exps, s \in Subjects :
                     assigned'[e][s] # None => arms'[e][assigned'[e][s]] # None
<1> SUFFICES ASSUME IInv, Next, NEW e \in Exps, NEW s \in Subjects, assigned'[e][s] # None
             PROVE  arms'[e][assigned'[e][s]] # None
  OBVIOUS
<1>r. \A f \in Exps, t \in Subjects : assigned[f][t] # None =>
         assigned[f][t] \in Positions /\ arms[f][assigned[f][t]] # None
  BY DEF IInv, TypeOK, RefInv
<1>1. ASSUME NEW f \in Exps, NEW payload \in Payloads, Create(f, payload)
      PROVE  arms'[e][assigned'[e][s]] # None
  <2>1. CASE e = f
    <3>1. \A a \in Positions : arms[e][a] = None
      BY <1>1, <2>1 DEF Create, IInv, RefInv
    <3>2. assigned[e][s] = None
      BY <1>r, <3>1
    <3>3. QED
      BY <1>1, <3>2 DEF Create
  <2>2. CASE e # f
    BY <1>1, <1>r, <2>2 DEF Create, IInv, TypeOK
  <2>3. QED
    BY <2>1, <2>2
<1>2. ASSUME NEW q \in Slots, Start(q)
      PROVE  arms'[e][assigned'[e][s]] # None
  <2> DEFINE c == req[q].control
  <2>1. assigned' = assigned /\ arms[e][assigned[e][s]] # None /\ assigned[e][s] \in Positions
    BY <1>2, <1>r DEF Start
  <2>2. CASE req[q].pin = None
    BY <1>2, <2>1, <2>2 DEF Start
  <2>3. CASE req[q].pin # None
    <3>1. arms' = [arms EXCEPT ![req[q].exp][c].version = req[q].pin]
      BY <1>2, <2>3 DEF Start
    <3>2. CASE e = req[q].exp /\ assigned[e][s] = c
      <4>1. arms[e][c] \in Arm /\ c \in Positions
        BY <2>1, <3>2 DEF IInv, TypeOK
      <4>2. arms'[e][c] = [arms[e][c] EXCEPT !.version = req[q].pin]
        BY <3>1, <3>2, <4>1 DEF IInv, TypeOK
      <4>3. arms'[e][c].control \in BOOLEAN /\ arms'[e][c] # None
        <5>1. req[q].pin \in Versions \cup {None}
          BY <1>2, Readings DEF Start, IInv, TypeOK
        <5>2. arms'[e][c] \in Arm
          BY <4>1, <4>2, <5>1 DEF Arm
        <5>3. QED
          BY <5>2, PayloadsAssumption DEF Arm
      <4>4. QED
        BY <2>1, <3>2, <4>3
    <3>3. CASE ~(e = req[q].exp /\ assigned[e][s] = c)
      BY <2>1, <3>1, <3>3 DEF IInv, TypeOK
    <3>4. QED
      BY <3>2, <3>3
  <2>4. QED
    BY <2>2, <2>3
<1>3. ASSUME NEW q \in Slots, Delete(q)
      PROVE  arms'[e][assigned'[e][s]] # None
  BY <1>3, <1>r DEF Delete, IInv, TypeOK
<1>4. ASSUME NEW q \in Slots, DeletePipeline(q)
      PROVE  arms'[e][assigned'[e][s]] # None
  BY <1>4, <1>r DEF DeletePipeline
<1>5. ASSUME NEW q \in Slots, Answer(q) \/ AnswerFailed(q)
      PROVE  arms'[e][assigned'[e][s]] # None
  <2>1. arms' = arms /\ Assign(req[q])
    BY <1>5 DEF Answer, AnswerFailed
  <2>2. CASE req[q].fresh
    <3>1. /\ arms[req[q].exp][req[q].arm] # None
          /\ assigned' = [assigned EXCEPT ![req[q].exp][req[q].subject] = req[q].arm]
      BY <2>1, <2>2 DEF Assign
    <3>2. QED
      BY <1>r, <2>1, <3>1 DEF IInv, TypeOK
  <2>3. CASE ~req[q].fresh
    BY <1>r, <2>1, <2>3 DEF Assign
  <2>4. QED
    BY <2>2, <2>3
<1>6. QED
  BY <1>1, <1>2, <1>3, <1>4, <1>5, <1>r
     DEF Next, Stop, Promote, OpenStart, OpenDelete, Resolve, OpenDeletePipeline, Check, Prepare,
         Abandon, SaveVersion, CreatePipeline,
         ActivateVersion, PatchBot, abVars

(* What is saved stays saved until its pipeline is deleted. *)
LEMMA SavedStep ==
  ASSUME IInv, Next, NEW v \in Versions, Saved(v),
         \A q \in Slots : DeletePipeline(q) => PipelineOf[v] # req[q].pipeline
  PROVE  Saved(v)'
<1>0. /\ v \notin unsaved /\ current[PipelineOf[v]] # None /\ PipelineOf[v] \in Pipelines
      /\ current \in [Pipelines -> Versions \cup {None}]
      /\ None \notin Versions
  BY ExperimentsAssumption DEF Saved, IInv, TypeOK
<1>1. ASSUME NEW e \in Exps, NEW a \in Positions, Promote(e, a)
      PROVE  Saved(v)'
  BY <1>0, <1>1 DEF Promote, Saved
<1>2. ASSUME NEW w \in Versions, SaveVersion(w) \/ ActivateVersion(w)
      PROVE  Saved(v)'
  BY <1>0, <1>2 DEF SaveVersion, ActivateVersion, Saved
<1>5. ASSUME NEW p \in Pipelines, CreatePipeline(p)
      PROVE  Saved(v)'
  BY <1>0, <1>5, ExperimentsAssumption DEF CreatePipeline, Saved
<1>3. ASSUME NEW q \in Slots, DeletePipeline(q)
      PROVE  Saved(v)'
  BY <1>0, <1>3 DEF DeletePipeline, Saved
<1>4. QED
  BY <1>0, <1>1, <1>2, <1>3, <1>5
     DEF Next, Create, Start, Stop, Delete, OpenStart, OpenDelete, Resolve, OpenDeletePipeline,
         Check, Prepare, Answer, AnswerFailed, Abandon, PatchBot, botVars, Saved

(* What is known of an arm that exists. *)
LEMMA ArmKnown ==
  ASSUME IInv, NEW e \in Exps, NEW a \in Positions, arms[e][a] # None
  PROVE  /\ status[e] # "unborn" /\ status[e] # "gone"
         /\ arms[e][a].version \in Versions \cup {None}
         /\ arms[e][a].control \in BOOLEAN
         /\ arms[e][a].version # None => Saved(arms[e][a].version)
<1>1. arms[e][a] \in Arm
  BY DEF IInv, TypeOK
<1>2. arms[e][a].version \in Versions \cup {None} /\ arms[e][a].control \in BOOLEAN
  BY <1>1 DEF Arm
<1>3. status[e] # "unborn" /\ status[e] # "gone"
  BY DEF IInv, RefInv
<1>4. arms[e][a].version # None => Saved(arms[e][a].version)
  BY DEF IInv, RefInv
<1>5. QED
  BY <1>2, <1>3, <1>4

(* An arm belongs to a live experiment and runs a saved version. *)
LEMMA LiveStep ==
  ASSUME IInv, Next, NEW e \in Exps, NEW a \in Positions, arms'[e][a] # None
  PROVE  /\ status'[e] # "unborn" /\ status'[e] # "gone"
         /\ arms'[e][a].version # None => Saved(arms[e][a].version)'
<1>t. /\ arms \in [Exps -> [Positions -> Arm \cup {None}]]
      /\ status \in [Exps -> {"unborn", "draft", "running", "stopped", "gone"}]
  BY DEF IInv, TypeOK
<1>f. ASSUME NEW q \in Slots, Start(q)
      PROVE  /\ req[q].exp \in Exps /\ req[q].control \in Positions
             /\ status[req[q].exp] # "unborn" /\ status[req[q].exp] # "gone"
  BY <1>f, Readings DEF Start, IInv, TypeOK, KnownInv
<1>a. (\A payload \in Payloads : ~Create(e, payload)) => arms[e][a] # None
  <2>1. SUFFICES ASSUME \A payload \in Payloads : ~Create(e, payload)
                 PROVE  arms[e][a] # None
    OBVIOUS
  <2>2. ASSUME NEW q \in Slots, Start(q)
        PROVE  arms[e][a] # None
    BY <1>f, <1>t, <2>2 DEF Start
  <2>3. ASSUME NEW f \in Exps, NEW payload \in Payloads, Create(f, payload)
        PROVE  arms'[e] = arms[e]
    BY <1>t, <2>1, <2>3 DEF Create
  <2>4. ASSUME NEW q \in Slots, Delete(q) \/ DeletePipeline(q)
        PROVE  arms[e][a] # None
    BY <1>t, <2>4 DEF Delete, DeletePipeline
  <2>5. QED
    BY <2>2, <2>3, <2>4
       DEF Next, Stop, Promote, OpenStart, OpenDelete, Resolve, OpenDeletePipeline, Check, Prepare,
           Answer, AnswerFailed, Abandon, SaveVersion, CreatePipeline,
         ActivateVersion, PatchBot, abVars
<1>1. CASE \E payload \in Payloads : Create(e, payload)
  <2>1. PICK payload \in Payloads : Create(e, payload)
    BY <1>1
  <2>2. arms'[e] = payload /\ status'[e] = "draft"
    BY <1>t, <2>1 DEF Create
  <2>3. payload[a].version # None => Saved(payload[a].version)
    BY <2>1, <2>2 DEF Create, Present
  <2>4. unsaved' = unsaved /\ current' = current
    BY <2>1 DEF Create, botVars
  <2>5. QED
    BY <2>2, <2>3, <2>4 DEF Saved
<1>2. CASE \A payload \in Payloads : ~Create(e, payload)
  <2>1. /\ status[e] # "unborn" /\ status[e] # "gone"
        /\ arms[e][a].version \in Versions \cup {None}
        /\ arms[e][a].version # None => Saved(arms[e][a].version)
    BY <1>2, <1>a, ArmKnown
  <2>2. status'[e] # "unborn"
    BY <2>1, StatusStep
  <2>3. status'[e] # "gone"
    <3>1. ASSUME NEW q \in Slots, Delete(q)
          PROVE  status'[e] # "gone"
      BY <1>t, <2>1, <3>1 DEF Delete
    <3>2. ASSUME NEW q \in Slots, Start(q)
          PROVE  status'[e] # "gone"
      BY <1>t, <2>1, <3>2 DEF Start
    <3>3. ASSUME NEW f \in Exps, Stop(f) \/ \E b \in Positions : Promote(f, b)
          PROVE  status'[e] # "gone"
      BY <1>t, <2>1, <3>3 DEF Stop, Promote
    <3>4. ASSUME NEW f \in Exps, NEW payload \in Payloads, Create(f, payload)
          PROVE  status'[e] # "gone"
      BY <1>t, <2>1, <3>4 DEF Create
    <3>5. QED
      BY <2>1, <3>1, <3>2, <3>3, <3>4
         DEF Next, OpenStart, OpenDelete, Resolve, OpenDeletePipeline, DeletePipeline, Check,
             Prepare, Answer, AnswerFailed, Abandon, SaveVersion, CreatePipeline,
         ActivateVersion, PatchBot, abVars
  <2>4. CASE arms'[e][a] = arms[e][a] /\ arms[e][a].version # None
    <3>1. PICK v \in Versions : v = arms[e][a].version /\ Saved(v)
      BY <2>1, <2>4
    <3>2. ASSUME NEW q \in Slots, DeletePipeline(q)
          PROVE  PipelineOf[v] # req[q].pipeline
      BY <1>2, <1>a, <2>4, <3>1, <3>2 DEF DeletePipeline, Present
    <3>3. Saved(v)'
      BY <3>1, <3>2, SavedStep
    <3>4. arms'[e][a].version = v
      BY <2>4, <3>1
    <3>5. QED
      BY <2>2, <2>3, <3>3, <3>4 DEF Saved
  <2>5. CASE arms'[e][a] # arms[e][a]
    <3>1. ASSUME NEW q \in Slots, Start(q)
          PROVE  Saved(arms[e][a].version)' \/ arms'[e][a].version = None
      <4>1. /\ req[q].pin # None /\ e = req[q].exp /\ a = req[q].control
            /\ arms' = [arms EXCEPT ![req[q].exp][req[q].control].version = req[q].pin]
        BY <1>f, <1>t, <2>5, <3>1 DEF Start
      <4>2. arms[e][a] \in Arm
        BY <1>2, <1>a, <1>t
      <4>3. arms'[e][a] = [arms[e][a] EXCEPT !.version = req[q].pin]
        BY <1>t, <4>1
      <4>4. arms'[e][a].version = req[q].pin
        BY <4>2, <4>3 DEF Arm
      <4>5. Saved(req[q].pin) /\ unsaved' = unsaved /\ current' = current
        BY <3>1, <4>1 DEF Start, botVars
      <4>6. QED
        BY <4>4, <4>5 DEF Saved
    <3>2. ASSUME NEW f \in Exps, NEW payload \in Payloads, Create(f, payload)
          PROVE  arms'[e][a] = arms[e][a]
      BY <1>2, <1>t, <3>2 DEF Create
    <3>3. ASSUME NEW q \in Slots, Delete(q) \/ DeletePipeline(q)
          PROVE  arms'[e][a] = arms[e][a]
      BY <1>t, <3>3 DEF Delete, DeletePipeline
    <3>4. \E q \in Slots : Start(q)
      BY <2>5, <3>2, <3>3
         DEF Next, Stop, Promote, OpenStart, OpenDelete, Resolve, OpenDeletePipeline, Check,
             Prepare, Answer, AnswerFailed, Abandon, SaveVersion, CreatePipeline,
         ActivateVersion, PatchBot, abVars
    <3>5. QED
      BY <2>2, <2>3, <3>1, <3>4
  <2>6. QED
    BY <2>2, <2>3, <2>4, <2>5
<1>3. QED
  BY <1>1, <1>2

(* Nobody adds a second control. *)
LEMMA ControlStep ==
  ASSUME IInv, Next, NEW e \in Exps, NEW a \in Positions, NEW b \in Positions,
         a \in Controls(arms[e])', b \in Controls(arms[e])'
  PROVE  a = b
<1>0. /\ arms'[e][a] # None /\ arms'[e][a].control
      /\ arms'[e][b] # None /\ arms'[e][b].control
  BY DEF Controls, Present
<1>1. CASE status[e] # "unborn"
  <2>1. arms[e][a] # None /\ arms[e][a].control /\ arms[e][b] # None /\ arms[e][b].control
    BY <1>0, <1>1, ArmStep
  <2>2. a \in Controls(arms[e]) /\ b \in Controls(arms[e])
    BY <2>1 DEF Controls, Present
  <2>3. QED
    BY <2>2 DEF IInv, RefInv
<1>2. CASE status[e] = "unborn"
  <2>1. arms[e][a] = None
    BY <1>2 DEF IInv, RefInv
  <2>2. CASE \E payload \in Payloads : Create(e, payload)
    <3>1. PICK payload \in Payloads : Create(e, payload)
      BY <2>2
    <3>2. arms'[e] = payload /\ ValidSplit(payload)
      BY <3>1 DEF Create, IInv, TypeOK
    <3>3. a \in Controls(payload) /\ b \in Controls(payload)
      BY <1>0, <3>2 DEF Controls, Present
    <3>4. QED
      BY <3>2, <3>3, OneControl
  <2>3. CASE \A payload \in Payloads : ~Create(e, payload)
    <3>t. arms \in [Exps -> [Positions -> Arm \cup {None}]]
      BY DEF IInv, TypeOK
    <3>1. ASSUME NEW q \in Slots, Start(q)
          PROVE  arms'[e] = arms[e]
      <4>1. req[q].exp \in Exps /\ status[req[q].exp] # "unborn"
        BY <3>1, Readings DEF Start, IInv, TypeOK, KnownInv
      <4>2. QED
        BY <1>2, <3>t, <3>1, <4>1 DEF Start
    <3>2. ASSUME NEW f \in Exps, NEW payload \in Payloads, Create(f, payload)
          PROVE  arms'[e] = arms[e]
      BY <2>3, <3>t, <3>2 DEF Create
    <3>3. ASSUME NEW q \in Slots, Delete(q)
          PROVE  arms'[e][a] = None \/ arms'[e][a] = arms[e][a]
      BY <3>t, <3>3 DEF Delete
    <3>4. ASSUME NEW q \in Slots, DeletePipeline(q)
          PROVE  arms'[e][a] = None \/ arms'[e][a] = arms[e][a]
      BY <3>4 DEF DeletePipeline
    <3>5. arms'[e][a] = None \/ arms'[e][a] = arms[e][a]
      BY <3>1, <3>2, <3>3, <3>4
         DEF Next, Stop, Promote, OpenStart, OpenDelete, Resolve, OpenDeletePipeline, Check,
             Prepare, Answer, AnswerFailed, Abandon, SaveVersion, CreatePipeline,
         ActivateVersion, PatchBot, abVars
    <3>6. QED
      BY <1>0, <2>1, <3>5
  <2>4. QED
    BY <2>2, <2>3
<1>3. QED
  BY <1>1, <1>2

LEMMA RefStep == IInv /\ Next => RefInv'
<1> SUFFICES ASSUME IInv, Next PROVE RefInv'
  OBVIOUS
<1>1. \A e \in Exps, s \in Subjects :
         assigned'[e][s] # None => arms'[e][assigned'[e][s]] # None
  BY AssignedStep
<1>2. \A e \in Exps, a \in Positions : arms'[e][a] # None =>
         /\ status'[e] \notin {"unborn", "gone"}
         /\ arms'[e][a].version # None => Saved(arms[e][a].version)'
  BY LiveStep
<1>3. \A e \in Exps, a, b \in Positions :
         (a \in Controls(arms[e])' /\ b \in Controls(arms[e])') => a = b
  BY ControlStep
<1>4. QED
  BY <1>1, <1>2, <1>3 DEF RefInv

(* A handler reads once, prepares or checks once, and is done. *)
LEMMA RequestStep ==
  ASSUME IInv, Next, NEW q \in Slots, req'[q] # req[q]
  PROVE  \/ req'[q] = Idle
         \/ \E e \in Exps : OpenStart(q, e) \/ OpenDelete(q, e)
         \/ \E p \in Pipelines : OpenDeletePipeline(q, p)
         \/ \E s \in Subjects : Resolve(q, s)
         \/ Check(q) \/ Prepare(q)
<1>t. req \in [Slots -> Reading]
  BY DEF IInv, TypeOK
<1>1. ASSUME NEW r \in Slots, r # q, \E e \in Exps : OpenStart(r, e) \/ OpenDelete(r, e)
      PROVE  req'[q] = req[q]
  BY <1>t, <1>1 DEF OpenStart, OpenDelete
<1>2. ASSUME NEW r \in Slots, r # q, \E p \in Pipelines : OpenDeletePipeline(r, p)
      PROVE  req'[q] = req[q]
  BY <1>t, <1>2 DEF OpenDeletePipeline
<1>3. ASSUME NEW r \in Slots, r # q, NEW s \in Subjects, Resolve(r, s)
      PROVE  req'[q] = req[q]
  BY <1>t, <1>3 DEF Resolve
<1>4. ASSUME NEW r \in Slots, r # q, Check(r) \/ Prepare(r)
      PROVE  req'[q] = req[q]
  BY <1>t, <1>4 DEF Check, Prepare
<1>5. ASSUME NEW r \in Slots, Free(r)
      PROVE  req'[q] = req[q] \/ req'[q] = Idle
  BY <1>t, <1>5 DEF Free
<1>6. QED
  BY <1>1, <1>2, <1>3, <1>4, <1>5
     DEF Next, Create, Start, Stop, Delete, Promote, DeletePipeline, Answer, AnswerFailed, Abandon,
         SaveVersion, CreatePipeline, ActivateVersion, PatchBot

LEMMA KnownStep == IInv /\ Next => KnownInv'
<1> SUFFICES ASSUME IInv, Next PROVE KnownInv'
  OBVIOUS
<1>1. ASSUME NEW e \in Exps, status'[e] = "unborn"
      PROVE  startedAt'[e] = 0
  <2>1. status[e] = "unborn"
    BY <1>1, StatusStep
  <2>2. startedAt[e] = 0
    BY <2>1 DEF IInv, KnownInv
  <2>3. ASSUME NEW q \in Slots, Start(q)
        PROVE  startedAt'[e] = startedAt[e]
    <3>1. req[q].exp \in Exps /\ status[req[q].exp] # "unborn"
      BY <2>3, Readings DEF Start, IInv, TypeOK, KnownInv
    <3>2. QED
      BY <2>1, <2>3, <3>1 DEF Start, IInv, TypeOK
  <2>4. QED
    BY <2>2, <2>3
       DEF Next, Create, Stop, Delete, Promote, OpenStart, OpenDelete, Resolve,
           OpenDeletePipeline, DeletePipeline, Check, Prepare, Answer, AnswerFailed, Abandon,
           SaveVersion, CreatePipeline,
         ActivateVersion, PatchBot, abVars
<1>k. ASSUME NEW q \in Slots, req[q].at \in {"start", "pinned", "delete", "turn", "answer"}
      PROVE  req[q].exp \in Exps /\ status[req[q].exp] # "unborn"
  BY <1>k, Readings DEF IInv, TypeOK, KnownInv
<1>2. ASSUME NEW t \in usage'
      PROVE  status'[t.exp] # "unborn"
  <2>1. CASE t \in usage
    BY <2>1, StatusStep DEF IInv, TypeOK, Tags, KnownInv
  <2>2. CASE t \notin usage
    BY <1>k, <2>2, UsageStep
  <2>3. QED
    BY <2>1, <2>2
<1>3. ASSUME NEW q \in Slots, req'[q].at \in {"start", "pinned", "delete", "turn", "answer"}
      PROVE  status'[req'[q].exp] # "unborn"
  <2>t. req \in [Slots -> Reading]
    BY DEF IInv, TypeOK
  <2>1. CASE req'[q] = req[q]
    BY <1>3, <1>k, <2>1, StatusStep
  <2>2. CASE req'[q] = Idle
    BY <1>3, <2>2 DEF Idle
  <2>3. ASSUME NEW e \in Exps, OpenStart(q, e) \/ OpenDelete(q, e)
        PROVE  status'[req'[q].exp] # "unborn"
    BY <2>t, <2>3 DEF OpenStart, OpenDelete, abVars
  <2>4. ASSUME NEW p \in Pipelines, OpenDeletePipeline(q, p)
        PROVE  status'[req'[q].exp] # "unborn"
    BY <1>3, <2>t, <2>4 DEF OpenDeletePipeline
  <2>5. ASSUME NEW s \in Subjects, Resolve(q, s)
        PROVE  status'[req'[q].exp] # "unborn"
    BY <2>t, <2>5 DEF Resolve, Latest, Running, abVars
  <2>6. ASSUME Check(q) \/ Prepare(q)
        PROVE  status'[req'[q].exp] # "unborn"
    BY <1>k, <2>t, <2>6 DEF Check, Prepare, abVars
  <2>7. QED
    BY <2>1, <2>2, <2>3, <2>4, <2>5, <2>6, RequestStep
<1>4. QED
  BY <1>1, <1>2, <1>3 DEF KnownInv

(* An arm that a handler has read is the same, or gone, or a control. *)
LEMMA ReadArmStep ==
  ASSUME IInv, Next, NEW q \in Slots, req[q].at \in {"turn", "answer"},
         arms'[req[q].exp][req[q].arm] # None
  PROVE  /\ arms[req[q].exp][req[q].arm] # None
         /\ arms'[req[q].exp][req[q].arm].control = arms[req[q].exp][req[q].arm].control
         /\ ~arms[req[q].exp][req[q].arm].control =>
               arms'[req[q].exp][req[q].arm] = arms[req[q].exp][req[q].arm]
<1>1. PICK e \in Exps, a \in Positions :
         e = req[q].exp /\ a = req[q].arm /\ status[e] # "unborn"
  BY Readings DEF IInv, TypeOK, KnownInv
<1>2. QED
  BY <1>1, ArmStep

LEMMA TurnStep == IInv /\ Next => TurnInv'
<1> SUFFICES ASSUME IInv, Next, NEW q \in Slots, req'[q].at \in {"turn", "answer"},
                    arms'[req'[q].exp][req'[q].arm] # None
             PROVE  /\ ~req'[q].fresh =>
                          assigned'[req'[q].exp][req'[q].subject] = req'[q].arm
                    /\ (req'[q].at = "turn" /\ ~arms'[req'[q].exp][req'[q].arm].control) =>
                          req'[q].version = arms'[req'[q].exp][req'[q].arm].version
                    /\ (/\ req'[q].at = "answer"
                        /\ ~arms'[req'[q].exp][req'[q].arm].control
                        /\ arms'[req'[q].exp][req'[q].arm].version # None) =>
                          req'[q].graph = arms'[req'[q].exp][req'[q].arm].version
  BY DEF TurnInv
<1>t. req \in [Slots -> Reading]
  BY DEF IInv, TypeOK
<1>1. CASE req'[q] = req[q]
  <2>1. /\ arms[req[q].exp][req[q].arm] # None
        /\ arms'[req[q].exp][req[q].arm].control = arms[req[q].exp][req[q].arm].control
        /\ ~arms[req[q].exp][req[q].arm].control =>
              arms'[req[q].exp][req[q].arm] = arms[req[q].exp][req[q].arm]
    BY <1>1, ReadArmStep
  <2>2. PICK e \in Exps, s \in Subjects, a \in Positions :
          e = req[q].exp /\ s = req[q].subject /\ a = req[q].arm
    BY <1>1, Readings DEF IInv, TypeOK
  <2>3. ASSUME ~req[q].fresh
        PROVE  assigned'[e][s] = a
    <3>1. assigned[e][s] = a
      BY <1>1, <2>1, <2>2, <2>3 DEF IInv, TurnInv
    <3>2. arms'[e][a] # None
      BY <1>1, <2>2
    <3>3. assigned[e][s] # None
      BY <3>1, ExperimentsAssumption
    <3>4. QED
      BY <3>1, <3>2, <3>3, AssignmentStep
  <2>4. QED
    BY <1>1, <2>1, <2>2, <2>3 DEF IInv, TurnInv
<1>2. CASE req'[q] = Idle
  BY <1>2 DEF Idle
<1>3. ASSUME NEW s \in Subjects, Resolve(q, s)
      PROVE  /\ req'[q].at = "turn"
             /\ ~req'[q].fresh => assigned'[req'[q].exp][req'[q].subject] = req'[q].arm
             /\ req'[q].version = arms'[req'[q].exp][req'[q].arm].version
  <2>1. arms' = arms /\ assigned' = assigned
    BY <1>3 DEF Resolve, abVars
  <2>2. PICK e \in Latest :
          \E arm \in IF assigned[e][s] = None THEN Picked(arms[e], BucketOf[e][s])
                                             ELSE {assigned[e][s]} :
             req' = [req EXCEPT ![q] = [at |-> "turn", exp |-> e, subject |-> s, arm |-> arm,
                                        fresh |-> (assigned[e][s] = None),
                                        version |-> arms[e][arm].version]]
    BY <1>3 DEF Resolve, ArmFor
  <2>3. PICK arm :
          /\ assigned[e][s] # None => arm = assigned[e][s]
          /\ req' = [req EXCEPT ![q] = [at |-> "turn", exp |-> e, subject |-> s, arm |-> arm,
                                        fresh |-> (assigned[e][s] = None),
                                        version |-> arms[e][arm].version]]
    BY <2>2
  <2>4. req'[q] = [at |-> "turn", exp |-> e, subject |-> s, arm |-> arm,
                   fresh |-> (assigned[e][s] = None), version |-> arms[e][arm].version]
    BY <1>t, <2>3
  <2>5. /\ req'[q].at = "turn" /\ req'[q].exp = e /\ req'[q].subject = s /\ req'[q].arm = arm
        /\ req'[q].version = arms[e][arm].version /\ req'[q].fresh = (assigned[e][s] = None)
    BY <2>4
  <2>6. QED
    BY <2>1, <2>3, <2>5
<1>4. ASSUME Prepare(q)
      PROVE  /\ req'[q].at = "answer"
             /\ ~req'[q].fresh => assigned'[req'[q].exp][req'[q].subject] = req'[q].arm
             /\ (/\ ~arms'[req'[q].exp][req'[q].arm].control
                 /\ arms'[req'[q].exp][req'[q].arm].version # None) =>
                   req'[q].graph = arms'[req'[q].exp][req'[q].arm].version
  <2>1. /\ req[q].at = "turn" /\ req'[q].at = "answer" /\ req'[q].exp = req[q].exp
        /\ req'[q].subject = req[q].subject /\ req'[q].arm = req[q].arm
        /\ req'[q].fresh = req[q].fresh
        /\ req'[q].graph = IF req[q].version # None /\ Saved(req[q].version)
                           THEN req[q].version ELSE BotGraph
        /\ arms' = arms /\ assigned' = assigned
    BY <1>t, <1>4 DEF Prepare, DagFor, abVars
  <2>2. PICK e \in Exps, a \in Positions : e = req[q].exp /\ a = req[q].arm
    BY <2>1, Readings DEF IInv, TypeOK
  <2>3. arms[e][a] # None
    BY <2>1, <2>2
  <2>4. /\ ~req[q].fresh => assigned[e][req[q].subject] = a
        /\ ~arms[e][a].control => req[q].version = arms[e][a].version
    BY <2>1, <2>2, <2>3 DEF IInv, TurnInv
  <2>5. arms[e][a].version # None => Saved(arms[e][a].version)
    BY <2>3, ArmKnown
  <2>6. QED
    BY <2>1, <2>2, <2>4, <2>5
<1>5. ASSUME NEW e \in Exps, OpenStart(q, e) \/ OpenDelete(q, e)
      PROVE  req'[q].at \in {"start", "delete"}
  BY <1>t, <1>5 DEF OpenStart, OpenDelete
<1>6. ASSUME NEW p \in Pipelines, OpenDeletePipeline(q, p)
      PROVE  req'[q].at = "drop"
  BY <1>t, <1>6 DEF OpenDeletePipeline
<1>7. ASSUME Check(q)
      PROVE  req'[q].at = "pinned"
  BY <1>t, <1>7 DEF Check
<1>8. QED
  BY <1>1, <1>2, <1>3, <1>4, <1>5, <1>6, <1>7, RequestStep

LEMMA TagsStep == IInv /\ Next => TagInv'
<1> SUFFICES ASSUME IInv, Next, NEW t \in usage', arms'[t.exp][t.arm] # None
             PROVE  assigned'[t.exp][t.subject] = t.arm
  BY DEF TagInv
<1>1. CASE t \in usage
  <2>1. t.exp \in Exps /\ t.subject \in Subjects /\ t.arm \in Positions
    BY <1>1 DEF IInv, TypeOK, Tags
  <2>2. status[t.exp] # "unborn"
    BY <1>1 DEF IInv, KnownInv
  <2>3. arms[t.exp][t.arm] # None
    BY <2>1, <2>2, ArmStep
  <2>4. assigned[t.exp][t.subject] = t.arm
    BY <1>1, <2>3 DEF IInv, TagInv
  <2>5. assigned[t.exp][t.subject] # None
    BY <2>1, <2>4, ExperimentsAssumption
  <2>6. QED
    BY <2>1, <2>4, <2>5, AssignmentStep
<1>2. CASE t \notin usage
  <2>1. PICK q \in Slots :
          /\ req[q].at = "answer" /\ Assign(req[q])
          /\ t = [exp |-> req[q].exp, subject |-> req[q].subject, arm |-> req[q].arm,
                  graph |-> req[q].graph]
          /\ UNCHANGED <<arms, status>>
    BY <1>2, UsageStep
  <2>2. PICK e \in Exps, s \in Subjects, a \in Positions :
          e = req[q].exp /\ s = req[q].subject /\ a = req[q].arm
    BY <2>1, Readings DEF IInv, TypeOK
  <2>3. t.exp = e /\ t.subject = s /\ t.arm = a
    BY <2>1, <2>2
  <2>4. CASE req[q].fresh
    <3>1. assigned' = [assigned EXCEPT ![e][s] = a]
      BY <2>1, <2>2, <2>4 DEF Assign
    <3>2. QED
      BY <2>3, <3>1 DEF IInv, TypeOK
  <2>5. CASE ~req[q].fresh
    <3>1. assigned' = assigned
      BY <2>1, <2>5 DEF Assign
    <3>2. arms[e][a] # None
      BY <2>1, <2>3
    <3>3. assigned[e][s] = a
      BY <2>1, <2>2, <2>5, <3>2 DEF IInv, TurnInv
    <3>4. QED
      BY <2>3, <3>1, <3>3
  <2>6. QED
    BY <2>4, <2>5
<1>3. QED
  BY <1>1, <1>2

LEMMA CandidatesStep == IInv /\ Next => CandidatesRunTheirGraph'
<1> SUFFICES ASSUME IInv, Next, NEW t \in usage', arms'[t.exp][t.arm] # None,
                    ~arms'[t.exp][t.arm].control, arms'[t.exp][t.arm].version # None
             PROVE  t.graph = arms'[t.exp][t.arm].version
  BY DEF CandidatesRunTheirGraph
<1>1. CASE t \in usage
  <2>1. t.exp \in Exps /\ t.arm \in Positions
    BY <1>1 DEF IInv, TypeOK, Tags
  <2>2. status[t.exp] # "unborn"
    BY <1>1 DEF IInv, KnownInv
  <2>3. arms[t.exp][t.arm] # None /\ arms'[t.exp][t.arm] = arms[t.exp][t.arm]
    BY <2>1, <2>2, ArmStep
  <2>4. QED
    BY <1>1, <2>3 DEF IInv, CandidatesRunTheirGraph
<1>2. CASE t \notin usage
  <2>1. PICK q \in Slots :
          /\ req[q].at = "answer" /\ Assign(req[q])
          /\ t = [exp |-> req[q].exp, subject |-> req[q].subject, arm |-> req[q].arm,
                  graph |-> req[q].graph]
          /\ UNCHANGED <<arms, status>>
    BY <1>2, UsageStep
  <2>2. t.exp = req[q].exp /\ t.arm = req[q].arm /\ t.graph = req[q].graph /\ arms' = arms
    BY <2>1
  <2>3. QED
    BY <2>1, <2>2 DEF IInv, TurnInv
<1>3. QED
  BY <1>1, <1>2

(* An arm that changes and stays is the control, at what a start read. *)
LEMMA PinnedStep ==
  ASSUME IInv, Next, NEW e \in Exps, NEW a \in Positions,
         status[e] # "unborn", arms'[e][a] # None, arms'[e][a] # arms[e][a]
  PROVE  \E q \in Slots : /\ req[q].at = "pinned" /\ req[q].exp = e /\ req[q].control = a
                          /\ req[q].pin # None /\ arms'[e][a].version = req[q].pin
<1>t. arms \in [Exps -> [Positions -> Arm \cup {None}]]
  BY DEF IInv, TypeOK
<1>1. ASSUME NEW q \in Slots, Start(q)
      PROVE  /\ req[q].at = "pinned" /\ req[q].exp = e /\ req[q].control = a
             /\ req[q].pin # None /\ arms'[e][a].version = req[q].pin
  <2>1. req[q].at = "pinned" /\ req[q].exp \in Exps /\ req[q].control \in Positions
    BY <1>1, Readings DEF Start, IInv, TypeOK
  <2>2. /\ req[q].pin # None /\ e = req[q].exp /\ a = req[q].control
        /\ arms' = [arms EXCEPT ![req[q].exp][req[q].control].version = req[q].pin]
    BY <1>t, <1>1, <2>1 DEF Start
  <2>3. arms[e][a] # None
    BY ArmStep
  <2>4. arms[e][a] \in Arm
    BY <1>t, <2>3
  <2>5. arms'[e][a] = [arms[e][a] EXCEPT !.version = req[q].pin]
    BY <1>t, <2>2
  <2>6. arms'[e][a].version = req[q].pin
    BY <2>4, <2>5 DEF Arm
  <2>7. QED
    BY <2>1, <2>2, <2>6
<1>2. ASSUME NEW f \in Exps, NEW payload \in Payloads, Create(f, payload)
      PROVE  arms'[e][a] = arms[e][a]
  BY <1>2, <1>t DEF Create
<1>3. ASSUME NEW q \in Slots, Delete(q) \/ DeletePipeline(q)
      PROVE  arms'[e][a] = arms[e][a]
  BY <1>3, <1>t DEF Delete, DeletePipeline
<1>4. \E q \in Slots : Start(q)
  BY <1>2, <1>3
     DEF Next, Stop, Promote, OpenStart, OpenDelete, Resolve, OpenDeletePipeline, Check, Prepare,
         Answer, AnswerFailed, Abandon, SaveVersion, CreatePipeline,
         ActivateVersion, PatchBot, abVars
<1>5. QED
  BY <1>1, <1>4

(* Whatever passed the check of a start stays true until it starts. *)
LEMMA PinStep == IInv /\ Next => PinInv'
<1> SUFFICES ASSUME IInv, Next, NEW q \in Slots, req'[q].at = "pinned"
             PROVE  /\ Controls(arms[req[q].exp])' \subseteq {req'[q].control}
                    /\ arms'[req'[q].exp][req'[q].control] # None =>
                          /\ arms'[req'[q].exp][req'[q].control].control
                          /\ \A a \in Present(arms[req[q].exp])' \ {req'[q].control} :
                                /\ arms'[req'[q].exp][req'[q].control].version # None =>
                                      arms'[req'[q].exp][a].version #
                                        arms'[req'[q].exp][req'[q].control].version
                                /\ req'[q].pin # None =>
                                      arms'[req'[q].exp][a].version # req'[q].pin
  BY DEF PinInv
<1>t. req \in [Slots -> Reading] /\ req' \in [Slots -> Reading]
  BY TypeStep DEF IInv, TypeOK
<1>1. PICK e \in Exps, c \in Positions, pin \in Versions \cup {None} :
         e = req'[q].exp /\ c = req'[q].control /\ pin = req'[q].pin
  <2>1. req'[q] \in Reading
    BY <1>t
  <2>2. req'[q] \in [at : {"pinned"}, exp : Exps, status : {"draft", "running"},
                     control : Positions, pin : Versions \cup {None}, time : 1 .. MaxStarts]
    BY <2>1 DEF Reading, Idle
  <2>3. QED
    BY <2>2
(* What held of the arms when the handler last saw them. *)
<1>2. /\ status[e] # "unborn"
      /\ Controls(arms[e]) \subseteq {c}
      /\ \A a \in Present(arms[e]) \ {c} :
            /\ (c \in Present(arms[e]) /\ arms[e][c].version # None) =>
                  arms[e][a].version # arms[e][c].version
            /\ (c \in Present(arms[e]) /\ pin # None) => arms[e][a].version # pin
  <2>1. CASE req'[q] = req[q]
    BY <1>1, <2>1 DEF IInv, PinInv, KnownInv, Present
  <2>2. CASE req'[q] = Idle
    BY <2>2 DEF Idle
  <2>3. ASSUME Check(q)
        PROVE  /\ status[e] # "unborn"
               /\ Controls(arms[e]) \subseteq {c}
               /\ \A a \in Present(arms[e]) \ {c} :
                     /\ arms[e][c].version # None => arms[e][a].version # arms[e][c].version
                     /\ pin # None => arms[e][a].version # pin
    <3>1. PICK control \in Controls(arms[req[q].exp]) :
            LET own == arms[req[q].exp][control].version
                bound == IF own = None THEN BotGraph ELSE None
            IN /\ \A a \in Present(arms[req[q].exp]) \ {control} :
                     arms[req[q].exp][a].version # (IF own = None THEN bound ELSE own)
               /\ req' = [req EXCEPT ![q] =
                            [at |-> "pinned", exp |-> req[q].exp, status |-> req[q].status,
                             control |-> control, pin |-> bound, time |-> now + 1]]
      BY <2>3 DEF Check
    <3>2. req[q].exp = e /\ control = c
      BY <1>t, <1>1, <3>1
    <3>3. pin = IF arms[e][c].version = None THEN BotGraph ELSE None
      BY <1>t, <1>1, <3>1, <3>2
    <3>4. ValidSplit(arms[e]) /\ req[q].at = "start"
      BY <2>3, <3>2 DEF Check
    <3>5. Controls(arms[e]) \subseteq {c}
      BY <3>1, <3>2, <3>4, OneControl
    <3>6. status[e] # "unborn"
      BY <3>2, <3>4 DEF IInv, KnownInv
    <3>7. \A a \in Present(arms[e]) \ {c} :
             arms[e][a].version # (IF arms[e][c].version = None THEN pin ELSE arms[e][c].version)
      BY <3>1, <3>2, <3>3
    <3>8. QED
      BY <3>3, <3>5, <3>6, <3>7
  <2>4. ASSUME NEW f \in Exps, OpenStart(q, f) \/ OpenDelete(q, f)
        PROVE  FALSE
    BY <1>t, <2>4 DEF OpenStart, OpenDelete
  <2>5. ASSUME NEW p \in Pipelines, OpenDeletePipeline(q, p)
        PROVE  FALSE
    BY <1>t, <2>5 DEF OpenDeletePipeline
  <2>6. ASSUME NEW s \in Subjects, Resolve(q, s)
        PROVE  FALSE
    BY <1>t, <2>6 DEF Resolve
  <2>7. ASSUME Prepare(q)
        PROVE  FALSE
    BY <1>t, <2>7 DEF Prepare
  <2>8. QED
    BY <2>1, <2>2, <2>3, <2>4, <2>5, <2>6, <2>7, RequestStep
<1>3. Controls(arms[req[q].exp])' \subseteq {c}
  <2>1. SUFFICES ASSUME NEW a \in Positions, arms'[e][a] # None, arms'[e][a].control
                 PROVE  a = c
    BY <1>1 DEF Controls, Present
  <2>2. arms[e][a] # None /\ arms[e][a].control
    BY <1>2, <2>1, ArmStep
  <2>3. QED
    BY <1>2, <2>2 DEF Controls, Present
<1>4. ASSUME arms'[e][c] # None
      PROVE  arms[e][c] # None /\ arms'[e][c].control = arms[e][c].control
  BY <1>2, <1>4, ArmStep
<1>5. ASSUME arms'[e][c] # None
      PROVE  arms'[e][c].control
  <2>1. CASE req'[q] = req[q]
    BY <1>1, <1>4, <1>5, <2>1 DEF IInv, PinInv
  <2>2. CASE Check(q)
    <3>1. PICK control \in Controls(arms[req[q].exp]) :
            req'[q].control = control /\ req'[q].exp = req[q].exp
      BY <1>t, <2>2 DEF Check
    <3>2. QED
      BY <1>1, <1>4, <1>5, <3>1 DEF Controls
  <2>3. QED
    BY <2>1, <2>2, <1>t, RequestStep
       DEF Idle, OpenStart, OpenDelete, OpenDeletePipeline, Resolve, Prepare
<1>6. ASSUME arms'[e][c] # None, NEW a \in Positions \ {c}, arms'[e][a] # None
      PROVE  /\ arms'[e][c].version # None => arms'[e][a].version # arms'[e][c].version
             /\ pin # None => arms'[e][a].version # pin
  <2>1. a \in Present(arms[e]) \ {c} /\ c \in Present(arms[e])
    BY <1>2, <1>4, <1>6, ArmStep DEF Present
  <2>2. ~arms[e][a].control
    BY <1>2, <2>1 DEF Controls
  <2>3. arms'[e][a] = arms[e][a]
    BY <1>2, <1>6, <2>2, ArmStep
  <2>4. CASE arms'[e][c] = arms[e][c]
    BY <1>2, <2>1, <2>3, <2>4
  <2>5. CASE arms'[e][c] # arms[e][c]
    <3>1. PICK r \in Slots : /\ req[r].at = "pinned" /\ req[r].exp = e /\ req[r].control = c
                             /\ req[r].pin # None /\ arms'[e][c].version = req[r].pin
      BY <1>2, <1>6, <2>5, PinnedStep
    <3>2. arms[e][a].version # req[r].pin
      BY <2>1, <3>1 DEF IInv, PinInv, Present
    <3>3. QED
      BY <1>2, <2>1, <2>3, <3>1, <3>2
  <2>6. QED
    BY <2>4, <2>5
<1>7. QED
  BY <1>1, <1>3, <1>5, <1>6 DEF Present

(* A start whose arms differed when it checked them still has them differ. *)
LEMMA ApartStep == IInv /\ Next => ArmsApart'
<1> SUFFICES ASSUME IInv, Next, NEW e \in Exps, startedAt'[e] > 0,
                    NEW a \in Positions, NEW b \in Positions, a # b,
                    arms'[e][a] # None, arms'[e][b] # None,
                    arms'[e][a].control, arms'[e][a].version # None
             PROVE  arms'[e][a].version # arms'[e][b].version
  BY DEF ArmsApart, Present
<1>1. ASSUME startedAt'[e] # startedAt[e]
      PROVE  \E q \in Slots : req[q].at = "pinned" /\ req[q].exp = e
  <2>1. ASSUME NEW q \in Slots, Start(q)
        PROVE  req[q].at = "pinned" /\ req[q].exp = e
    BY <1>1, <2>1 DEF Start, IInv, TypeOK
  <2>2. QED
    BY <1>1, <2>1
       DEF Next, Create, Stop, Delete, Promote, OpenStart, OpenDelete, Resolve,
           OpenDeletePipeline, DeletePipeline, Check, Prepare, Answer, AnswerFailed, Abandon,
           SaveVersion, CreatePipeline,
         ActivateVersion, PatchBot, abVars
<1>2. status[e] # "unborn"
  BY <1>1 DEF IInv, KnownInv
<1>3. /\ arms[e][a] # None /\ arms[e][a].control /\ arms[e][b] # None
      /\ ~arms[e][b].control => arms'[e][b] = arms[e][b]
  BY <1>2, ArmStep
<1>4. ~arms[e][b].control
  <2>1. a \in Controls(arms[e]) /\ (arms[e][b].control => b \in Controls(arms[e]))
    BY <1>3 DEF Controls, Present
  <2>2. QED
    BY <2>1 DEF IInv, RefInv
<1>5. CASE arms'[e][a] # arms[e][a]
  <2>1. PICK q \in Slots : /\ req[q].at = "pinned" /\ req[q].exp = e /\ req[q].control = a
                           /\ req[q].pin # None /\ arms'[e][a].version = req[q].pin
    BY <1>2, <1>5, PinnedStep
  <2>2. arms[e][b].version # req[q].pin
    BY <1>3, <2>1 DEF IInv, PinInv, Present
  <2>3. QED
    BY <1>3, <1>4, <2>1, <2>2
<1>6. CASE arms'[e][a] = arms[e][a] /\ startedAt'[e] # startedAt[e]
  <2>1. PICK q \in Slots : req[q].at = "pinned" /\ req[q].exp = e
    BY <1>1, <1>6
  <2>2. req[q].control = a
    BY <1>3, <2>1 DEF IInv, PinInv, Controls, Present
  <2>3. arms[e][b].version # arms[e][a].version
    BY <1>3, <1>6, <2>1, <2>2 DEF IInv, PinInv, Present
  <2>4. QED
    BY <1>3, <1>4, <1>6, <2>3
<1>7. CASE arms'[e][a] = arms[e][a] /\ startedAt'[e] = startedAt[e]
  BY <1>3, <1>4, <1>7 DEF IInv, ArmsApart, Present
<1>8. QED
  BY <1>5, <1>6, <1>7

LEMMA InitInv == Init => IInv
<1> SUFFICES ASSUME Init PROVE IInv
  OBVIOUS
<1>1. TypeOK
  BY ExperimentsAssumption DEF Init, TypeOK, Reading
<1>2. \A q \in Slots : req[q] = Idle
  BY DEF Init
<1>3. \A e \in Exps, a \in Positions : arms[e][a] = None
  BY DEF Init
<1>4. RefInv
  BY <1>3 DEF Init, RefInv, Controls, Present
<1>5. KnownInv
  BY <1>2 DEF Init, KnownInv, Idle
<1>6. TurnInv /\ PinInv
  BY <1>2 DEF TurnInv, PinInv, Idle
<1>7. TagInv /\ CandidatesRunTheirGraph
  BY DEF Init, TagInv, CandidatesRunTheirGraph
<1>8. ArmsApart
  BY <1>3 DEF ArmsApart, Present
<1>9. QED
  BY <1>1, <1>4, <1>5, <1>6, <1>7, <1>8 DEF IInv

LEMMA StutterInv == IInv /\ UNCHANGED vars => IInv'
<1> SUFFICES ASSUME IInv, UNCHANGED vars PROVE IInv'
  OBVIOUS
<1>1. TypeOK' /\ RefInv'
  BY DEF IInv, vars, TypeOK, RefInv, Controls, Present, Saved
<1>2. KnownInv' /\ TurnInv' /\ PinInv'
  BY DEF IInv, vars, KnownInv, TurnInv, PinInv, Controls, Present
<1>3. TagInv' /\ CandidatesRunTheirGraph' /\ ArmsApart'
  BY DEF IInv, vars, TagInv, CandidatesRunTheirGraph, ArmsApart, Present
<1>4. QED
  BY <1>1, <1>2, <1>3 DEF IInv

(* The inductive invariant holds throughout. *)
LEMMA Invariance == Spec => []IInv
<1>1. IInv /\ Next => IInv'
  BY TypeStep, RefStep, KnownStep, TurnStep, PinStep, TagsStep, CandidatesStep, ApartStep DEF IInv
<1>2. IInv /\ [Next]_vars => IInv'
  BY <1>1, StutterInv
<1>3. QED
  BY InitInv, <1>2, PTL DEF Spec
-----------------------------------------------------------------------------
(* Types hold for any instance: what a handler has read, what a pipeline   *)
(* points at, what is counted (TypeOK of Experiments).                     *)
THEOREM TypeCorrect == Spec => []TypeOK
<1>1. IInv => TypeOK
  BY DEF IInv
<1>2. QED
  BY Invariance, <1>1, PTL

(* Nobody watches the bot change: get_or_assign and the unique constraint  *)
(* on the subject keep every visitor on one arm while the arm exists.      *)
THEOREM AssignmentsAreSticky == Spec => Sticky
<1>1. IInv /\ [Next]_vars =>
        [\A e \in Exps, s \in Subjects :
            assigned[e][s] # None =>
                \/ assigned'[e][s] = assigned[e][s]
                \/ arms'[e][assigned[e][s]] = None]_vars
  BY AssignmentStep
<1>2. QED
  BY Invariance, <1>1, PTL DEF Spec, Sticky

(* Usage is counted under the arm of an assigned visitor: the answer and   *)
(* the new assignment commit together.                                     *)
THEOREM UsageMatchesAssignments == Spec => []TagsAgree
<1>1. IInv => TagsAgree
  <2> SUFFICES ASSUME IInv, NEW e \in Exps, NEW a \in Present(arms[e]),
                      NEW t \in usage, t.exp = e, t.arm = a
               PROVE  t.subject \in {s \in Subjects : assigned[e][s] = a}
    BY DEF TagsAgree, Analytics
  <2>1. t.subject \in Subjects
    BY DEF IInv, TypeOK, Tags
  <2>2. QED
    BY <2>1 DEF IInv, TagInv, Present
<1>2. QED
  BY Invariance, <1>1, PTL

(* A candidate's usage comes from the candidate's version: an arm that     *)
(* still exists has its version, so preparing the turn found it.           *)
THEOREM CandidateUsageIsTheCandidates == Spec => []CandidatesRunTheirGraph
<1>1. IInv => CandidatesRunTheirGraph
  BY DEF IInv
<1>2. QED
  BY Invariance, <1>1, PTL

(* Starting never leaves the control on the same version as another arm,   *)
(* however many starts check and pin it side by side.                      *)
THEOREM StartedArmsDiffer == Spec => []ArmsApart
<1>1. IInv => ArmsApart
  BY DEF IInv
<1>2. QED
  BY Invariance, <1>1, PTL
-----------------------------------------------------------------------------
(***************************************************************************)
(* Buckets: what a sum over the arms is, without going through the arms in *)
(* the order the library's fold takes them.                                *)
(***************************************************************************)
(* Induction over the subsets of a finite set. *)
LEMMA Subsets ==
  ASSUME NEW S, IsFiniteSet(S), NEW Good,
         \A T \in SUBSET S : (\A U \in SUBSET T : U # T => U \in Good) => T \in Good
  PROVE  \A T \in SUBSET S : T \in Good
<1> DEFINE R == StrictSubsetOrdering(S)
           Bad == {T \in SUBSET S : T \notin Good}
<1>1. IsWellFoundedOn(R, SUBSET S)
  BY FS_StrictSubsetOrderingWellFounded, FS_FiniteSubsetsOfFinite
<1>2. \A T, U \in SUBSET S : (U \subseteq T /\ U # T) => <<U, T>> \in R
  BY DEF StrictSubsetOrdering
<1>3. SUFFICES ASSUME Bad # {}  PROVE FALSE
  OBVIOUS
<1>4. Bad \subseteq SUBSET S
  OBVIOUS
<1> HIDE DEF R, Bad
<1>5. PICK T \in Bad : \A U \in Bad : ~ (<<U, T>> \in R)
  BY <1>1, <1>3, <1>4, WFMin
<1>6. T \in SUBSET S /\ T \notin Good
  BY <1>5 DEF Bad
<1>7. ASSUME NEW U \in SUBSET T, U # T  PROVE U \in Good
  <2>1. U \in SUBSET S /\ <<U, T>> \in R
    BY <1>2, <1>6, <1>7
  <2> QED  BY <1>5, <2>1 DEF Bad
<1> QED  BY <1>6, <1>7

-----------------------------------------------------------------------------
(* The sum of the percents of some arms, as the number of buckets they     *)
(* have between them, one by one.                                          *)
Units(list, S) == {u \in S \X (1..Buckets) : u[2] <= list[u[1]].percent}

Weighed(list, S) == S \subseteq Positions /\ \A a \in S : list[a].percent \in 0..Buckets

LEMMA UnitsAdd ==
  ASSUME NEW list, NEW S, Weighed(list, S), NEW x \in S, IsFiniteSet(Units(list, S \ {x}))
  PROVE  /\ IsFiniteSet(Units(list, S))
         /\ Cardinality(Units(list, S)) = list[x].percent + Cardinality(Units(list, S \ {x}))
<1> DEFINE p == list[x].percent
           Own == {u \in {x} \X (1..Buckets) : u[2] <= p}
           Rest == Units(list, S \ {x})
           own == [k \in 1..p |-> <<x, k>>]
<1>1. p \in Nat /\ 1..p \subseteq 1..Buckets /\ (\A k \in 1..Buckets : k <= p <=> k \in 1..p)
  BY ExperimentsAssumption DEF Weighed
<1>2. IsFiniteSet(1..p) /\ Cardinality(1..p) = p
  BY <1>1, FS_Interval
<1>3. Own = {<<x, k>> : k \in 1..p}
  BY <1>1
<1>4. own \in Bijection(1..p, Own)
  BY <1>3 DEF Bijection, Injection, Surjection, IsInjective
<1>5. IsFiniteSet(Own) /\ Cardinality(Own) = p
  BY <1>2, <1>4, FS_Bijection DEF ExistsBijection
<1>6. Units(list, S) = Own \cup Rest /\ Own \cap Rest = {}
  BY DEF Units
<1> HIDE DEF p, Own, Rest, own
<1>7. /\ IsFiniteSet(Own \cup Rest)
      /\ Cardinality(Own \cup Rest) = Cardinality(Own) + Cardinality(Rest) - Cardinality(Own \cap Rest)
  BY <1>5, FS_Union DEF Rest
<1>8. Cardinality(Own \cap Rest) = 0 /\ Cardinality(Rest) \in Nat
  BY <1>6, FS_EmptySet, FS_CardinalityType DEF Rest
<1>9. Cardinality(Own \cup Rest) = p + Cardinality(Rest)
  BY <1>1, <1>5, <1>7, <1>8
<1> QED  BY <1>6, <1>7, <1>9 DEF p, Rest

LEMMA UnitsFinite ==
  ASSUME NEW list, NEW S, Weighed(list, S)
  PROVE  IsFiniteSet(Units(list, S))
<1>1. IsFiniteSet(S)
  BY ExperimentsAssumption, FS_Subset DEF Weighed
<1> DEFINE Good == {T \in SUBSET S : IsFiniteSet(Units(list, T))}
<1>2. ASSUME NEW T \in SUBSET S, \A U \in SUBSET T : U # T => U \in Good
      PROVE  T \in Good
  <2>1. CASE T = {}
    <3>1. Units(list, T) = {}
      BY <2>1 DEF Units
    <3> QED  BY <3>1, FS_EmptySet
  <2>2. CASE T # {}
    <3>1. PICK x \in T : TRUE
      BY <2>2
    <3>2. IsFiniteSet(Units(list, T \ {x}))
      BY <1>2, <3>1
    <3>3. Weighed(list, T)
      BY DEF Weighed
    <3> QED  BY <3>2, <3>3, UnitsAdd
  <2> QED  BY <2>1, <2>2
<1> HIDE DEF Good
<1>3. S \in Good
  BY <1>1, <1>2, Subsets
<1> QED  BY <1>3 DEF Good

(* The library's sum is the one function that adds its arms one by one. *)
Adds(list, S, f) ==
  f = [T \in SUBSET S |-> IF T = {} THEN 0
                          ELSE list[CHOOSE x \in T : TRUE].percent + f[T \ {CHOOSE x \in T : TRUE}]]

LEMMA ShareSolves ==
  ASSUME NEW list, NEW S, IsFiniteSet(S), NEW g, Adds(list, S, g)
  PROVE  Share(list, S) = g[S]
<1> DEFINE iter == CHOOSE f : Adds(list, S, f)
<1>1. Share(list, S) = iter[S]
  BY DEF Share, MapThenSumSet, MapThenFoldSet, Adds
<1>2. Adds(list, S, iter)
  OBVIOUS
<1> HIDE DEF iter
<1> DEFINE Good == {T \in SUBSET S : iter[T] = g[T]}
<1>3. ASSUME NEW T \in SUBSET S, \A U \in SUBSET T : U # T => U \in Good
      PROVE  T \in Good
  <2>1. CASE T = {}
    BY <1>2, <2>1 DEF Adds
  <2>2. CASE T # {}
    <3> DEFINE x == CHOOSE x \in T : TRUE
    <3>1. x \in T
      BY <2>2
    <3>2. T \ {x} \in SUBSET S /\ iter[T \ {x}] = g[T \ {x}]
      BY <1>3, <3>1
    <3>3. iter[T] = list[x].percent + iter[T \ {x}] /\ g[T] = list[x].percent + g[T \ {x}]
      BY <1>2, <2>2 DEF Adds
    <3> QED  BY <3>2, <3>3
  <2> QED  BY <2>1, <2>2
<1> HIDE DEF Good
<1>4. S \in Good
  BY <1>3, Subsets
<1> QED  BY <1>1, <1>4 DEF Good

LEMMA ShareIsUnits ==
  ASSUME NEW list, NEW S, Weighed(list, S)
  PROVE  Share(list, S) = Cardinality(Units(list, S))
<1> DEFINE g == [T \in SUBSET S |-> Cardinality(Units(list, T))]
<1>1. IsFiniteSet(S)
  BY ExperimentsAssumption, FS_Subset DEF Weighed
<1>2. ASSUME NEW T \in SUBSET S
      PROVE  Cardinality(Units(list, T)) =
                IF T = {} THEN 0
                ELSE list[CHOOSE x \in T : TRUE].percent + g[T \ {CHOOSE x \in T : TRUE}]
  <2>1. CASE T = {}
    <3>1. Units(list, T) = {}
      BY <2>1 DEF Units
    <3> QED  BY <2>1, <3>1, FS_EmptySet
  <2>2. CASE T # {}
    <3> DEFINE x == CHOOSE x \in T : TRUE
    <3>1. x \in T
      BY <2>2
    <3>2. Weighed(list, T) /\ Weighed(list, T \ {x}) /\ T \ {x} \in SUBSET S
      BY DEF Weighed
    <3> HIDE DEF x
    <3>3. Cardinality(Units(list, T)) = list[x].percent + Cardinality(Units(list, T \ {x}))
      BY <3>1, <3>2, UnitsFinite, UnitsAdd
    <3>4. g[T \ {x}] = Cardinality(Units(list, T \ {x}))
      BY <3>2
    <3>5. Cardinality(Units(list, T)) = list[x].percent + g[T \ {x}]
      BY <3>3, <3>4
    <3> QED  BY <2>2, <3>5 DEF x
  <2> QED  BY <2>1, <2>2
<1>3. Adds(list, S, g)
  BY <1>2 DEF Adds
<1>4. Share(list, S) = g[S]
  BY <1>1, <1>3, ShareSolves
<1> QED  BY <1>4

(* What follows needs no more of a sum than this. *)
LEMMA ShareLaws ==
  ASSUME NEW list, NEW S, Weighed(list, S), NEW T \in SUBSET S
  PROVE  /\ Share(list, S) \in Nat /\ Share(list, T) \in Nat /\ Share(list, {}) = 0
         /\ Share(list, S) = Share(list, T) + Share(list, S \ T)
         /\ Share(list, T) <= Share(list, S)
<1>1. Weighed(list, T) /\ Weighed(list, S \ T) /\ Weighed(list, {})
  BY DEF Weighed
<1>2. /\ Share(list, S) = Cardinality(Units(list, S))
      /\ Share(list, T) = Cardinality(Units(list, T))
      /\ Share(list, S \ T) = Cardinality(Units(list, S \ T))
      /\ Share(list, {}) = Cardinality(Units(list, {}))
  BY <1>1, ShareIsUnits
<1>3. IsFiniteSet(Units(list, T)) /\ IsFiniteSet(Units(list, S \ T))
  BY <1>1, UnitsFinite
<1>4. /\ Units(list, S) = Units(list, T) \cup Units(list, S \ T)
      /\ Units(list, T) \cap Units(list, S \ T) = {} /\ Units(list, {}) = {}
  BY DEF Units
<1>5. /\ Cardinality(Units(list, T)) \in Nat /\ Cardinality(Units(list, S \ T)) \in Nat
      /\ Cardinality(Units(list, {})) = 0
      /\ Cardinality(Units(list, T) \cap Units(list, S \ T)) = 0
  BY <1>3, <1>4, FS_CardinalityType, FS_EmptySet
<1>6. Cardinality(Units(list, T) \cup Units(list, S \ T)) =
         Cardinality(Units(list, T)) + Cardinality(Units(list, S \ T))
  <2>1. PICK A, B : A = Units(list, T) /\ B = Units(list, S \ T)
    OBVIOUS
  <2>2. /\ Cardinality(A \cup B) = Cardinality(A) + Cardinality(B) - Cardinality(A \cap B)
    BY <1>3, <2>1, FS_Union
  <2>3. Cardinality(A \cup B) = Cardinality(A) + Cardinality(B)
    BY <1>5, <2>1, <2>2
  <2> QED  BY <2>1, <2>3
<1> QED  BY <1>2, <1>4, <1>5, <1>6

LEMMA SharePercents ==
  ASSUME NEW list, NEW other, NEW S, Weighed(list, S),
         \A a \in S : other[a].percent = list[a].percent
  PROVE  Share(other, S) = Share(list, S)
<1>1. Weighed(other, S)
  BY DEF Weighed
<1>2. Units(other, S) = Units(list, S)
  BY DEF Units
<1> QED  BY <1>1, <1>2, ShareIsUnits

Lists == [Positions -> Arm \cup {None}]

LEMMA ListsWeighed ==
  ASSUME NEW list \in Lists, NEW S \in SUBSET Present(list)
  PROVE  Weighed(list, S)
<1>1. ASSUME NEW a \in S  PROVE a \in Positions /\ list[a] \in Arm
  BY DEF Lists, Present
<1> QED  BY <1>1 DEF Weighed, Arm
-----------------------------------------------------------------------------
(* Which arm a bucket falls into.                                          *)

\* What BucketsHonoured says of one visitor.
Honoured(list, arm, bucket) ==
    Share(list, Present(list)) = Buckets =>
        /\ bucket < Share(list, UpTo(list, arm))
        /\ bucket >= Share(list, UpTo(list, arm) \ {arm})

(* Of finitely many positions one is the last. *)
LEMMA LastOf ==
  ASSUME NEW S \in SUBSET Positions, S # {}
  PROVE  \E a \in S : \A b \in S : b <= a
<1> DEFINE Good == {T \in SUBSET S : T # {} => \E a \in T : \A b \in T : b <= a}
<1>1. IsFiniteSet(S) /\ S \subseteq Nat
  BY ExperimentsAssumption, FS_Subset
<1>2. ASSUME NEW T \in SUBSET S, \A U \in SUBSET T : U # T => U \in Good
      PROVE  T \in Good
  <2>1. SUFFICES ASSUME T # {}  PROVE \E a \in T : \A b \in T : b <= a
    OBVIOUS
  <2>2. PICK x \in T : TRUE
    BY <2>1
  <2>3. CASE T \ {x} = {}
    BY <1>1, <2>2, <2>3
  <2>4. CASE T \ {x} # {}
    <3>0. T \ {x} \in SUBSET T /\ T \ {x} # T
      BY <2>2
    <3>1. PICK a \in T \ {x} : \A b \in T \ {x} : b <= a
      BY <1>2, <2>4, <3>0
    <3>2. a \in Nat /\ x \in Nat /\ T \subseteq Nat
      BY <1>1, <2>2, <3>1
    <3> QED  BY <2>2, <3>1, <3>2
  <2> QED  BY <2>3, <2>4
<1> HIDE DEF Good
<1>3. S \in Good
  BY <1>1, <1>2, Subsets
<1> QED  BY <1>3 DEF Good

(* pick_variant follows the hash: the slice of the arm holds the bucket. *)
LEMMA PickedHonoured ==
  ASSUME NEW list \in Lists, NEW bucket \in 0 .. Buckets - 1, NEW arm \in Picked(list, bucket)
  PROVE  Honoured(list, arm, bucket)
<1> DEFINE all == Present(list)
           before == UpTo(list, arm) \ {arm}
<1>1. SUFFICES ASSUME Share(list, all) = Buckets
               PROVE  bucket < Share(list, UpTo(list, arm)) /\ bucket >= Share(list, before)
  BY DEF Honoured
<1>2. /\ arm \in all /\ arm \in Positions /\ all \subseteq Positions /\ Positions \subseteq Nat
      /\ Buckets \in Nat
  BY ExperimentsAssumption DEF Picked, Present
<1>3. PICK last \in all : \A b \in all : b <= last
  BY <1>2, LastOf
<1>4. UpTo(list, last) = all
  BY <1>3 DEF UpTo
<1>5. last \in Reaching(list, bucket)
  BY <1>1, <1>2, <1>3, <1>4 DEF Reaching
<1>6. arm \in Reaching(list, bucket) /\ \A b \in Reaching(list, bucket) : arm <= b
  BY <1>5 DEF Picked
<1>7. bucket < Share(list, UpTo(list, arm))
  BY <1>6 DEF Reaching
<1>8. CASE before = {}
  <2>1. Weighed(list, {})
    BY ListsWeighed
  <2>2. Share(list, before) = 0
    BY <1>8, <2>1, ShareLaws
  <2> QED  BY <1>7, <2>2
<1>9. CASE before # {}
  <2>1. before \subseteq Positions
    BY <1>2 DEF UpTo
  <2>2. PICK b \in before : \A c \in before : c <= b
    BY <1>9, <2>1, LastOf
  <2>3. b \in all /\ b < arm /\ b \in Nat /\ arm \in Nat
    BY <1>2, <2>1, <2>2 DEF UpTo
  <2>4. UpTo(list, b) = before
    <3>1. \A c \in before : c \in all /\ c <= b
      BY <2>2 DEF UpTo
    <3>2. \A c \in all : c <= b => c <= arm /\ c # arm
      BY <1>2, <2>3
    <3> QED  BY <3>1, <3>2 DEF UpTo
  <2>5. ~ (bucket < Share(list, before))
    BY <1>6, <2>3, <2>4 DEF Reaching
  <2>6. Share(list, before) \in Nat
    <3>1. before \in SUBSET all
      BY DEF UpTo
    <3> QED  BY <3>1, ListsWeighed, ShareLaws
  <2> QED  BY <1>2, <1>7, <2>5, <2>6
<1> QED  BY <1>8, <1>9

\* Arms are lost, and those that stay keep their part of the traffic.
Thinned(old, new) ==
    \A a \in Present(new) : a \in Present(old) /\ new[a].percent = old[a].percent

(* A full split stays what it was, unless it was never more than that: so   *)
(* who was in the slice of an arm that is still there is in it now.        *)
LEMMA HonouredKept ==
  ASSUME NEW old \in Lists, NEW new \in Lists, Thinned(old, new),
         Buckets \in Nat, Share(old, Present(old)) <= Buckets
  PROVE  /\ Share(new, Present(new)) <= Buckets
         /\ \A arm \in Present(new), bucket \in 0 .. Buckets - 1 :
               Honoured(old, arm, bucket) => Honoured(new, arm, bucket)
<1> DEFINE P == Present(old)
           Q == Present(new)
<1>1. Q \subseteq P /\ \A a \in Q : new[a].percent = old[a].percent
  BY DEF Thinned
<1>2. Weighed(old, P) /\ \A T \in SUBSET P : Weighed(old, T)
  BY ListsWeighed
<1>3. ASSUME NEW T \in SUBSET Q  PROVE Share(new, T) = Share(old, T)
  BY <1>1, <1>2, SharePercents
<1>4. /\ Share(old, P) \in Nat /\ Share(old, Q) \in Nat /\ Share(old, P \ Q) \in Nat
      /\ Share(old, P) = Share(old, Q) + Share(old, P \ Q) /\ Share(old, Q) <= Share(old, P)
  <2>1. /\ Share(old, P) \in Nat /\ Share(old, Q) \in Nat
        /\ Share(old, P) = Share(old, Q) + Share(old, P \ Q) /\ Share(old, Q) <= Share(old, P)
    <3>1. Weighed(old, P) /\ Q \in SUBSET P
      BY <1>1, <1>2
    <3> HIDE DEF P, Q
    <3>2. Share(old, P) \in Nat /\ Share(old, Q) \in Nat /\ Share(old, Q) <= Share(old, P)
      BY <3>1, ShareLaws
    <3>3. Share(old, P) = Share(old, Q) + Share(old, P \ Q)
      BY <3>1, ShareLaws
    <3> QED  BY <3>2, <3>3
  <2>2. Share(old, P \ Q) \in Nat
    BY <1>2, ShareLaws
  <2> QED  BY <2>1, <2>2
<1>5. Share(new, Q) = Share(old, Q)
  BY <1>3
<1>6. Share(new, Q) <= Buckets
  BY <1>4, <1>5
<1>7. ASSUME NEW arm \in Q, NEW bucket \in 0 .. Buckets - 1, Honoured(old, arm, bucket),
             Share(new, Q) = Buckets
      PROVE  bucket < Share(new, UpTo(new, arm)) /\ bucket >= Share(new, UpTo(new, arm) \ {arm})
  <2>1. Share(old, P) = Buckets /\ Share(old, P \ Q) = 0
    BY <1>4, <1>5, <1>7
  <2>2. /\ bucket < Share(old, UpTo(old, arm))
        /\ bucket >= Share(old, UpTo(old, arm) \ {arm})
    BY <1>7, <2>1 DEF Honoured
  <2>3. ASSUME NEW T \in SUBSET P, NEW U \in SUBSET T, T \ U \subseteq P \ Q
        PROVE  Share(old, T) = Share(old, U)
    <3>1. Share(old, T) \in Nat /\ Share(old, U) \in Nat /\ Share(old, T) = Share(old, U) + Share(old, T \ U)
      BY <1>2, ShareLaws
    <3>2. Share(old, T \ U) \in Nat /\ Share(old, T \ U) <= Share(old, P \ Q)
      BY <1>2, <2>3, ShareLaws
    <3> QED  BY <2>1, <3>1, <3>2
  <2>4. /\ UpTo(new, arm) \in SUBSET Q /\ UpTo(old, arm) \in SUBSET P
        /\ UpTo(new, arm) \subseteq UpTo(old, arm)
        /\ UpTo(old, arm) \ UpTo(new, arm) \subseteq P \ Q
    BY <1>1 DEF UpTo
  <2>5. Share(old, UpTo(old, arm)) = Share(old, UpTo(new, arm))
    BY <2>3, <2>4
  <2>6. Share(old, UpTo(old, arm) \ {arm}) = Share(old, UpTo(new, arm) \ {arm})
    BY <2>3, <2>4
  <2>7. /\ Share(new, UpTo(new, arm)) = Share(old, UpTo(new, arm))
        /\ Share(new, UpTo(new, arm) \ {arm}) = Share(old, UpTo(new, arm) \ {arm})
    BY <1>3, <2>4
  <2> QED  BY <2>2, <2>5, <2>6, <2>7
<1> QED  BY <1>6, <1>7 DEF Honoured
-----------------------------------------------------------------------------
(* What one step may do to a split, an assignment and a turn.              *)

LEMMA ListStep ==
  ASSUME IInv, Next, NEW e \in Exps, \A payload \in Payloads : ~Create(e, payload)
  PROVE  Thinned(arms[e], arms'[e])
<1>t. arms \in [Exps -> [Positions -> Arm \cup {None}]]
  BY DEF IInv, TypeOK
<1>1. ASSUME NEW f \in Exps, NEW payload \in Payloads, Create(f, payload)
      PROVE  arms'[e] = arms[e]
  BY <1>t, <1>1 DEF Create
<1>2. ASSUME NEW q \in Slots, Start(q)
      PROVE  Thinned(arms[e], arms'[e])
  <2>1. CASE req[q].pin = None
    BY <1>2, <2>1 DEF Start, Thinned
  <2>2. CASE req[q].pin # None
    <3> DEFINE f == req[q].exp
               c == req[q].control
    <3>1. /\ f \in Exps /\ c \in Positions
      BY <1>2, Readings DEF Start, IInv, TypeOK
    <3>2. /\ arms[f][c] # None
          /\ arms' = [arms EXCEPT ![f][c].version = req[q].pin]
      BY <1>2, <2>2 DEF Start
    <3>3. arms[f][c] \in Arm
      BY <1>t, <3>1, <3>2
    <3>4. [arms[f][c] EXCEPT !.version = req[q].pin].percent = arms[f][c].percent
      BY <3>3 DEF Arm
    <3>5. ASSUME NEW a \in Positions
          PROVE  arms'[e][a] = arms[e][a] \/ (arms[e][a] # None /\ arms'[e][a].percent = arms[e][a].percent)
      <4>1. CASE e = f /\ a = c
        BY <1>t, <3>1, <3>2, <3>4, <4>1
      <4>2. CASE ~(e = f /\ a = c)
        BY <1>t, <3>1, <3>2, <4>2
      <4> QED  BY <4>1, <4>2
    <3> QED  BY <3>5 DEF Thinned, Present
  <2> QED  BY <2>1, <2>2
<1>3. ASSUME NEW q \in Slots, Delete(q)
      PROVE  Thinned(arms[e], arms'[e])
  BY <1>t, <1>3 DEF Delete, Thinned, Present
<1>4. ASSUME NEW q \in Slots, DeletePipeline(q)
      PROVE  Thinned(arms[e], arms'[e])
  <2>1. \A a \in Positions : arms'[e][a] = None \/ arms'[e][a] = arms[e][a]
    BY <1>4 DEF DeletePipeline
  <2> QED  BY <2>1 DEF Thinned, Present
<1>5. arms'[e] = arms[e] => Thinned(arms[e], arms'[e])
  BY DEF Thinned
<1> QED
  BY <1>1, <1>2, <1>3, <1>4, <1>5
     DEF Next, Stop, Promote, OpenStart, OpenDelete, Resolve, OpenDeletePipeline, Check, Prepare,
         Answer, AnswerFailed, Abandon, SaveVersion, CreatePipeline,
         ActivateVersion, PatchBot, abVars

(* Whoever is assigned anew is so by a turn that found nobody's assignment. *)
LEMMA AssignedBy ==
  ASSUME IInv, Next, NEW e \in Exps, NEW s \in Subjects,
         assigned'[e][s] # None, assigned'[e][s] # assigned[e][s]
  PROVE  \E q \in Slots :
            /\ req[q].at = "answer" /\ req[q].fresh /\ req[q].exp = e /\ req[q].subject = s
            /\ req[q].arm = assigned'[e][s] /\ arms[e][req[q].arm] # None /\ arms' = arms
<1>t. assigned \in [Exps -> [Subjects -> Positions \cup {None}]]
  BY DEF IInv, TypeOK
<1>1. ASSUME NEW q \in Slots, req[q].at = "answer", Assign(req[q])
      PROVE  /\ req[q].fresh /\ req[q].exp = e /\ req[q].subject = s
             /\ req[q].arm = assigned'[e][s] /\ arms[e][req[q].arm] # None
  <2>1. req[q].exp \in Exps /\ req[q].subject \in Subjects
    BY <1>1, Readings DEF IInv, TypeOK
  <2>2. req[q].fresh
    BY <1>1 DEF Assign
  <2>3. /\ arms[req[q].exp][req[q].arm] # None
        /\ assigned' = [assigned EXCEPT ![req[q].exp][req[q].subject] = req[q].arm]
    BY <1>1, <2>2 DEF Assign
  <2>4. req[q].exp = e /\ req[q].subject = s
    BY <1>t, <2>1, <2>3
  <2> QED  BY <1>t, <2>2, <2>3, <2>4
<1>2. ASSUME NEW q \in Slots, Answer(q) \/ AnswerFailed(q)
      PROVE  req[q].at = "answer" /\ Assign(req[q]) /\ arms' = arms
  BY <1>2 DEF Answer, AnswerFailed
<1>3. ASSUME NEW q \in Slots, Delete(q) \/ DeletePipeline(q)
      PROVE  FALSE
  BY <1>t, <1>3 DEF Delete, DeletePipeline
<1>4. \E q \in Slots : Answer(q) \/ AnswerFailed(q)
  BY <1>3
     DEF Next, Create, Start, Stop, Promote, OpenStart, OpenDelete, Resolve, OpenDeletePipeline,
         Check, Prepare, Abandon, SaveVersion, CreatePipeline, ActivateVersion, PatchBot, abVars
<1> QED  BY <1>1, <1>2, <1>4

(* A turn is in flight with the arm it resolved, and what it found then.   *)
LEMMA TurnFrom ==
  ASSUME IInv, Next, NEW q \in Slots, req'[q].at \in {"turn", "answer"}
  PROVE  \/ \E s \in Subjects : Resolve(q, s)
         \/ /\ req[q].at \in {"turn", "answer"} /\ req'[q].exp = req[q].exp
            /\ req'[q].subject = req[q].subject /\ req'[q].arm = req[q].arm
            /\ req'[q].fresh = req[q].fresh
<1>t. req \in [Slots -> Reading]
  BY DEF IInv, TypeOK
<1>1. ASSUME NEW e \in Exps, OpenStart(q, e) \/ OpenDelete(q, e)
      PROVE  req'[q].at \in {"start", "delete"}
  BY <1>t, <1>1 DEF OpenStart, OpenDelete
<1>2. ASSUME NEW p \in Pipelines, OpenDeletePipeline(q, p)
      PROVE  req'[q].at = "drop"
  BY <1>t, <1>2 DEF OpenDeletePipeline
<1>3. ASSUME Check(q)
      PROVE  req'[q].at = "pinned"
  BY <1>t, <1>3 DEF Check
<1>4. ASSUME Prepare(q)
      PROVE  /\ req[q].at \in {"turn", "answer"} /\ req'[q].exp = req[q].exp
             /\ req'[q].subject = req[q].subject /\ req'[q].arm = req[q].arm
             /\ req'[q].fresh = req[q].fresh
  BY <1>t, <1>4 DEF Prepare
<1>5. req'[q] # Idle
  BY DEF Idle
<1>6. CASE req'[q] = req[q]
  BY <1>6
<1>7. CASE req'[q] # req[q]
  BY <1>1, <1>2, <1>3, <1>4, <1>5, <1>7, RequestStep
<1> QED  BY <1>6, <1>7
-----------------------------------------------------------------------------
(* The splits that are stored, and everybody who is or will be assigned.   *)
SplitsFit == \A e \in Exps : Share(arms[e], Present(arms[e])) <= Buckets

AssignedHonoured ==
    \A e \in Exps, s \in Subjects :
        assigned[e][s] # None => Honoured(arms[e], assigned[e][s], BucketOf[e][s])

TurnsHonoured ==
    \A q \in Slots :
        (/\ req[q].at \in {"turn", "answer"} /\ req[q].fresh
         /\ arms[req[q].exp][req[q].arm] # None) =>
            Honoured(arms[req[q].exp], req[q].arm, BucketOf[req[q].exp][req[q].subject])

SplitInv == SplitsFit /\ AssignedHonoured /\ TurnsHonoured

LEMMA ListsHold == ASSUME IInv, NEW e \in Exps  PROVE arms[e] \in Lists
BY DEF IInv, TypeOK, Lists

LEMMA BucketsAre ==
  /\ Buckets \in Nat
  /\ \A e \in Exps, s \in Subjects : BucketOf[e][s] \in 0 .. Buckets - 1
BY ExperimentsAssumption

(* Unless an experiment is being created, its split only loses arms. *)
LEMMA SplitKept ==
  ASSUME IInv, IInv', SplitInv, Next, NEW e \in Exps, \A payload \in Payloads : ~Create(e, payload)
  PROVE  /\ Share(arms'[e], Present(arms'[e])) <= Buckets
         /\ \A arm \in Present(arms'[e]), s \in Subjects :
               Honoured(arms[e], arm, BucketOf[e][s]) => Honoured(arms'[e], arm, BucketOf[e][s])
<1>1. PICK old, new : old = arms[e] /\ new = arms'[e]
  OBVIOUS
<1>2. old \in Lists /\ new \in Lists
  BY <1>1, ListsHold DEF IInv, TypeOK, Lists
<1>3. Thinned(old, new)
  BY <1>1, ListStep
<1>4. Share(old, Present(old)) <= Buckets
  BY <1>1 DEF SplitInv, SplitsFit
<1>5. /\ Share(new, Present(new)) <= Buckets
      /\ \A arm \in Present(new), bucket \in 0 .. Buckets - 1 :
            Honoured(old, arm, bucket) => Honoured(new, arm, bucket)
  BY <1>2, <1>3, <1>4, BucketsAre, HonouredKept
<1> QED  BY <1>1, <1>5, BucketsAre

LEMMA SplitStep == ASSUME IInv, IInv', SplitInv, Next  PROVE SplitInv'
<1>1. ASSUME NEW e \in Exps
      PROVE  Share(arms'[e], Present(arms'[e])) <= Buckets
  <2>1. ASSUME NEW payload \in Payloads, Create(e, payload)
        PROVE  Share(arms'[e], Present(arms'[e])) <= Buckets
    <3>1. arms'[e] = payload /\ Share(payload, Present(payload)) = Buckets
      BY <2>1 DEF Create, ValidSplit, IInv, TypeOK
    <3>2. Buckets <= Buckets
      BY BucketsAre
    <3> QED  BY <3>1, <3>2
  <2> QED  BY <2>1, SplitKept
<1>2. ASSUME NEW e \in Exps, NEW s \in Subjects, assigned'[e][s] # None
      PROVE  Honoured(arms'[e], assigned'[e][s], BucketOf[e][s])
  <2>1. assigned'[e][s] \in Present(arms'[e])
    <3>1. assigned'[e][s] \in Positions
      BY <1>2 DEF IInv, TypeOK
    <3>2. arms'[e][assigned'[e][s]] # None
      BY <1>2, AssignedStep
    <3> QED  BY <3>1, <3>2 DEF Present
  <2>2. CASE assigned'[e][s] = assigned[e][s]
    <3>1. ASSUME NEW payload \in Payloads, Create(e, payload)
          PROVE  FALSE
      <4>1. \A a \in Positions : arms[e][a] = None
        BY <3>1 DEF Create, IInv, RefInv
      <4>2. assigned[e][s] \in Positions /\ arms[e][assigned[e][s]] # None
        BY <1>2, <2>2 DEF IInv, TypeOK, RefInv
      <4> QED  BY <4>1, <4>2
    <3>2. Honoured(arms[e], assigned[e][s], BucketOf[e][s])
      BY <1>2, <2>2 DEF SplitInv, AssignedHonoured
    <3> QED  BY <2>1, <2>2, <3>1, <3>2, SplitKept
  <2>3. CASE assigned'[e][s] # assigned[e][s]
    <3>1. PICK q \in Slots :
            /\ req[q].at = "answer" /\ req[q].fresh /\ req[q].exp = e /\ req[q].subject = s
            /\ req[q].arm = assigned'[e][s] /\ arms[e][req[q].arm] # None /\ arms' = arms
      BY <1>2, <2>3, AssignedBy
    <3>2. Honoured(arms[e], assigned'[e][s], BucketOf[e][s])
      BY <3>1 DEF SplitInv, TurnsHonoured
    <3> QED  BY <3>1, <3>2
  <2> QED  BY <2>2, <2>3
<1>3. ASSUME NEW q \in Slots, req'[q].at \in {"turn", "answer"}, req'[q].fresh,
             arms'[req'[q].exp][req'[q].arm] # None
      PROVE  Honoured(arms'[req'[q].exp], req'[q].arm, BucketOf[req'[q].exp][req'[q].subject])
  <2>1. ASSUME NEW s \in Subjects, Resolve(q, s)
        PROVE  Honoured(arms'[req'[q].exp], req'[q].arm, BucketOf[req'[q].exp][req'[q].subject])
    <3>1. arms' = arms
      BY <2>1 DEF Resolve, abVars
    <3>0. PICK e \in Latest : \E arm \in ArmFor(e, s) :
             req' = [req EXCEPT ![q] = [at |-> "turn", exp |-> e, subject |-> s, arm |-> arm,
                                        fresh |-> (assigned[e][s] = None),
                                        version |-> arms[e][arm].version]]
      BY <2>1 DEF Resolve
    <3>2. PICK arm \in ArmFor(e, s) :
             req' = [req EXCEPT ![q] = [at |-> "turn", exp |-> e, subject |-> s, arm |-> arm,
                                        fresh |-> (assigned[e][s] = None),
                                        version |-> arms[e][arm].version]]
      BY <3>0
    <3>3. req'[q] = [at |-> "turn", exp |-> e, subject |-> s, arm |-> arm,
                     fresh |-> (assigned[e][s] = None), version |-> arms[e][arm].version]
      BY <3>2 DEF IInv, TypeOK
    <3>4. /\ req'[q].exp = e /\ req'[q].subject = s /\ req'[q].arm = arm
          /\ req'[q].fresh = (assigned[e][s] = None)
      BY <3>3
    <3>5. e \in Exps
      BY DEF Latest, Running
    <3>6. arm \in Picked(arms[e], BucketOf[e][s])
      BY <1>3, <3>4 DEF ArmFor
    <3>7. Honoured(arms[e], arm, BucketOf[e][s])
      BY <3>5, <3>6, ListsHold, BucketsAre, PickedHonoured
    <3> QED  BY <3>1, <3>4, <3>7
  <2>2. ASSUME req[q].at \in {"turn", "answer"}, req'[q].exp = req[q].exp,
               req'[q].subject = req[q].subject, req'[q].arm = req[q].arm,
               req'[q].fresh = req[q].fresh
        PROVE  Honoured(arms'[req'[q].exp], req'[q].arm, BucketOf[req'[q].exp][req'[q].subject])
    <3>1. PICK e \in Exps, s \in Subjects, arm \in Positions :
             /\ e = req[q].exp /\ s = req[q].subject /\ arm = req[q].arm /\ status[e] # "unborn"
      BY <2>2, Readings DEF IInv, TypeOK, KnownInv
    <3>2. arm \in Present(arms'[e])
      BY <1>3, <2>2, <3>1 DEF Present
    <3>3. arms[e][arm] # None
      BY <1>3, <2>2, <3>1, ArmStep
    <3>4. Honoured(arms[e], arm, BucketOf[e][s])
      BY <1>3, <2>2, <3>1, <3>3 DEF SplitInv, TurnsHonoured
    <3>5. \A payload \in Payloads : ~Create(e, payload)
      BY <3>1 DEF Create
    <3>6. Honoured(arms'[e], arm, BucketOf[e][s])
      BY <3>2, <3>4, <3>5, SplitKept
    <3> QED  BY <2>2, <3>1, <3>6
  <2> QED  BY <1>3, <2>1, <2>2, TurnFrom
<1> QED  BY <1>1, <1>2, <1>3 DEF SplitInv, SplitsFit, AssignedHonoured, TurnsHonoured

LEMMA SplitInit == Init => SplitInv
<1> SUFFICES ASSUME Init  PROVE SplitInv
  OBVIOUS
<1>1. ASSUME NEW e \in Exps  PROVE Share(arms[e], Present(arms[e])) <= Buckets
  <2>1. Present(arms[e]) = {} /\ arms[e] \in Lists
    BY <1>1 DEF Init, Present, Lists
  <2>2. Share(arms[e], Present(arms[e])) = 0
    BY <2>1, ListsWeighed, ShareLaws
  <2> QED  BY <2>2, BucketsAre
<1>2. AssignedHonoured /\ TurnsHonoured
  BY DEF Init, AssignedHonoured, TurnsHonoured, Idle
<1> QED  BY <1>1, <1>2 DEF SplitInv, SplitsFit

LEMMA SplitStutter == SplitInv /\ UNCHANGED vars => SplitInv'
BY DEF vars, SplitInv, SplitsFit, AssignedHonoured, TurnsHonoured, Honoured, Present, UpTo

(* pick_variant follows the hash for every visitor, however many arms the  *)
(* split has: the sums over the arms are counted bucket by bucket.         *)
THEOREM SplitsAreHonoured == Spec => []BucketsHonoured
<1>1. IInv /\ IInv' /\ SplitInv /\ [Next]_vars => SplitInv'
  BY SplitStep, SplitStutter
<1>2. Spec => []SplitInv
  BY SplitInit, Invariance, <1>1, PTL DEF Spec
<1>3. SplitInv => BucketsHonoured
  BY DEF SplitInv, AssignedHonoured, Honoured, BucketsHonoured
<1> QED  BY <1>2, <1>3, PTL

-----------------------------------------------------------------------------
(***************************************************************************)
(* Quota: tokens are counted one by one, by the lemma on subsets above, so *)
(* that a sum over calls, in whatever order, is the size of a set.         *)
(***************************************************************************)
(* Tokens one by one: f[c] of them for each call c of S.                   *)
Coins(f, S)  == UNION {{c} \X (1..f[c]) : c \in S}
Weight(f, S) == Cardinality(Coins(f, S))

(* Calls whose row is not shown yet, and those not in the counter yet.     *)
Unshown   == {c \in Calls : pc[c] \in {"inserted", "counting", "committing"} /\ payer[c] = "system"}
Uncounted == {c \in Calls : pc[c] \in {"inserted", "counting"}}

RowsInv  == recorded + Weight(size, Unshown) <= charged
ReadInv  == \A c \in Calls : pc[c] = "filling" => held[c] <= recorded
PayerInv == \A c \in Uncounted : payer[c] = "system"
CountInv == counter # NoCounter => counter + Weight(size, Uncounted) <= charged

QuotaInv == QuotaTypeOK /\ RowsInv /\ ReadInv /\ PayerInv /\ CountInv

-----------------------------------------------------------------------------
(* Each token of a call is one thing, so sums are numbers of things.       *)
LEMMA CoinsOfOne ==
  ASSUME NEW f, NEW x, f[x] \in Nat
  PROVE  IsFiniteSet({x} \X (1..f[x])) /\ Cardinality({x} \X (1..f[x])) = f[x]
<1> DEFINE n == f[x]
           own == [k \in 1..n |-> <<x, k>>]
<1>1. IsFiniteSet(1..n) /\ Cardinality(1..n) = n
  <2>1. 1 \in Int /\ n \in Int
    OBVIOUS
  <2> QED  BY <2>1, FS_Interval
<1>2. {x} \X (1..n) = {<<x, k>> : k \in 1..n}
  OBVIOUS
<1>3. own \in Bijection(1..n, {x} \X (1..n))
  BY <1>2 DEF Bijection, Injection, Surjection, IsInjective
<1> HIDE DEF n, own
<1>4. IsFiniteSet({x} \X (1..n)) /\ Cardinality({x} \X (1..n)) = n
  BY <1>1, <1>3, FS_Bijection DEF ExistsBijection
<1> QED  BY <1>4 DEF n

LEMMA CoinsAdd ==
  ASSUME NEW S, NEW x, x \notin S, NEW f, f[x] \in Nat, IsFiniteSet(Coins(f, S))
  PROVE  IsFiniteSet(Coins(f, S \cup {x})) /\ Weight(f, S \cup {x}) = f[x] + Weight(f, S)
<1>1. PICK own : own = {x} \X (1..f[x])
  OBVIOUS
<1>2. PICK others : others = Coins(f, S)
  OBVIOUS
<1>3. Coins(f, S \cup {x}) = own \cup others
  BY <1>1, <1>2 DEF Coins
<1>4. own \cap others = {}
  BY <1>1, <1>2 DEF Coins
<1>5. IsFiniteSet(own) /\ Cardinality(own) = f[x]
  BY <1>1, CoinsOfOne
<1>6. IsFiniteSet(others) /\ Cardinality(others) \in Nat /\ Weight(f, S) = Cardinality(others)
  BY <1>2, FS_CardinalityType DEF Weight
<1>7. /\ IsFiniteSet(own \cup others)
      /\ Cardinality(own \cup others) = Cardinality(own) + Cardinality(others) - Cardinality(own \cap others)
  BY <1>5, <1>6, FS_Union
<1>8. Cardinality(own \cap others) = 0
  BY <1>4, FS_EmptySet
<1>9. Cardinality(own \cup others) = f[x] + Cardinality(others)
  BY <1>5, <1>6, <1>7, <1>8
<1>10. Weight(f, S \cup {x}) = Cardinality(own \cup others)
  BY <1>3 DEF Weight
<1> QED  BY <1>3, <1>6, <1>7, <1>9, <1>10

LEMMA CoinsFinite ==
  ASSUME NEW S \in SUBSET Calls, NEW f \in [Calls -> Nat]
  PROVE  IsFiniteSet(Coins(f, S)) /\ Weight(f, S) \in Nat
<1> DEFINE Good == {T \in SUBSET S : IsFiniteSet(Coins(f, T))}
<1>1. IsFiniteSet(S)
  BY QuotaAssumption, FS_Subset DEF QuotaAssumption
<1>2. ASSUME NEW T \in SUBSET S, \A U \in SUBSET T : U # T => U \in Good
      PROVE  T \in Good
  <2>1. CASE T = {}
    <3>1. Coins(f, T) = {}
      BY <2>1 DEF Coins
    <3> QED  BY <3>1, FS_EmptySet
  <2>2. CASE T # {}
    <3>1. PICK x \in T : TRUE
      BY <2>2
    <3>2. PICK U : U = T \ {x}
      OBVIOUS
    <3>3. IsFiniteSet(Coins(f, U)) /\ x \notin U /\ T = U \cup {x}
      BY <1>2, <3>1, <3>2
    <3>4. f[x] \in Nat
      BY <3>1
    <3> QED  BY <3>3, <3>4, CoinsAdd
  <2> QED  BY <2>1, <2>2
<1> HIDE DEF Good
<1>3. S \in Good
  BY <1>1, <1>2, Subsets
<1>4. IsFiniteSet(Coins(f, S))
  BY <1>3 DEF Good
<1> QED  BY <1>4, FS_CardinalityType DEF Weight

(* One call more.                                                          *)
LEMMA WeightAdd ==
  ASSUME NEW S \in SUBSET Calls, NEW f \in [Calls -> Nat], NEW x \in Calls, x \notin S
  PROVE  Weight(f, S \cup {x}) = f[x] + Weight(f, S)
<1>1. IsFiniteSet(Coins(f, S)) /\ f[x] \in Nat
  BY CoinsFinite
<1> QED  BY <1>1, CoinsAdd

(* One call less.                                                          *)
LEMMA WeightTake ==
  ASSUME NEW S \in SUBSET Calls, NEW f \in [Calls -> Nat], NEW x \in S
  PROVE  Weight(f, S) = f[x] + Weight(f, S \ {x})
<1>1. PICK T : T = S \ {x}
  OBVIOUS
<1>2. T \in SUBSET Calls /\ x \in Calls /\ x \notin T /\ S = T \cup {x}
  BY <1>1
<1>3. Weight(f, T \cup {x}) = f[x] + Weight(f, T)
  BY <1>2, WeightAdd
<1> QED  BY <1>1, <1>2, <1>3

(* Fewer calls weigh no more.                                              *)
LEMMA WeightLess ==
  ASSUME NEW S \in SUBSET Calls, NEW f \in [Calls -> Nat], NEW T \in SUBSET S
  PROVE  Weight(f, T) <= Weight(f, S)
<1>1. Coins(f, T) \in SUBSET Coins(f, S)
  BY DEF Coins
<1>2. IsFiniteSet(Coins(f, S))
  BY CoinsFinite
<1> QED  BY <1>1, <1>2, FS_Subset DEF Weight

(* Only the tokens of the calls in question matter.                        *)
LEMMA WeightSame ==
  ASSUME NEW S, NEW f, NEW g, \A c \in S : f[c] = g[c]
  PROVE  Weight(f, S) = Weight(g, S)
<1>1. Coins(f, S) = Coins(g, S)
  BY DEF Coins
<1> QED  BY <1>1 DEF Weight

LEMMA WeightNone == \A f : Weight(f, {}) = 0
<1>1. \A f : Coins(f, {}) = {}
  BY DEF Coins
<1> QED  BY <1>1, FS_EmptySet DEF Weight

(* The library's sum is the one function that adds the calls one by one.   *)
LEMMA SumIsWeight ==
  ASSUME NEW S \in SUBSET Calls, NEW f \in [Calls -> Nat]
  PROVE  Total(f, S) = Weight(f, S)
<1> DEFINE One(T) == CHOOSE x \in T : TRUE
           SumsUp(g) == g = [T \in SUBSET S |-> IF T = {} THEN 0 ELSE f[One(T)] + g[T \ {One(T)}]]
           iter == CHOOSE g : SumsUp(g)
           w == [T \in SUBSET S |-> Weight(f, T)]
<1>1. Total(f, S) = iter[S]
  BY DEF Total, MapThenSumSet, MapThenFoldSet
<1>2. ASSUME NEW T \in SUBSET S
      PROVE  Weight(f, T) = IF T = {} THEN 0 ELSE f[One(T)] + w[T \ {One(T)}]
  <2>1. CASE T = {}
    BY <2>1, WeightNone
  <2>2. CASE T # {}
    <3>1. PICK x : x = One(T)
      OBVIOUS
    <3>2. x \in T
      BY <2>2, <3>1
    <3>3. Weight(f, T) = f[x] + Weight(f, T \ {x})
      BY <3>2, WeightTake
    <3>4. w[T \ {x}] = Weight(f, T \ {x})
      OBVIOUS
    <3> QED  BY <2>2, <3>1, <3>3, <3>4
  <2> QED  BY <2>1, <2>2
<1> HIDE DEF One
<1>3. SumsUp(w)
  BY <1>2
<1>4. SumsUp(iter)
  BY <1>3
<1> HIDE DEF iter, w
<1> DEFINE Good == {T \in SUBSET S : iter[T] = w[T]}
<1>5. IsFiniteSet(S)
  BY QuotaAssumption, FS_Subset DEF QuotaAssumption
<1>6. ASSUME NEW T \in SUBSET S, \A U \in SUBSET T : U # T => U \in Good
      PROVE  T \in Good
  <2>1. CASE T = {}
    BY <1>3, <1>4, <2>1
  <2>2. CASE T # {}
    <3>1. One(T) \in T
      BY <2>2 DEF One
    <3>2. T \ {One(T)} \in SUBSET S /\ iter[T \ {One(T)}] = w[T \ {One(T)}]
      BY <1>6, <3>1
    <3>3. iter[T] = f[One(T)] + iter[T \ {One(T)}] /\ w[T] = f[One(T)] + w[T \ {One(T)}]
      BY <1>3, <1>4, <2>2
    <3> QED  BY <3>2, <3>3
  <2> QED  BY <2>1, <2>2
<1> HIDE DEF Good, SumsUp
<1>7. S \in Good
  BY <1>5, <1>6, Subsets
<1> QED  BY <1>1, <1>7 DEF Good, w

-----------------------------------------------------------------------------
LEMMA Tokens ==
  /\ \A n \in Sizes \cup {0} : n \in Nat
  /\ QuotaTypeOK => size \in [Calls -> Nat]
<1>1. \A n \in Sizes \cup {0} : n \in Nat
  BY QuotaAssumption DEF QuotaAssumption
<1> QED  BY <1>1 DEF QuotaTypeOK

LEMMA TypedMoves ==
  ASSUME QuotaTypeOK, NEW c \in Calls,
         UseOwnKey(c) \/ Hit(c) \/ Miss(c) \/ SumRows(c) \/ Exists(c) \/ Leave(c) \/ Lose(c)
  PROVE  QuotaTypeOK'
<1>1. CASE UseOwnKey(c) \/ Hit(c) \/ Miss(c)
  BY <1>1 DEF UseOwnKey, Hit, Miss, QuotaTypeOK, Go, redisVars, history, bounds, Paid
<1>2. CASE SumRows(c) \/ Exists(c)
  BY <1>2 DEF SumRows, Exists, QuotaTypeOK, Go, redisVars, history, bounds, Paid
<1>3. CASE Leave(c)
  BY <1>3 DEF Leave, Finish, QuotaTypeOK, redisVars, history, bounds, Paid
<1>4. CASE Lose(c)
  BY <1>4, QuotaAssumption DEF Lose, Finish, QuotaTypeOK, redisVars, history, Paid, QuotaAssumption
<1> QED  BY <1>1, <1>2, <1>3, <1>4

LEMMA TypedWrites ==
  ASSUME QuotaTypeOK, NEW c \in Calls,
         Fill(c) \/ (\E n \in Sizes : Call(c, n)) \/ Record(c) \/ Incr(c) \/ Commit(c)
  PROVE  QuotaTypeOK'
<1>0. size[c] \in Nat /\ held[c] \in Nat /\ \A n \in Sizes : n \in Nat
  BY Tokens DEF QuotaTypeOK
<1>1. CASE Fill(c)
  <2>1. counter' \in Nat /\ counter' # NoCounter
    BY <1>0, <1>1, QuotaAssumption DEF Fill, QuotaAssumption
  <2> QED  BY <1>1, <2>1 DEF Fill, Finish, Go, QuotaTypeOK, history, bounds, Paid
<1>2. ASSUME NEW n \in Sizes, Call(c, n)  PROVE QuotaTypeOK'
  BY <1>0, <1>2 DEF Call, Go, QuotaTypeOK, redisVars, bounds, Paid
<1>3. CASE Record(c)
  <2>1. charged' \in 0..MaxCharged
    BY <1>0, <1>3, QuotaAssumption DEF Record, QuotaTypeOK, QuotaAssumption
  <2> QED  BY <1>3, <2>1 DEF Record, KeyNow, Go, QuotaTypeOK, redisVars, bounds, Paid
<1>4. CASE Incr(c)
  <2>1. counter' \in Nat /\ counter' # NoCounter
    BY <1>0, <1>4, QuotaAssumption DEF Incr, QuotaTypeOK, QuotaAssumption
  <2> QED  BY <1>4, <2>1 DEF Incr, Go, QuotaTypeOK, history, bounds, Paid
<1>5. CASE Commit(c)
  BY <1>0, <1>5 DEF Commit, Finish, QuotaTypeOK, redisVars, history, bounds, Paid
<1> QED  BY <1>1, <1>2, <1>3, <1>4, <1>5

LEMMA TypedAlone ==
  ASSUME QuotaTypeOK, Expire \/ EditKey
  PROVE  QuotaTypeOK'
<1>1. MaxExpiries \in Nat /\ MaxKeyEdits \in Nat
  BY QuotaAssumption DEF QuotaAssumption
<1>2. CASE Expire
  <2>1. expiries' \in 0..MaxExpiries /\ keyEdits' \in 0..MaxKeyEdits /\ losses' \in 0..MaxLosses
    BY <1>1, <1>2 DEF Expire, QuotaTypeOK
  <2>2. counter' = NoCounter /\ expiring' = FALSE
    BY <1>2 DEF Expire
  <2>3. UNCHANGED <<recorded, ownKey, callVars, history>>
    BY <1>2 DEF Expire
  <2> QED  BY <2>1, <2>2, <2>3 DEF QuotaTypeOK, callVars, history, Paid
<1>3. CASE EditKey
  BY <1>1, <1>3 DEF EditKey, QuotaTypeOK, redisVars, callVars, history, Paid
<1> QED  BY <1>2, <1>3

LEMMA QuotaTyped == QuotaTypeOK /\ [QuotaNext]_quotaVars => QuotaTypeOK'
<1> SUFFICES ASSUME QuotaTypeOK, [QuotaNext]_quotaVars PROVE QuotaTypeOK'
  OBVIOUS
<1>1. CASE UNCHANGED quotaVars
  BY <1>1 DEF quotaVars, QuotaTypeOK, redisVars, callVars, history, bounds, Paid
<1>2. CASE QuotaNext
  BY <1>2, TypedMoves, TypedWrites, TypedAlone DEF QuotaNext
<1> QED  BY <1>1, <1>2
-----------------------------------------------------------------------------
(* What a call's row weighs while nobody sees it, and while the counter    *)
(* does not have it.                                                       *)
LEMMA RowsKept ==
  ASSUME QuotaTypeOK, QuotaTypeOK', RowsInv, UNCHANGED <<recorded, charged>>,
         Unshown' \subseteq Unshown, \A c \in Unshown' : size'[c] = size[c]
  PROVE  RowsInv'
<1>1. PICK S, f : S = Unshown' /\ f = size'
  OBVIOUS
<1>2. S \in SUBSET Unshown /\ Unshown \in SUBSET Calls
  BY <1>1 DEF Unshown
<1>3. size \in [Calls -> Nat] /\ \A c \in S : f[c] = size[c]
  BY <1>1, Tokens
<1>4. Weight(f, S) = Weight(size, S)
  BY <1>3, WeightSame
<1>5. Weight(size, S) <= Weight(size, Unshown) /\ Weight(size, S) \in Nat /\ Weight(size, Unshown) \in Nat
  BY <1>2, <1>3, WeightLess, CoinsFinite
<1>6. recorded + Weight(f, S) <= charged
  BY <1>4, <1>5 DEF RowsInv, QuotaTypeOK
<1> QED  BY <1>1, <1>6 DEF RowsInv

LEMMA CountKept ==
  ASSUME QuotaTypeOK, QuotaTypeOK', CountInv, UNCHANGED <<counter, charged>>,
         Uncounted' \subseteq Uncounted, \A c \in Uncounted' : size'[c] = size[c]
  PROVE  CountInv'
<1>1. PICK S, f : S = Uncounted' /\ f = size'
  OBVIOUS
<1>2. S \in SUBSET Uncounted /\ Uncounted \in SUBSET Calls
  BY <1>1 DEF Uncounted
<1>3. size \in [Calls -> Nat] /\ \A c \in S : f[c] = size[c]
  BY <1>1, Tokens
<1>4. Weight(f, S) = Weight(size, S)
  BY <1>3, WeightSame
<1>5. Weight(size, S) <= Weight(size, Uncounted) /\ Weight(size, S) \in Nat /\ Weight(size, Uncounted) \in Nat
  BY <1>2, <1>3, WeightLess, CoinsFinite
<1>6. counter # NoCounter => counter + Weight(f, S) <= charged
  BY <1>4, <1>5 DEF CountInv, QuotaTypeOK
<1> QED  BY <1>1, <1>6 DEF CountInv

(* An INCRBY that is still to come, or a row still to be shown.            *)
LEMMA QuietStep ==
  ASSUME QuotaInv, QuotaTypeOK', NEW c \in Calls,
         UNCHANGED <<recorded, charged, counter>>,
         \A d \in Calls \ {c} : pc'[d] = pc[d] /\ payer'[d] = payer[d] /\ size'[d] = size[d] /\ held'[d] = held[d],
         c \in Unshown' => c \in Unshown /\ size'[c] = size[c],
         c \in Uncounted' => c \in Uncounted /\ size'[c] = size[c] /\ payer'[c] = payer[c],
         pc'[c] = "filling" => held'[c] <= recorded
  PROVE  QuotaInv'
<1>1. Unshown' \subseteq Unshown /\ \A d \in Unshown' : size'[d] = size[d]
  BY DEF Unshown
<1>2. Uncounted' \subseteq Uncounted /\ \A d \in Uncounted' : size'[d] = size[d]
  BY DEF Uncounted
<1>3. RowsInv' /\ CountInv'
  BY <1>1, <1>2, RowsKept, CountKept DEF QuotaInv
<1>4. ReadInv'
  BY DEF ReadInv, QuotaInv
<1>5. PayerInv'
  BY DEF PayerInv, QuotaInv, Uncounted
<1> QED  BY <1>3, <1>4, <1>5 DEF QuotaInv

LEMMA MovesStep ==
  ASSUME QuotaInv, QuotaTypeOK', NEW c \in Calls,
         UseOwnKey(c) \/ Hit(c) \/ Miss(c) \/ SumRows(c) \/ Exists(c) \/ Leave(c) \/ Lose(c)
           \/ \E n \in Sizes : Call(c, n)
  PROVE  QuotaInv'
<1>0. QuotaTypeOK
  BY DEF QuotaInv
<1>1. CASE UseOwnKey(c) \/ Hit(c) \/ Miss(c)
  <2>1. /\ UNCHANGED <<recorded, charged, counter, size, held>> /\ pc'[c] \in {"calling", "missed"}
        /\ \A d \in Calls \ {c} : pc'[d] = pc[d] /\ payer'[d] = payer[d]
    BY <1>0, <1>1 DEF UseOwnKey, Hit, Miss, Go, redisVars, history, QuotaTypeOK
  <2> QED  BY <2>1, QuietStep DEF Unshown, Uncounted
<1>2. CASE SumRows(c)
  <2>1. /\ UNCHANGED <<recorded, charged, counter, size, payer>> /\ pc'[c] = "filling" /\ held'[c] = recorded
        /\ \A d \in Calls \ {c} : pc'[d] = pc[d] /\ held'[d] = held[d]
    BY <1>0, <1>2 DEF SumRows, Go, redisVars, history, QuotaTypeOK
  <2>2. held'[c] <= recorded
    BY <1>0, <2>1 DEF QuotaTypeOK
  <2> QED  BY <2>1, <2>2, QuietStep DEF Unshown, Uncounted
<1>3. CASE Exists(c)
  <2>1. /\ UNCHANGED <<recorded, charged, counter, size, held, payer>>
        /\ pc[c] = "inserted" /\ pc'[c] \in {"committing", "counting"}
        /\ \A d \in Calls \ {c} : pc'[d] = pc[d]
    BY <1>0, <1>3 DEF Exists, Go, redisVars, history, QuotaTypeOK
  <2> QED  BY <2>1, QuietStep DEF Unshown, Uncounted
<1>4. CASE Leave(c) \/ Lose(c)
  <2>1. /\ UNCHANGED <<recorded, charged, counter>> /\ pc'[c] = "idle"
        /\ \A d \in Calls \ {c} : pc'[d] = pc[d] /\ payer'[d] = payer[d] /\ size'[d] = size[d] /\ held'[d] = held[d]
    BY <1>0, <1>4 DEF Leave, Lose, Finish, redisVars, history, QuotaTypeOK
  <2> QED  BY <2>1, QuietStep DEF Unshown, Uncounted
<1>5. ASSUME NEW n \in Sizes, Call(c, n)  PROVE QuotaInv'
  <2>1. /\ UNCHANGED <<recorded, charged, counter, payer, held>> /\ pc'[c] = "answered"
        /\ \A d \in Calls \ {c} : pc'[d] = pc[d] /\ size'[d] = size[d]
    BY <1>0, <1>5 DEF Call, Go, redisVars, QuotaTypeOK
  <2> QED  BY <2>1, QuietStep DEF Unshown, Uncounted
<1> QED  BY <1>1, <1>2, <1>3, <1>4, <1>5

(* SET: the sum that was read is no more than the rows that are shown now, *)
(* and the rows not counted yet are among those not shown yet.             *)
LEMMA FillStep ==
  ASSUME QuotaInv, QuotaTypeOK', NEW c \in Calls, Fill(c)
  PROVE  QuotaInv'
<1>0. QuotaTypeOK
  BY DEF QuotaInv
<1>1. /\ UNCHANGED <<recorded, charged>> /\ pc[c] = "filling" /\ pc'[c] \in {"calling", "idle"}
      /\ counter' = held[c]
      /\ \A d \in Calls \ {c} : pc'[d] = pc[d] /\ payer'[d] = payer[d] /\ size'[d] = size[d] /\ held'[d] = held[d]
  BY <1>0 DEF Fill, Finish, Go, history, QuotaTypeOK
<1>2. Unshown' \subseteq Unshown /\ \A d \in Unshown' : size'[d] = size[d]
  BY <1>1 DEF Unshown
<1>3. RowsInv'
  BY <1>0, <1>1, <1>2, RowsKept DEF QuotaInv
<1>4. Uncounted' \subseteq Unshown'
  BY <1>1 DEF Unshown, Uncounted, QuotaInv, PayerInv
<1>5. CountInv'
  <2>1. PICK S, T, f : S = Unshown' /\ T = Uncounted' /\ f = size'
    OBVIOUS
  <2>2. S \in SUBSET Calls /\ T \in SUBSET S /\ f \in [Calls -> Nat]
    <3>1. S \in SUBSET Calls
      BY <2>1 DEF Unshown
    <3>2. QuotaTypeOK' => size' \in [Calls -> Nat]
      BY Tokens DEF QuotaTypeOK
    <3> QED  BY <1>4, <2>1, <3>1, <3>2
  <2>3. Weight(f, T) <= Weight(f, S) /\ Weight(f, T) \in Nat /\ Weight(f, S) \in Nat
    BY <2>2, WeightLess, CoinsFinite
  <2>4. held[c] <= recorded
    BY <1>1 DEF QuotaInv, ReadInv
  <2>5. recorded + Weight(f, S) <= charged
    BY <1>1, <1>3, <2>1 DEF RowsInv
  <2>6. held[c] + Weight(f, T) <= charged
    BY <1>0, <2>3, <2>4, <2>5 DEF QuotaTypeOK
  <2> QED  BY <1>1, <2>1, <2>6 DEF CountInv
<1>6. ReadInv'
  BY <1>1 DEF ReadInv, QuotaInv
<1>7. PayerInv'
  BY <1>1 DEF PayerInv, QuotaInv, Uncounted
<1> QED  BY <1>3, <1>5, <1>6, <1>7 DEF QuotaInv

(* The row is written: charged, and neither shown nor counted yet.         *)
LEMMA RecordStep ==
  ASSUME QuotaInv, QuotaTypeOK', NEW c \in Calls, Record(c)
  PROVE  QuotaInv'
<1>0. QuotaTypeOK /\ size \in [Calls -> Nat]
  BY Tokens DEF QuotaInv
<1>1. /\ UNCHANGED <<recorded, counter, size, held>> /\ pc[c] = "answered"
      /\ \A d \in Calls \ {c} : pc'[d] = pc[d] /\ payer'[d] = payer[d]
  BY <1>0 DEF Record, Go, redisVars, QuotaTypeOK
<1>2. CASE ownKey
  <2>1. charged' = charged /\ pc'[c] = "committing" /\ payer'[c] = "org"
    BY <1>0, <1>2 DEF Record, Go, KeyNow, QuotaTypeOK
  <2> QED  BY <1>1, <2>1, QuietStep DEF Unshown, Uncounted
<1>3. CASE ~ ownKey
  <2>1. charged' = charged + size[c] /\ pc'[c] = "inserted" /\ payer'[c] = "system"
    BY <1>0, <1>3 DEF Record, Go, KeyNow, QuotaTypeOK
  <2>2. Unshown' = Unshown \cup {c} /\ c \notin Unshown
    BY <1>1, <2>1 DEF Unshown
  <2>3. Uncounted' = Uncounted \cup {c} /\ c \notin Uncounted
    BY <1>1, <2>1 DEF Uncounted
  <2>4. PICK S, T : S = Unshown /\ T = Uncounted
    OBVIOUS
  <2>5. S \in SUBSET Calls /\ T \in SUBSET Calls /\ c \notin S /\ c \notin T
    BY <2>2, <2>3, <2>4 DEF Unshown, Uncounted
  <2>6. /\ Weight(size, S \cup {c}) = size[c] + Weight(size, S)
        /\ Weight(size, T \cup {c}) = size[c] + Weight(size, T)
        /\ Weight(size, S) \in Nat /\ Weight(size, T) \in Nat /\ size[c] \in Nat
    BY <1>0, <2>5, WeightAdd, CoinsFinite
  <2>7. RowsInv'
    <3>1. recorded + Weight(size, S) <= charged
      BY <2>4 DEF QuotaInv, RowsInv
    <3>2. recorded + Weight(size, S \cup {c}) <= charged + size[c]
      BY <1>0, <2>6, <3>1 DEF QuotaTypeOK
    <3> QED  BY <1>1, <2>1, <2>2, <2>4, <3>2 DEF RowsInv
  <2>8. CountInv'
    <3>1. counter # NoCounter => counter + Weight(size, T) <= charged
      BY <2>4 DEF QuotaInv, CountInv
    <3>2. counter # NoCounter => counter + Weight(size, T \cup {c}) <= charged + size[c]
      BY <1>0, <2>6, <3>1 DEF QuotaTypeOK
    <3> QED  BY <1>1, <2>1, <2>3, <2>4, <3>2 DEF CountInv
  <2>9. ReadInv'
    BY <1>1, <2>1 DEF ReadInv, QuotaInv
  <2>10. PayerInv'
    BY <1>1, <2>1 DEF PayerInv, QuotaInv, Uncounted
  <2> QED  BY <2>7, <2>8, <2>9, <2>10 DEF QuotaInv
<1> QED  BY <1>2, <1>3

(* INCRBY, on the counter that is there or on none.                        *)
LEMMA IncrStep ==
  ASSUME QuotaInv, QuotaTypeOK', NEW c \in Calls, Incr(c)
  PROVE  QuotaInv'
<1>0. QuotaTypeOK /\ size \in [Calls -> Nat]
  BY Tokens DEF QuotaInv
<1>1. /\ UNCHANGED <<recorded, charged, size, held, payer>> /\ pc[c] = "counting" /\ pc'[c] = "committing"
      /\ counter' = size[c] + (IF counter = NoCounter THEN 0 ELSE counter)
      /\ \A d \in Calls \ {c} : pc'[d] = pc[d]
  BY <1>0 DEF Incr, Go, history, QuotaTypeOK
<1>2. payer[c] = "system" /\ c \in Uncounted /\ Uncounted \subseteq Unshown
  BY <1>1 DEF QuotaInv, PayerInv, Uncounted, Unshown
<1>3. Unshown' = Unshown
  BY <1>1, <1>2 DEF Unshown
<1>4. Uncounted' = Uncounted \ {c}
  BY <1>1 DEF Uncounted
<1>5. RowsInv'
  BY <1>1, <1>3 DEF RowsInv, QuotaInv
<1>6. CountInv'
  <2>1. PICK S, T : S = Unshown /\ T = Uncounted
    OBVIOUS
  <2>2. S \in SUBSET Calls /\ T \in SUBSET S /\ T \in SUBSET Calls /\ c \in T
    BY <1>2, <2>1 DEF Unshown
  <2>3. /\ Weight(size, T) = size[c] + Weight(size, T \ {c}) /\ Weight(size, T) <= Weight(size, S)
        /\ Weight(size, S) \in Nat /\ Weight(size, T) \in Nat /\ Weight(size, T \ {c}) \in Nat /\ size[c] \in Nat
    <3>1. PICK U : U = T \ {c}
      OBVIOUS
    <3>2. Weight(size, U) \in Nat
      BY <1>0, <2>2, <3>1, CoinsFinite
    <3> QED  BY <1>0, <2>2, <3>1, <3>2, WeightTake, WeightLess, CoinsFinite
  <2>4. recorded + Weight(size, S) <= charged /\ (counter # NoCounter => counter + Weight(size, T) <= charged)
    BY <2>1 DEF QuotaInv, RowsInv, CountInv
  <2>5. counter' + Weight(size, T \ {c}) <= charged
    BY <1>0, <1>1, <2>3, <2>4 DEF QuotaTypeOK
  <2> QED  BY <1>1, <1>4, <2>1, <2>5 DEF CountInv
<1>7. ReadInv'
  BY <1>1 DEF ReadInv, QuotaInv
<1>8. PayerInv'
  BY <1>1, <1>4 DEF PayerInv, QuotaInv
<1> QED  BY <1>5, <1>6, <1>7, <1>8 DEF QuotaInv

(* The commit shows the row to the next SUM.                               *)
LEMMA CommitStep ==
  ASSUME QuotaInv, QuotaTypeOK', NEW c \in Calls, Commit(c)
  PROVE  QuotaInv'
<1>0. QuotaTypeOK /\ size \in [Calls -> Nat]
  BY Tokens DEF QuotaInv
<1>1. /\ UNCHANGED <<charged, counter>> /\ pc[c] = "committing" /\ pc'[c] = "idle"
      /\ recorded' = (IF payer[c] = "system" THEN recorded + size[c] ELSE recorded)
      /\ \A d \in Calls \ {c} : pc'[d] = pc[d] /\ payer'[d] = payer[d] /\ size'[d] = size[d] /\ held'[d] = held[d]
  BY <1>0 DEF Commit, Finish, redisVars, history, QuotaTypeOK
<1>2. Unshown' = Unshown \ {c} /\ (c \in Unshown <=> payer[c] = "system")
  BY <1>1 DEF Unshown
<1>3. \A d \in Unshown \ {c} : size'[d] = size[d]
  BY <1>1 DEF Unshown
<1>4. RowsInv'
  <2>1. PICK S, f, U : S = Unshown /\ f = size' /\ U = S \ {c}
    OBVIOUS
  <2>2. S \in SUBSET Calls /\ U \in SUBSET Calls /\ \A d \in U : f[d] = size[d]
    BY <1>3, <2>1 DEF Unshown
  <2>3. Weight(f, U) = Weight(size, U)
    BY <2>2, WeightSame
  <2>4. Weight(size, S) \in Nat /\ Weight(size, U) \in Nat /\ size[c] \in Nat
    BY <1>0, <2>2, CoinsFinite
  <2>5. payer[c] = "system" => Weight(size, S) = size[c] + Weight(size, U)
    BY <1>0, <1>2, <2>1, <2>2, WeightTake
  <2>6. payer[c] # "system" => Weight(size, S) = Weight(size, U)
    <3>1. payer[c] # "system" => S = U
      BY <1>2, <2>1
    <3> QED  BY <3>1
  <2>7. recorded + Weight(size, S) <= charged
    BY <2>1 DEF QuotaInv, RowsInv
  <2>8. recorded' + Weight(size, U) <= charged
    BY <1>0, <1>1, <2>4, <2>5, <2>6, <2>7 DEF QuotaTypeOK
  <2> QED  BY <1>1, <1>2, <2>1, <2>3, <2>8 DEF RowsInv
<1>5. CountInv'
  <2>1. Uncounted' \subseteq Uncounted /\ \A d \in Uncounted' : size'[d] = size[d]
    BY <1>1 DEF Uncounted
  <2> QED  BY <1>0, <1>1, <2>1, CountKept DEF QuotaInv
<1>6. ReadInv'
  <2>1. \A d \in Calls : held[d] \in Nat /\ size[d] \in Nat
    BY <1>0 DEF QuotaTypeOK
  <2>2. recorded <= recorded' /\ recorded \in Nat /\ recorded' \in Nat
    BY <1>0, <1>1, <2>1 DEF QuotaTypeOK
  <2> QED  BY <1>1, <2>1, <2>2 DEF ReadInv, QuotaInv
<1>7. PayerInv'
  BY <1>1 DEF PayerInv, QuotaInv, Uncounted
<1> QED  BY <1>4, <1>5, <1>6, <1>7 DEF QuotaInv

LEMMA AloneStep ==
  ASSUME QuotaInv, QuotaTypeOK', Expire \/ EditKey \/ UNCHANGED quotaVars
  PROVE  QuotaInv'
<1>1. UNCHANGED <<recorded, charged, pc, held, size, payer>> /\ (counter' = counter \/ counter' = NoCounter)
  BY DEF Expire, EditKey, quotaVars, redisVars, callVars, history, bounds
<1>2. Unshown' = Unshown /\ Uncounted' = Uncounted
  BY <1>1 DEF Unshown, Uncounted
<1> QED  BY <1>1, <1>2 DEF QuotaInv, RowsInv, ReadInv, PayerInv, CountInv

LEMMA QuotaStays == QuotaInv /\ [QuotaNext]_quotaVars => QuotaInv'
<1> SUFFICES ASSUME QuotaInv, [QuotaNext]_quotaVars PROVE QuotaInv'
  OBVIOUS
<1>1. QuotaTypeOK'
  BY QuotaTyped DEF QuotaInv
<1>2. ASSUME NEW c \in Calls,
             UseOwnKey(c) \/ Hit(c) \/ Miss(c) \/ SumRows(c) \/ Exists(c) \/ Leave(c) \/ Lose(c)
               \/ \E n \in Sizes : Call(c, n)
      PROVE  QuotaInv'
  BY <1>1, <1>2, MovesStep
<1>3. ASSUME NEW c \in Calls, Fill(c) \/ Record(c) \/ Incr(c) \/ Commit(c)  PROVE QuotaInv'
  BY <1>1, <1>3, FillStep, RecordStep, IncrStep, CommitStep
<1>4. CASE Expire \/ EditKey \/ UNCHANGED quotaVars
  BY <1>1, <1>4, AloneStep
<1> QED  BY <1>2, <1>3, <1>4 DEF QuotaNext

LEMMA QuotaStarts == QuotaInit => QuotaInv
<1> SUFFICES ASSUME QuotaInit PROVE QuotaInv
  OBVIOUS
<1>1. QuotaTypeOK
  <2>1. MaxCharged \in Nat /\ MaxExpiries \in Nat /\ MaxLosses \in Nat /\ MaxKeyEdits \in Nat
    BY QuotaAssumption DEF QuotaAssumption
  <2>2. recorded = 0 /\ spent = 0 /\ charged = 0 /\ expiries = 0 /\ losses = 0 /\ keyEdits = 0
    BY DEF QuotaInit
  <2>3. counter \in {NoCounter, 0} /\ expiring = (counter # NoCounter) /\ ownKey \in BOOLEAN
    BY DEF QuotaInit
  <2>4. expiring \in BOOLEAN
    BY <2>3, Zenon
  <2>5. /\ pc \in [Calls -> {"idle"}] /\ held \in [Calls -> Nat]
        /\ size \in [Calls -> Sizes \cup {0}] /\ payer \in [Calls -> {"org", "system"}]
    BY DEF QuotaInit
  <2>6. counter \in {NoCounter, 0} /\ ownKey \in BOOLEAN
    BY DEF QuotaInit
  <2>9. expiring => counter # NoCounter
    BY <2>3, Zenon
  <2>7. \A c \in Calls : pc[c] \notin Paid
    BY <2>5 DEF Paid
  <2>8. pc \in [Calls -> {"idle", "missed", "filling", "calling"} \cup Paid]
    BY <2>5
  <2> QED  BY <2>1, <2>2, <2>4, <2>5, <2>6, <2>7, <2>8, <2>9 DEF QuotaTypeOK
<1>2. Unshown = {} /\ Uncounted = {}
  BY DEF QuotaInit, Unshown, Uncounted
<1>3. Weight(size, Unshown) = 0 /\ Weight(size, Uncounted) = 0
  BY <1>2, WeightNone
<1> QED  BY <1>1, <1>2, <1>3 DEF QuotaInit, QuotaInv, RowsInv, ReadInv, PayerInv, CountInv

LEMMA QuotaAlways == QuotaSpec => []QuotaInv
  BY QuotaStarts, QuotaStays, PTL DEF QuotaSpec

(***************************************************************************)
(* The counter and the calls keep their shape, and only a counter that is  *)
(* there has an expiry.                                                    *)
(***************************************************************************)
THEOREM QuotaTypeCorrect == QuotaSpec => []QuotaTypeOK
<1>1. QuotaInv => QuotaTypeOK
  BY DEF QuotaInv
<1> QED  BY <1>1, QuotaAlways, PTL

(***************************************************************************)
(* No call is counted twice, by its INCRBY and in a sum that another call  *)
(* reads and sets, however many calls are in flight and whenever the       *)
(* counter expires: an organization is not refused for tokens it never     *)
(* took.                                                                   *)
(***************************************************************************)
THEOREM CallsCountedOnce == QuotaSpec => []CountedOnce
<1>1. QuotaInv => CountedOnce
  <2> SUFFICES ASSUME QuotaInv, counter # NoCounter  PROVE counter <= charged
    BY DEF CountedOnce
  <2>1. Weight(size, Uncounted) \in Nat
    <3>1. Uncounted \in SUBSET Calls /\ size \in [Calls -> Nat]
      BY Tokens DEF Uncounted, QuotaInv
    <3> QED  BY <3>1, CoinsFinite
  <2>2. counter \in Nat /\ charged \in Nat /\ counter + Weight(size, Uncounted) <= charged
    BY DEF QuotaInv, QuotaTypeOK, CountInv
  <2> QED  BY <2>1, <2>2
<1> QED  BY <1>1, QuotaAlways, PTL
-----------------------------------------------------------------------------
LEMMA PendingWeight ==
  ASSUME QuotaTypeOK
  PROVE  /\ InStep <=> /\ counter # NoCounter
                       /\ \A c \in Calls : pc[c] \notin {"missed", "filling"}
                       /\ counter >= recorded + Weight(size, Pending)
         /\ Pending \in SUBSET Calls /\ size \in [Calls -> Nat]
<1>1. Pending \in SUBSET Calls /\ size \in [Calls -> Nat]
  BY Tokens DEF Pending
<1>2. Total(size, Pending) = Weight(size, Pending)
  BY <1>1, SumIsWeight
<1> QED  BY <1>1, <1>2 DEF InStep

(* A counter in step, while nobody is about to overwrite it.               *)
LEMMA StillInStep ==
  ASSUME QuotaTypeOK, QuotaTypeOK', InStep, counter' # NoCounter, QuotaNext
  PROVE  InStep'
<1>1. size \in [Calls -> Nat] /\ size' \in [Calls -> Nat] /\ Pending \in SUBSET Calls
      /\ recorded \in Nat /\ counter \in Nat /\ counter # NoCounter
  <2>1. size' \in [Calls -> Nat]
    <3>1. QuotaTypeOK' => size' \in [Calls -> Nat]
      BY Tokens DEF QuotaTypeOK
    <3> QED  BY <3>1
  <2> QED  BY <2>1, PendingWeight DEF QuotaTypeOK
<1>2. PICK S : S = Pending
  OBVIOUS
<1>3. PICK T, f : T = Pending' /\ f = size'
  OBVIOUS
<1>4. T \in SUBSET Calls /\ f \in [Calls -> Nat]
  BY <1>1, <1>3 DEF Pending
<1>5. /\ \A c \in Calls : pc[c] \notin {"missed", "filling"}
      /\ counter >= recorded + Weight(size, S)
  BY <1>2, PendingWeight
<1>6. SUFFICES /\ \A c \in Calls : pc'[c] \notin {"missed", "filling"}
               /\ counter' >= recorded' + Weight(f, T)
  <2>1. size' \in [Calls -> Nat] /\ Pending' \in SUBSET Calls
    BY <1>1, <1>3, <1>4
  <2>2. Total(size', Pending') = Weight(size', Pending')
    BY <2>1, SumIsWeight
  <2>3. Weight(size', Pending') = Weight(f, T)
    BY <1>3
  <2> QED  BY <2>2, <2>3 DEF InStep
(* Nothing is counted or shown, and no row is nearer to be shown.          *)
<1>7. ASSUME NEW c \in Calls, pc'[c] \notin {"missed", "filling"}, UNCHANGED <<counter, recorded>>,
             \A d \in Calls \ {c} : pc'[d] = pc[d] /\ payer'[d] = payer[d] /\ size'[d] = size[d],
             c \in T => FALSE
      PROVE  /\ \A d \in Calls : pc'[d] \notin {"missed", "filling"}
             /\ counter' >= recorded' + Weight(f, T)
  <2>1. T \in SUBSET S /\ \A d \in T : f[d] = size[d]
    BY <1>2, <1>3, <1>7 DEF Pending
  <2>2. Weight(f, T) = Weight(size, T)
    BY <2>1, WeightSame
  <2>3. S \in SUBSET Calls
    BY <1>1, <1>2
  <2>4. Weight(size, T) <= Weight(size, S) /\ Weight(size, T) \in Nat /\ Weight(size, S) \in Nat
    BY <1>1, <1>4, <2>1, <2>3, WeightLess, CoinsFinite
  <2> QED  BY <1>1, <1>5, <1>7, <2>2, <2>4
<1>8. ASSUME NEW c \in Calls, UseOwnKey(c) \/ Hit(c) \/ Exists(c)
      PROVE  /\ \A d \in Calls : pc'[d] \notin {"missed", "filling"}
             /\ counter' >= recorded' + Weight(f, T)
  <2>1. /\ pc'[c] \in {"calling", "counting"} /\ UNCHANGED <<counter, recorded>>
        /\ \A d \in Calls \ {c} : pc'[d] = pc[d] /\ payer'[d] = payer[d] /\ size'[d] = size[d]
    BY <1>1, <1>8 DEF UseOwnKey, Hit, Exists, Go, redisVars, QuotaTypeOK
  <2>2. c \notin T
    BY <1>3, <2>1 DEF Pending
  <2> QED  BY <1>7, <2>1, <2>2
<1>9. ASSUME NEW c \in Calls, Leave(c) \/ Lose(c)
      PROVE  /\ \A d \in Calls : pc'[d] \notin {"missed", "filling"}
             /\ counter' >= recorded' + Weight(f, T)
  <2>1. /\ pc'[c] = "idle" /\ UNCHANGED <<counter, recorded>>
        /\ \A d \in Calls \ {c} : pc'[d] = pc[d] /\ payer'[d] = payer[d] /\ size'[d] = size[d]
    BY <1>9 DEF Leave, Lose, Finish, redisVars, QuotaTypeOK
  <2>2. c \notin T
    BY <1>3, <2>1 DEF Pending
  <2> QED  BY <1>7, <2>1, <2>2
<1>10. ASSUME NEW c \in Calls, NEW n \in Sizes, Call(c, n)
       PROVE  /\ \A d \in Calls : pc'[d] \notin {"missed", "filling"}
              /\ counter' >= recorded' + Weight(f, T)
  <2>1. /\ pc'[c] = "answered" /\ UNCHANGED <<counter, recorded>>
        /\ \A d \in Calls \ {c} : pc'[d] = pc[d] /\ payer'[d] = payer[d] /\ size'[d] = size[d]
    BY <1>10 DEF Call, Go, redisVars, QuotaTypeOK
  <2>2. c \notin T
    BY <1>3, <2>1 DEF Pending
  <2> QED  BY <1>7, <2>1, <2>2
<1>11. ASSUME NEW c \in Calls, Record(c)
       PROVE  /\ \A d \in Calls : pc'[d] \notin {"missed", "filling"}
              /\ counter' >= recorded' + Weight(f, T)
  <2>1. /\ pc'[c] = (IF ownKey THEN "committing" ELSE "inserted") /\ UNCHANGED <<counter, recorded>>
        /\ payer'[c] = (IF ownKey THEN "org" ELSE "system")
        /\ \A d \in Calls \ {c} : pc'[d] = pc[d] /\ payer'[d] = payer[d] /\ size'[d] = size[d]
    BY <1>11 DEF Record, Go, KeyNow, redisVars, QuotaTypeOK
  <2>2. c \notin T
    BY <1>3, <2>1 DEF Pending
  <2> QED  BY <1>7, <2>1, <2>2
(* What is added to the counter is what is added to the rows to be shown.  *)
<1>12. ASSUME NEW c \in Calls, Incr(c)
       PROVE  /\ \A d \in Calls : pc'[d] \notin {"missed", "filling"}
              /\ counter' >= recorded' + Weight(f, T)
  <2>1. /\ pc[c] = "counting" /\ pc'[c] = "committing" /\ UNCHANGED <<recorded, size, payer>>
        /\ counter' = size[c] + counter /\ \A d \in Calls \ {c} : pc'[d] = pc[d]
    BY <1>1, <1>12 DEF Incr, Go, QuotaTypeOK
  <2>2. f = size /\ c \notin S /\ S \in SUBSET Calls /\ size[c] \in Nat
    BY <1>1, <1>2, <1>3, <2>1 DEF Pending
  <2>3. PICK U : U = S \cup {c}
    OBVIOUS
  <2>4. T \in SUBSET U /\ U \in SUBSET Calls
    BY <1>2, <1>3, <2>1, <2>2, <2>3 DEF Pending
  <2>5. Weight(size, U) = size[c] + Weight(size, S) /\ Weight(size, S) \in Nat
    BY <1>1, <2>2, <2>3, WeightAdd, CoinsFinite
  <2>6. Weight(size, T) <= Weight(size, U) /\ Weight(size, T) \in Nat
    BY <1>1, <1>4, <2>4, WeightLess, CoinsFinite
  <2>7. counter' >= recorded' + Weight(size, T)
    BY <1>1, <1>5, <2>1, <2>2, <2>5, <2>6
  <2>8. \A d \in Calls : pc'[d] \notin {"missed", "filling"}
    BY <1>5, <2>1
  <2> QED  BY <2>2, <2>7, <2>8
(* What is shown is no longer to be shown.                                 *)
<1>13. ASSUME NEW c \in Calls, Commit(c)
       PROVE  /\ \A d \in Calls : pc'[d] \notin {"missed", "filling"}
              /\ counter' >= recorded' + Weight(f, T)
  <2>1. /\ pc[c] = "committing" /\ pc'[c] = "idle" /\ UNCHANGED counter
        /\ recorded' = (IF payer[c] = "system" THEN recorded + size[c] ELSE recorded)
        /\ \A d \in Calls \ {c} : pc'[d] = pc[d] /\ payer'[d] = payer[d] /\ size'[d] = size[d]
    BY <1>13 DEF Commit, Finish, redisVars, QuotaTypeOK
  <2>2. T = S \ {c} /\ (c \in S <=> payer[c] = "system") /\ S \in SUBSET Calls
    BY <1>1, <1>2, <1>3, <2>1 DEF Pending
  <2>3. Weight(f, T) = Weight(size, T)
    <3>1. \A d \in T : f[d] = size[d]
      BY <1>3, <2>1, <2>2
    <3> QED  BY <3>1, WeightSame
  <2>4. Weight(size, T) \in Nat /\ Weight(size, S) \in Nat /\ size[c] \in Nat
    BY <1>1, <1>4, <2>2, CoinsFinite
  <2>5. payer[c] = "system" => Weight(size, S) = size[c] + Weight(size, T)
    BY <1>1, <2>2, WeightTake
  <2>6. payer[c] # "system" => Weight(size, S) = Weight(size, T)
    <3>1. payer[c] # "system" => S = T
      BY <2>2
    <3> QED  BY <3>1
  <2>7. counter' >= recorded' + Weight(size, T)
    BY <1>1, <1>5, <2>1, <2>4, <2>5, <2>6
  <2>8. \A d \in Calls : pc'[d] \notin {"missed", "filling"}
    BY <1>5, <2>1
  <2> QED  BY <2>3, <2>7, <2>8
<1>14. ~ Expire /\ \A c \in Calls : ~ Miss(c) /\ ~ SumRows(c) /\ ~ Fill(c)
  BY <1>1, <1>5 DEF Expire, Miss, SumRows, Fill
<1>15. CASE EditKey
  <2>1. UNCHANGED <<counter, recorded, pc, size, payer>>
    BY <1>15 DEF EditKey, redisVars, callVars
  <2>2. T = S /\ f = size
    BY <1>2, <1>3, <2>1 DEF Pending
  <2> QED  BY <1>5, <2>1, <2>2
<1> QED
  BY <1>8, <1>9, <1>10, <1>11, <1>12, <1>13, <1>14, <1>15 DEF QuotaNext

(***************************************************************************)
(* A counter that is in step with the rows, with nobody about to overwrite *)
(* it, stays in step until it expires, however calls increment, commit and *)
(* roll back.                                                              *)
(***************************************************************************)
THEOREM CounterStaysInStep == QuotaSpec => StaysInStep
<1>1. ASSUME QuotaInv, QuotaInv', [QuotaNext]_quotaVars
      PROVE  [(InStep /\ counter' # NoCounter) => InStep']_quotaVars
  <2>1. CASE UNCHANGED quotaVars
    BY <2>1
  <2>2. CASE QuotaNext
    BY <1>1, <2>2, StillInStep DEF QuotaInv
  <2> QED  BY <1>1, <2>1, <2>2
<1> QED  BY <1>1, QuotaAlways, PTL DEF QuotaSpec, StaysInStep
=============================================================================

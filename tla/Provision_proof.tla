-------------------------- MODULE Provision_proof --------------------------
(***************************************************************************)
(* Proofs about Provision and the lease under it: type correctness, a run  *)
(* that renews in time owns the lease, no title gets two types, a finished *)
(* set-up is usable, the two writers of the settings keep each other's     *)
(* part.  Then the poller beside the scheduled erasure (Polling):          *)
(* type correctness, an erased activity does not come back by itself.      *)
(***************************************************************************)
EXTENDS Provision, Polling, TLAPS

USE LeaseAssumption, ProvisionAssumption

----------------------------------------------------------------------------
(***************************************************************************)
(* The lease.  A run inside that did not miss too many renewals has its    *)
(* timer on, and its row still has as many ticks as the missed renewals    *)
(* left over; the renewal of the current tick may still be due.            *)
(***************************************************************************)
Owed(r) == IF r \in due THEN 1 ELSE 0

Safe(r) ==
  \/ purged
  \/ Lapsed(r)
  \/ /\ row.token = r
     /\ r \in timers
     /\ row.left + missed[r] + Owed(r) >= Ttl

LeaseInv ==
  /\ LeaseTypeOK
  /\ timers \subseteq Inside
  /\ \A r \in Run : missed[r] <= mishaps
  /\ \A r \in Inside : Safe(r)

\* A failure of the work inside, or nothing the lease sees.
Aside == UNCHANGED leaseCore /\ (Mishap \/ UNCHANGED mishaps)

LeaseStep == LeaseNext \/ Aside

LEMMA LeaseStart == LeaseInit => LeaseInv
<1> SUFFICES ASSUME LeaseInit PROVE LeaseInv
  OBVIOUS
<1>1. LeaseTypeOK
  <2>1. NoRow \in [token : 0..MaxRuns, left : 0..Ttl]
    BY DEF NoRow
  <2>2. [r \in Run |-> "new"] \in [Run -> Stage]
    BY DEF Stage
  <2>3. [r \in Run |-> 0] \in [Run -> 0..MaxMishaps] /\ 0 \in 0..MaxMishaps
    OBVIOUS
  <2>4. /\ row = NoRow /\ stage = [r \in Run |-> "new"] /\ timers = {} /\ due = {}
        /\ missed = [r \in Run |-> 0] /\ purged = FALSE /\ mishaps = 0
    BY DEF LeaseInit
  <2> QED
    BY <2>1, <2>2, <2>3, <2>4 DEF LeaseTypeOK
<1>2. Inside = {}
  BY DEF LeaseInit, Inside
<1> QED
  BY <1>1, <1>2 DEF LeaseInit, LeaseInv

LEMMA LeaseTyped == LeaseInv /\ LeaseStep => LeaseTypeOK'
<1> SUFFICES ASSUME LeaseInv, LeaseStep PROVE LeaseTypeOK'
  OBVIOUS
<1> USE DEF LeaseInv, LeaseTypeOK
<1>1. ASSUME NEW r \in Run, Enter(r) PROVE LeaseTypeOK'
  BY <1>1 DEF Enter, Acquired, Stage, Run
<1>2. ASSUME NEW r \in Run, TurnedAway(r) PROVE LeaseTypeOK'
  BY <1>2 DEF TurnedAway, Stage
<1>3. ASSUME NEW r \in Run, Refused(r) PROVE LeaseTypeOK'
  <2>1. row' \in [token : 0..MaxRuns, left : 0..Ttl]
    BY <1>3 DEF Refused, Acquired, Run
  <2> QED
    BY <1>3, <2>1 DEF Refused, Mishap, Stage
<1>4. ASSUME NEW r \in Run, Renew(r) PROVE LeaseTypeOK'
  BY <1>4 DEF Renew, Renewed, Acquired, Run
<1>5. ASSUME NEW r \in Run, Miss(r) PROVE LeaseTypeOK'
  BY <1>5 DEF Miss, Mishap
<1>6. ASSUME NEW r \in Run, Leave(r) PROVE LeaseTypeOK'
  <2>1. row' \in [token : 0..MaxRuns, left : 0..Ttl] /\ mishaps' \in 0..MaxMishaps
    BY <1>6 DEF Leave, Released, NoRow, Mishap
  <2> QED
    BY <1>6, <2>1 DEF Leave, Cleared, Stage
<1>7. ASSUME NEW r \in Run, Crash(r) PROVE LeaseTypeOK'
  BY <1>7 DEF Crash, Mishap, Stage
<1>8. CASE Tick
  BY <1>8 DEF Tick
<1>9. CASE Purge
  BY <1>9 DEF Purge, Mishap, NoRow
<1>10. CASE Aside
  BY <1>10 DEF Aside, leaseCore, Mishap
<1> QED
  BY <1>1, <1>2, <1>3, <1>4, <1>5, <1>6, <1>7, <1>8, <1>9, <1>10
     DEF LeaseStep, LeaseNext

\* Whoever finds the row free finds nobody safe by it.
LEMMA FreeMeansLapsed ==
  ASSUME LeaseInv, Free, NEW r \in Inside
  PROVE  purged \/ Lapsed(r)
<1>1. r \in Run /\ r # 0 /\ Safe(r)
  BY DEF LeaseInv, Inside, Run
<1>2. missed[r] \in Nat /\ row.left \in Nat
  BY <1>1 DEF LeaseInv, LeaseTypeOK
<1> QED
  BY <1>1, <1>2 DEF Safe, Free, Owed, Lapsed

LEMMA LeaseKept == LeaseInv /\ LeaseStep => LeaseInv'
<1> SUFFICES ASSUME LeaseInv, LeaseStep
             PROVE  /\ timers' \subseteq Inside'
                    /\ \A r \in Run : missed'[r] <= mishaps'
                    /\ \A r \in Inside' : Safe(r)'
  BY LeaseTyped DEF LeaseInv
<1> USE DEF LeaseInv, LeaseTypeOK
<1>a. /\ Inside \subseteq Run /\ Inside' = {r \in Run : stage'[r] = "in"}
      /\ 0 \notin Run
  BY DEF Inside, Run
<1>1. ASSUME NEW r \in Run, Enter(r)
      PROVE  timers' \subseteq Inside' /\ (\A s \in Run : missed'[s] <= mishaps')
             /\ \A s \in Inside' : Safe(s)'
  <2>1. Inside' = Inside \union {r}
    BY <1>1 DEF Enter, Inside
  <2>2. timers' \subseteq Inside' /\ (\A s \in Run : missed'[s] <= mishaps')
    BY <1>1, <2>1 DEF Enter
  <2>3. \A s \in Inside : purged' \/ Lapsed(s)'
    BY <1>1, FreeMeansLapsed DEF Enter, Lapsed
  <2>4. Safe(r)'
    BY <1>1 DEF Enter, Safe, Acquired, Owed
  <2> QED
    BY <2>1, <2>2, <2>3, <2>4 DEF Safe
<1>2. ASSUME NEW r \in Run, TurnedAway(r)
      PROVE  timers' \subseteq Inside' /\ (\A s \in Run : missed'[s] <= mishaps')
             /\ \A s \in Inside' : Safe(s)'
  <2>1. Inside' = Inside
    BY <1>2 DEF TurnedAway, Comes, Inside
  <2> QED
    BY <1>2, <2>1 DEF TurnedAway, Safe, Lapsed, Owed
<1>3. ASSUME NEW r \in Run, Refused(r)
      PROVE  timers' \subseteq Inside' /\ (\A s \in Run : missed'[s] <= mishaps')
             /\ \A s \in Inside' : Safe(s)'
  <2>1. Inside' = Inside
    BY <1>3 DEF Refused, Comes, Inside
  <2>2. timers' \subseteq Inside' /\ (\A s \in Run : missed'[s] <= mishaps')
    BY <1>3, <2>1 DEF Refused, Mishap
  <2>3. ASSUME NEW s \in Inside PROVE Safe(s)'
    <3>1. CASE Free
      BY <1>3, <3>1, FreeMeansLapsed DEF Refused, Safe, Lapsed
    <3>2. CASE ~Free
      <4>1. row' = row
        BY <1>3, <3>2 DEF Refused
      <4> QED
        BY <1>3, <4>1 DEF Refused, Safe, Lapsed, Owed
    <3> QED
      BY <3>1, <3>2
  <2> QED
    BY <2>1, <2>2, <2>3
<1>4. ASSUME NEW r \in Run, Renew(r)
      PROVE  timers' \subseteq Inside' /\ (\A s \in Run : missed'[s] <= mishaps')
             /\ \A s \in Inside' : Safe(s)'
  <2>1. Inside' = Inside
    BY <1>4 DEF Renew, Inside
  <2>2. timers' \subseteq Inside' /\ (\A s \in Run : missed'[s] <= mishaps')
    BY <1>4, <2>1 DEF Renew
  <2>3. ASSUME NEW s \in Inside PROVE Safe(s)'
    <3>1. CASE s = r /\ row.token = r
      <4>1. row'.token = r /\ row'.left = Ttl /\ r \in timers' /\ missed'[r] = 0
        BY <1>4, <3>1 DEF Renew, Renewed, Acquired
      <4> QED
        BY <3>1, <4>1 DEF Safe, Owed
    <3>2. CASE s = r /\ row.token # r
      BY <1>4, <3>2 DEF Renew, Safe, Lapsed
    <3>3. CASE s # r /\ row.token = r
      BY <1>4, <3>3 DEF Renew, Safe, Lapsed
    <3>4. CASE s # r /\ row.token # r
      <4>1. row' = row /\ timers' = timers \ {r} /\ due' = due \ {r} /\ missed'[s] = missed[s]
        BY <1>4, <3>4 DEF Renew, Renewed
      <4> QED
        BY <1>4, <3>4, <4>1 DEF Renew, Safe, Lapsed, Owed
    <3> QED
      BY <3>1, <3>2, <3>3, <3>4
  <2> QED
    BY <2>1, <2>2, <2>3
<1>5. ASSUME NEW r \in Run, Miss(r)
      PROVE  timers' \subseteq Inside' /\ (\A s \in Run : missed'[s] <= mishaps')
             /\ \A s \in Inside' : Safe(s)'
  <2>1. Inside' = Inside
    BY <1>5 DEF Miss, Inside
  <2>2. timers' \subseteq Inside' /\ (\A s \in Run : missed'[s] <= mishaps')
    BY <1>5, <2>1 DEF Miss, Mishap
  <2>3. ASSUME NEW s \in Inside PROVE Safe(s)'
    <3>1. missed[s] \in Nat /\ row.left \in Nat /\ Safe(s)
      BY <1>a
    <3>2. CASE s = r
      <4>1. missed'[s] = missed[s] + 1 /\ s \notin due' /\ s \in due
        BY <1>5, <1>a, <3>2 DEF Miss
      <4> QED
        BY <1>5, <3>1, <4>1 DEF Miss, Safe, Lapsed, Owed
    <3>3. CASE s # r
      <4>1. missed'[s] = missed[s] /\ (s \in due' <=> s \in due)
        BY <1>5, <1>a, <3>3 DEF Miss
      <4> QED
        BY <1>5, <3>1, <4>1 DEF Miss, Safe, Lapsed, Owed
    <3> QED
      BY <3>2, <3>3
  <2> QED
    BY <2>1, <2>2, <2>3
<1>6. ASSUME NEW r \in Run, Leave(r)
      PROVE  timers' \subseteq Inside' /\ (\A s \in Run : missed'[s] <= mishaps')
             /\ \A s \in Inside' : Safe(s)'
  <2>1. Inside' = Inside \ {r}
    BY <1>6 DEF Leave, Inside
  <2>2. timers' \subseteq Inside' /\ (\A s \in Run : missed'[s] <= mishaps')
    BY <1>6, <2>1 DEF Leave, Cleared, Mishap
  <2>3. ASSUME NEW s \in Inside, s # r PROVE Safe(s)'
    <3>1. /\ timers' = timers \ {r} /\ (s \in due' <=> s \in due)
          /\ missed'[s] = missed[s] /\ purged' = purged
      BY <1>6, <1>a, <2>3 DEF Leave, Cleared
    <3>2. row.token = s => row' = row
      BY <1>6, <2>3 DEF Leave, Released
    <3> QED
      BY <2>3, <3>1, <3>2 DEF Safe, Lapsed, Owed
  <2> QED
    BY <2>1, <2>2, <2>3
<1>7. ASSUME NEW r \in Run, Crash(r)
      PROVE  timers' \subseteq Inside' /\ (\A s \in Run : missed'[s] <= mishaps')
             /\ \A s \in Inside' : Safe(s)'
  <2>1. Inside' = Inside \ {r}
    BY <1>7 DEF Crash, Inside
  <2>2. timers' \subseteq Inside' /\ (\A s \in Run : missed'[s] <= mishaps')
    BY <1>7, <2>1 DEF Crash, Mishap
  <2>3. ASSUME NEW s \in Inside, s # r PROVE Safe(s)'
    <3>1. /\ timers' = timers \ {r} /\ (s \in due' <=> s \in due)
          /\ missed'[s] = missed[s] /\ purged' = purged /\ row' = row
      BY <1>7, <1>a, <2>3 DEF Crash
    <3> QED
      BY <2>3, <3>1 DEF Safe, Lapsed, Owed
  <2> QED
    BY <2>1, <2>2, <2>3
<1>8. CASE Tick
  <2>1. Inside' = Inside
    BY <1>8 DEF Tick, Inside
  <2>2. ASSUME NEW s \in Inside PROVE Safe(s)'
    <3>1. missed[s] \in Nat /\ row.left \in Nat /\ Safe(s)
      BY <1>a
    <3>2. CASE purged \/ Lapsed(s)
      BY <1>8, <3>2 DEF Tick, Safe, Lapsed
    <3>3. CASE ~purged /\ ~Lapsed(s)
      <4>1. row.token = s /\ s \in timers /\ row.left + missed[s] >= Ttl
        BY <1>8, <3>1, <3>3 DEF Tick, Safe, Owed
      <4>2. row.left > 0
        BY <3>1, <3>3, <4>1 DEF Lapsed
      <4>3. row'.token = s /\ row'.left = row.left - 1 /\ s \in due' /\ s \in timers'
        BY <1>8, <4>1, <4>2 DEF Tick
      <4>4. row'.left + missed'[s] + Owed(s)' >= Ttl
        BY <1>8, <3>1, <4>1, <4>3 DEF Tick, Owed
      <4> QED
        BY <4>3, <4>4 DEF Safe
    <3> QED
      BY <3>2, <3>3
  <2> QED
    BY <1>8, <2>1, <2>2 DEF Tick
<1>9. CASE Purge
  BY <1>9 DEF Purge, Safe, Inside, Mishap
<1>10. CASE Aside
  BY <1>10 DEF Aside, leaseCore, Mishap, Inside, Safe, Lapsed, Owed
<1> QED
  BY <1>1, <1>2, <1>3, <1>4, <1>5, <1>6, <1>7, <1>8, <1>9, <1>10
     DEF LeaseStep, LeaseNext

LEMMA LeaseUnchanged == LeaseInv /\ UNCHANGED leaseVars => LeaseInv'
  BY DEF LeaseInv, LeaseTypeOK, leaseVars, leaseCore, Inside, Safe, Lapsed, Owed

----------------------------------------------------------------------------
(***************************************************************************)
(* The set-up: what the lease sees of its steps, and types.                *)
(***************************************************************************)
LEMMA StepOfLease == [Next]_vars => LeaseStep \/ UNCHANGED leaseVars
<1> SUFFICES ASSUME [Next]_vars PROVE LeaseStep \/ UNCHANGED leaseVars
  OBVIOUS
<1>1. ASSUME NEW r \in Run, Begin(r) \/ Rejected(r) \/ Dies(r) \/ End(r)
      PROVE  LeaseStep
  BY <1>1 DEF Begin, Rejected, Dies, End, LeaseStep, LeaseNext
<1>2. ASSUME NEW r \in Run,
             \/ Load(r) \/ List(r) \/ ListFields(r) \/ FieldsTried(r) \/ Reload(r)
      PROVE  UNCHANGED leaseVars
  BY <1>2 DEF Load, List, ListFields, FieldsTried, Reload
<1>3. ASSUME NEW r \in Run,
             \/ Create(r) \/ AddField(r) \/ ReadCard(r) \/ SetCard(r)
             \/ ForceCommon(r) \/ Save(r) \/ Fails(r)
      PROVE  Aside
  BY <1>3 DEF Create, AddField, ReadCard, SetCard, ForceCommon, Save, Fails, Aside
<1>4. CASE ReadStored \/ WriteForm
  BY <1>4 DEF ReadStored, WriteForm
<1>5. CASE FormFails
  BY <1>5 DEF FormFails, LeaseStep, Aside
<1>6. CASE Around
  BY <1>6 DEF Around, LeaseStep, LeaseNext
<1>7. CASE Reinstall
  BY <1>7 DEF Reinstall, LeaseStep, LeaseNext
<1>8. CASE UNCHANGED vars
  BY <1>8 DEF vars
<1> QED
  BY <1>1, <1>2, <1>3, <1>4, <1>5, <1>6, <1>7, <1>8 DEF Next, Works, LeaseStep

LEMMA LeaseInvariant == Spec => []LeaseInv
<1>1. Init => LeaseInv
  BY LeaseStart DEF Init
<1>2. LeaseInv /\ [Next]_vars => LeaseInv'
  BY StepOfLease, LeaseKept, LeaseUnchanged
<1> QED
  BY <1>1, <1>2, PTL DEF Spec

\* A run that renews in time holds the row until it leaves
\* (singleFlightLease.ts:179), whatever the set-up does inside.
THEOREM OwnerKeepsLease == Spec => []OwnsLease
<1>1. LeaseInv => OwnsLease
  BY DEF LeaseInv, OwnsLease, Safe
<1> QED
  BY <1>1, LeaseInvariant, PTL

----------------------------------------------------------------------------
\* What a run is told to do next is a step.
LEMMA GoTyped ==
  ASSUME NEW call \in Call, NEW sp \in Sp
  PROVE  Go(call, sp) \in Step /\ Go(call, sp).call = call /\ Go(call, sp).sp = sp
  BY DEF Go, Step

LEMMA StepsTyped ==
  /\ Nowhere \in Step
  /\ \A refs : ToCreate(refs) \in Step
  /\ \A sp \in Sp : AfterFields(sp) \in Step
  BY DEF Nowhere, ToCreate, AfterFields, Go, Step, Call, Sp

LEMMA BlankTyped == Blank \in Settings /\ Blank.sp \in [Sp -> {0} \union Type]
  BY DEF Blank, Settings

RestTyped ==
  /\ types \in [Sp -> SUBSET Type]
  /\ has \in [Sp -> [Type -> SUBSET Field]]
  /\ layout \in BOOLEAN /\ personal \in BOOLEAN
  /\ store \in Settings
  /\ at \in [Run -> Step]
  /\ ref \in [Run -> [Sp -> {0} \union Type]]
  /\ todo \in [Run -> SUBSET Field]
  /\ failed \subseteq Run
  /\ fresh \in [Run -> Settings]
  /\ card \subseteq Run
  /\ result \in [Run -> {"none", "ok", "error"}]
  /\ form \in BOOLEAN
  /\ base \in Settings
  /\ saves \in 0..MaxSaves
  /\ crossed \subseteq Run
  /\ together \in BOOLEAN

FormInTime == form => saves < MaxSaves

LEMMA RestStart == Init => RestTyped /\ FormInTime
<1> SUFFICES ASSUME Init PROVE RestTyped
  BY DEF Init, FormInTime
<1>1. store \in Settings
  BY DEF Init, Settings, Blank, Type
<1>2. types \in [Sp -> SUBSET Type]
  BY DEF Init, Type
<1>3. /\ at \in [Run -> Step]
      /\ ref \in [Run -> [Sp -> {0} \union Type]]
      /\ fresh \in [Run -> Settings]
  BY BlankTyped, StepsTyped DEF Init
<1>4. has \in [Sp -> [Type -> SUBSET Field]]
  BY DEF Init
<1>5. /\ result \in [Run -> {"none", "ok", "error"}]
      /\ todo \in [Run -> SUBSET Field]
  BY DEF Init
<1>6. saves \in 0..MaxSaves
  BY DEF Init
<1> QED
  BY <1>1, <1>2, <1>3, <1>4, <1>5, <1>6, BlankTyped DEF Init, RestTyped

LEMMA ThrowsTyped ==
  ASSUME RestTyped, NEW r \in Run, Throws(r)
  PROVE  at' \in [Run -> Step] /\ result' \in [Run -> {"none", "ok", "error"}]
<1>1. Go("end", "payment") \in Step
  BY GoTyped DEF Call, Sp
<1> QED
  BY <1>1 DEF Throws, RestTyped

LEMMA ForgetTyped ==
  ASSUME RestTyped, NEW r \in Run, Forget(r)
  PROVE  /\ at' \in [Run -> Step]
         /\ todo' \in [Run -> SUBSET Field]
         /\ fresh' \in [Run -> Settings]
         /\ ref' \in [Run -> [Sp -> {0} \union Type]]
  BY BlankTyped, StepsTyped DEF Forget, RestTyped

LEMMA WorkTyped ==
  ASSUME RestTyped, NEW r \in Run, Works(r) \/ Fails(r)
  PROVE  RestTyped'
<1> USE DEF RestTyped
<1>1. at[r].sp \in Sp /\ ref[r] \in [Sp -> {0} \union Type]
  BY DEF Step
<1>2. \A call \in Call, sp \in Sp : Go(call, sp) \in Step
  BY GoTyped
<1>3. "payment" \in Sp /\ \A c \in {"list", "fields", "set", "force", "reload",
                                   "save", "end", "add"} : c \in Call
  BY DEF Sp, Call
<1>4. r \in Type
  BY DEF Type
<1>0. \A c \in {"reload", "force", "end", "save"} : Go(c, "payment") \in Step
  BY <1>2, <1>3
<1>5. CASE Load(r)
  <2>1. store.sp \in [Sp -> {0} \union Type]
    BY DEF Settings
  <2> QED
    BY <1>2, <1>3, <1>5, <2>1 DEF Load, portal, formVars
<1>6. CASE List(r)
  BY <1>6, StepsTyped DEF List, portal, formVars
<1>7. CASE Create(r)
  <2>1. types' \in [Sp -> SUBSET Type]
    BY <1>1, <1>4, <1>7 DEF Create
  <2>2. CASE ref' = [ref EXCEPT ![r][at[r].sp] = r] /\ at' = [at EXCEPT ![r] = ToCreate(ref'[r])] /\ UNCHANGED <<result, mishaps>>
    <3>1. ref' \in [Run -> [Sp -> {0} \union Type]]
      BY <1>1, <1>4, <2>2
    <3>2. at' \in [Run -> Step]
      BY <2>2, StepsTyped
    <3> QED
      BY <1>7, <2>1, <2>2, <3>1, <3>2 DEF Create, formVars
  <2>3. CASE Throws(r) /\ UNCHANGED ref
    BY <1>7, <2>1, <2>3, ThrowsTyped DEF Create, formVars
  <2> QED
    BY <1>7, <2>2, <2>3 DEF Create
<1>8. CASE ListFields(r)
  <2>1. AfterFields(at[r].sp) \in Step /\ Go("add", at[r].sp) \in Step
    BY <1>1, <1>2, <1>3, StepsTyped
  <2>2. Missing(r) \subseteq Field
    BY DEF Missing
  <2> QED
    BY <1>8, <2>1, <2>2 DEF ListFields, portal, formVars
<1>9. CASE AddField(r)
  <2>1. PICK f \in todo[r] :
          /\ todo' = [todo EXCEPT ![r] = @ \ {f}]
          /\ has' \in {has, [has EXCEPT ![at[r].sp][ref[r][at[r].sp]] = @ \union {f}]}
    BY <1>9 DEF AddField
  <2>2. f \in Field
    OBVIOUS
  <2>3. [has EXCEPT ![at[r].sp][ref[r][at[r].sp]] = @ \union {f}]
          \in [Sp -> [Type -> SUBSET Field]]
    <3> DEFINE x == at[r].sp
               t == ref[r][x]
    <3>1. x \in Sp /\ has[x] \in [Type -> SUBSET Field]
      BY <1>1
    <3>2. [has[x] EXCEPT ![t] = @ \union {f}] \in [Type -> SUBSET Field]
      <4>1. CASE t \in Type
        BY <2>2, <3>1, <4>1
      <4>2. CASE t \notin Type
        BY <3>1, <4>2
      <4> QED
        BY <4>1, <4>2
    <3> QED
      BY <3>1, <3>2
  <2>4. failed' \subseteq Run
    BY <1>9 DEF AddField
  <2> QED
    BY <1>9, <2>1, <2>3, <2>4 DEF AddField, formVars
<1>10. CASE FieldsTried(r)
  <2>1. AfterFields(at[r].sp) \in Step
    BY <1>1, StepsTyped
  <2>2. at' \in [Run -> Step] /\ result' \in [Run -> {"none", "ok", "error"}]
    BY <1>10, <2>1, ThrowsTyped DEF FieldsTried
  <2> QED
    BY <1>10, <2>2 DEF FieldsTried, portal, formVars
<1>11. CASE ReadCard(r)
  BY <1>2, <1>3, <1>11 DEF ReadCard, portal, formVars
<1>12. CASE SetCard(r)
  <2>1. at' \in [Run -> Step] /\ layout' \in BOOLEAN
    BY <1>0, <1>12 DEF SetCard
  <2> QED
    BY <1>12, <2>1 DEF SetCard, formVars
<1>13. CASE ForceCommon(r)
  BY <1>2, <1>3, <1>13 DEF ForceCommon, formVars
<1>14. CASE Reload(r)
  <2>1. at' \in [Run -> Step] /\ result' \in [Run -> {"none", "ok", "error"}]
    BY <1>0, <1>14 DEF Reload
  <2>2. fresh' \in [Run -> Settings]
    BY <1>14 DEF Reload, Reread
  <2> QED
    BY <1>14, <2>1, <2>2 DEF Reload, portal, formVars
<1>15. CASE Save(r)
  <2>1. store' \in Settings
    BY <1>1, <1>15 DEF Save, Merged, Settings
  <2>2. at' \in [Run -> Step] /\ result' \in [Run -> {"none", "ok", "error"}]
    <3>1. CASE Throws(r)
      BY <3>1, ThrowsTyped
    <3>2. CASE /\ at' = [at EXCEPT ![r] = Go("end", "payment")]
               /\ result' = [result EXCEPT ![r] = "ok"]
      BY <1>2, <1>3, <3>2
    <3> QED
      BY <1>15, <3>1, <3>2 DEF Save
  <2>3. crossed' \subseteq Run
    BY <1>15 DEF Save, Crossed, Inside
  <2> QED
    BY <1>15, <2>1, <2>2, <2>3 DEF Save, portal
<1>16. CASE End(r)
  BY <1>16, ForgetTyped DEF End, Forget, portal, formVars
<1>17. CASE Fails(r)
  BY <1>17, ThrowsTyped DEF Fails, portal, formVars
<1> QED
  BY <1>5, <1>6, <1>7, <1>8, <1>9, <1>10, <1>11, <1>12, <1>13, <1>14, <1>15,
     <1>16, <1>17 DEF Works

LEMMA RestStep == RestTyped /\ FormInTime /\ [Next]_vars => RestTyped' /\ FormInTime'
<1> SUFFICES ASSUME RestTyped, FormInTime, [Next]_vars
             PROVE  RestTyped' /\ FormInTime'
  OBVIOUS
<1>1. ASSUME NEW r \in Run, Works(r) \/ Fails(r) PROVE RestTyped' /\ FormInTime'
  <2>1. UNCHANGED <<form, base, saves>>
    <3>1. UNCHANGED formVars \/ Save(r)
      BY <1>1 DEF Works, Load, List, Create, ListFields, AddField, FieldsTried, ReadCard,
                  SetCard, ForceCommon, Reload, End, Fails
    <3> QED
      BY <3>1 DEF Save, formVars
  <2> QED
    BY <1>1, <2>1, WorkTyped DEF FormInTime
<1>2. ASSUME NEW r \in Run, Begin(r) PROVE RestTyped' /\ FormInTime'
  <2>1. Go("load", "payment") \in Step
    BY GoTyped DEF Call, Sp
  <2>2. together' \in BOOLEAN
    BY <1>2 DEF Begin, RestTyped
  <2> QED
    BY <1>2, <2>1, <2>2 DEF Begin, RestTyped, FormInTime, portal, formVars
<1>3. ASSUME NEW r \in Run, Rejected(r) PROVE RestTyped' /\ FormInTime'
  BY <1>3 DEF Rejected, RestTyped, FormInTime, portal, locals, formVars
<1>4. ASSUME NEW r \in Run, Dies(r) PROVE RestTyped' /\ FormInTime'
  BY <1>4, ForgetTyped DEF Dies, Forget, RestTyped, FormInTime, portal, formVars
<1>5. CASE ReadStored
  BY <1>5 DEF ReadStored, RestTyped, FormInTime, portal, locals
<1>6. CASE WriteForm
  <2>1. store' \in Settings
    BY <1>6 DEF WriteForm, KeepStoredSpIds, Settings, RestTyped, FormInTime
  <2>2. crossed' \subseteq Run
    BY <1>6 DEF WriteForm, Crossed, Inside, RestTyped
  <2>3. saves' \in 0..MaxSaves /\ form' = FALSE /\ base' = Blank
    BY <1>6 DEF WriteForm, CloseForm, RestTyped, FormInTime
  <2> QED
    BY <1>6, <2>1, <2>2, <2>3, BlankTyped
       DEF WriteForm, RestTyped, FormInTime, portal, locals
<1>7. CASE FormFails
  BY <1>7, BlankTyped DEF FormFails, CloseForm, RestTyped, FormInTime, portal, locals
<1>8. CASE Around
  BY <1>8 DEF Around, RestTyped, FormInTime, portal, locals, formVars
<1>9. CASE Reinstall
  <2>1. Go("end", "payment") \in Step
    BY GoTyped DEF Call, Sp
  <2>2. /\ at' \in [Run -> Step]
        /\ result' \in [Run -> {"none", "ok", "error"}]
        /\ store' \in Settings
    BY <1>9, <2>1, BlankTyped DEF Reinstall, RestTyped
  <2> QED
    BY <1>9, <2>2, BlankTyped DEF Reinstall, CloseForm, RestTyped, FormInTime, portal
<1>10. CASE UNCHANGED vars
  BY <1>10 DEF vars, RestTyped, FormInTime, portal, locals, formVars
<1> QED
  BY <1>1, <1>2, <1>3, <1>4, <1>5, <1>6, <1>7, <1>8, <1>9, <1>10 DEF Next

LEMMA RestInvariant == Spec => [](RestTyped /\ FormInTime)
<1>1. Init => RestTyped /\ FormInTime
  BY RestStart
<1> QED
  BY <1>1, RestStep, PTL DEF Spec

\* Every state of the lease and of the set-up is of its type, for any term,
\* any number of requests and any set of fields (distributionSpProvision.ts).
THEOREM TypeCorrect == Spec => []TypeOK
<1>1. LeaseInv /\ RestTyped => TypeOK
  BY DEF LeaseInv, RestTyped, TypeOK
<1> QED
  BY <1>1, LeaseInvariant, RestInvariant, PTL

----------------------------------------------------------------------------
(***************************************************************************)
(* No twins.  As long as no two runs have been inside together, what a run *)
(* has found missing is still missing when it creates it.                  *)
(***************************************************************************)
Creating(r) ==
  at[r].call = "create" =>
    /\ ref[r][at[r].sp] = 0
    /\ \A x \in Sp : ref[r][x] = 0 => types[x] = {}

TwinsInv ==
  ~together =>
    /\ \A r, s \in Inside : r = s
    /\ \A r \in Inside : Creating(r)
    /\ \A x \in Sp, s, t \in Type : s \in types[x] /\ t \in types[x] => s = t

\* The first type that is missing is created first.
LEMMA ToCreateMissing ==
  ASSUME NEW refs
  PROVE  /\ ToCreate(refs).call = "create" =>
              ToCreate(refs).sp \in Sp /\ refs[ToCreate(refs).sp] = 0
         /\ ToCreate(refs).call # "create" =>
              ToCreate(refs).call = "fields" /\ \A x \in Sp : refs[x] # 0
  BY DEF ToCreate, Go, Sp

\* The steps of a run inside leave the stages of all runs alone.
LEMMA WorkInside ==
  ASSUME NEW r \in Run, Works(r) \/ Fails(r), ~End(r)
  PROVE  r \in Inside /\ Inside' = Inside /\ together' = together /\ stage' = stage
<1>1. stage[r] = "in"
  BY DEF Works, Load, List, Create, ListFields, AddField, FieldsTried, ReadCard, SetCard,
         ForceCommon, Reload, Save, Fails, Makes
<1>2. stage' = stage /\ together' = together
  BY DEF Works, Load, List, Create, ListFields, AddField, FieldsTried, ReadCard, SetCard,
         ForceCommon, Reload, Save, Fails, leaseVars, leaseCore
<1> QED
  BY <1>1, <1>2 DEF Inside

\* Who is inside after a step that is not the work of a run.
LEMMA LeftAlone ==
  ASSUME TwinsInv, UNCHANGED types, Inside' \subseteq Inside, together' = together,
         \A s \in Inside' : at'[s].call = "create" => at'[s] = at[s] /\ ref'[s] = ref[s]
  PROVE  TwinsInv'
  BY DEF TwinsInv, Creating

LEMMA TwinsStep == LeaseInv /\ RestTyped /\ TwinsInv /\ [Next]_vars => TwinsInv'
<1> SUFFICES ASSUME LeaseInv, RestTyped, TwinsInv, [Next]_vars PROVE TwinsInv'
  OBVIOUS
<1>0. stage \in [Run -> Stage]
  BY DEF LeaseInv, LeaseTypeOK
<1> USE DEF RestTyped
<1>1. ASSUME NEW r \in Run, Begin(r) PROVE TwinsInv'
  <2>1. Inside' = Inside \union {r} /\ types' = types
    BY <1>0, <1>1 DEF Begin, Enter, Inside, portal
  <2>2. SUFFICES ASSUME ~together' PROVE TwinsInv'
    BY DEF TwinsInv
  <2>3. ~together /\ Inside = {}
    BY <1>1, <2>2 DEF Begin
  <2>4. at'[r].call # "create"
    BY <1>1 DEF Begin, Go
  <2> QED
    BY <2>1, <2>3, <2>4 DEF TwinsInv, Creating
<1>2. ASSUME NEW r \in Run, Rejected(r) PROVE TwinsInv'
  <2>1. Inside' \subseteq Inside
    BY <1>0, <1>2 DEF Rejected, TurnedAway, Refused, Comes, Inside
  <2> QED
    BY <1>2, <2>1, LeftAlone DEF Rejected, portal, locals
<1>3. ASSUME NEW r \in Run, Dies(r) \/ End(r) PROVE TwinsInv'
  <2>1. Inside' \subseteq Inside \ {r} /\ UNCHANGED <<types, together>>
    BY <1>0, <1>3 DEF Dies, End, Crash, Leave, Inside, portal
  <2>2. \A s \in Inside' : at'[s] = at[s] /\ ref'[s] = ref[s]
    BY <1>3, <2>1 DEF Dies, End, Forget, Inside
  <2> QED
    BY <2>1, <2>2, LeftAlone
<1>4. ASSUME NEW r \in Run, Works(r) \/ Fails(r), ~End(r) PROVE TwinsInv'
  <2>1. r \in Inside /\ Inside' = Inside /\ together' = together
    BY <1>4, WorkInside
  <2> SUFFICES ASSUME ~together PROVE TwinsInv'
    BY <2>1 DEF TwinsInv
  <2>2. Inside = {r} /\ Creating(r)
    BY <2>1 DEF TwinsInv
  <2>3. \A x \in Sp, u, t \in Type : u \in types[x] /\ t \in types[x] => u = t
    BY DEF TwinsInv
  <2>4. ASSUME types' = types, Creating(r)' PROVE TwinsInv'
    BY <2>1, <2>2, <2>3, <2>4 DEF TwinsInv
  <2>5. CASE Load(r)
    <3>1. at'[r].call # "create" /\ types' = types
      BY <2>5 DEF Load, Go, portal
    <3> QED
      BY <2>4, <3>1 DEF Creating
  <2>6. CASE List(r)
    <3>1. PICK refs \in [Sp -> {0} \union Type] :
            /\ \A x \in Sp : refs[x] \in Titled(x, ref[r][x])
            /\ ref' = [ref EXCEPT ![r] = refs]
            /\ at' = [at EXCEPT ![r] = ToCreate(refs)]
      BY <2>6 DEF List
    <3>2. \A x \in Sp : refs[x] = 0 => types[x] = {}
      <4> SUFFICES ASSUME NEW x \in Sp, refs[x] = 0 PROVE types[x] = {}
        OBVIOUS
      <4>1. refs[x] \in Titled(x, ref[r][x])
        BY <3>1
      <4>2. 0 \notin types[x]
        BY DEF Type, Run, Old
      <4> QED
        BY <4>1, <4>2 DEF Titled
    <3>3. at'[r] = ToCreate(refs) /\ ref'[r] = refs /\ types' = types
      BY <2>6, <3>1 DEF List, portal
    <3>4. Creating(r)'
      BY <3>2, <3>3, ToCreateMissing DEF Creating
    <3> QED
      BY <2>4, <3>3, <3>4
  <2>7. CASE Create(r)
    <3>1. PICK x \in Sp : x = at[r].sp
      BY DEF Step
    <3>2. /\ types' = [types EXCEPT ![x] = @ \union {r}]
          /\ at[r].call = "create"
      BY <2>7, <3>1 DEF Create, Makes
    <3>3. types[x] = {}
      BY <2>2, <3>1, <3>2 DEF Creating
    <3>4. types'[x] = {r} /\ \A y \in Sp \ {x} : types'[y] = types[y]
      BY <3>2, <3>3
    <3>5. \A y \in Sp, u, t \in Type : u \in types'[y] /\ t \in types'[y] => u = t
      <4> SUFFICES ASSUME NEW y \in Sp, NEW u \in Type, NEW t \in Type,
                          u \in types'[y], t \in types'[y]
                   PROVE  u = t
        OBVIOUS
      <4>1. CASE y = x
        BY <3>4, <4>1
      <4>2. CASE y # x
        BY <2>3, <3>4, <4>2
      <4> QED
        BY <4>1, <4>2
    <3>6. Creating(r)'
      <4>1. CASE ref' = [ref EXCEPT ![r][x] = r] /\ at' = [at EXCEPT ![r] = ToCreate(ref'[r])]
        <5>1. at'[r] = ToCreate(ref'[r])
          BY <4>1
        <5>2. ref'[r][x] = r /\ \A y \in Sp \ {x} : ref'[r][y] = ref[r][y]
          BY <4>1
        <5>3. r # 0
          BY DEF Run
        <5>4. \A y \in Sp : ref'[r][y] = 0 => types'[y] = {}
          BY <2>2, <3>2, <3>4, <5>2, <5>3 DEF Creating
        <5> QED
          BY <5>1, <5>4, ToCreateMissing DEF Creating
      <4>2. CASE Throws(r)
        BY <4>2 DEF Throws, Go, Creating
      <4> QED
        BY <2>7, <3>1, <4>1, <4>2 DEF Create
    <3> QED
      BY <2>1, <2>2, <3>5, <3>6 DEF TwinsInv
  <2>8. CASE \/ ListFields(r) \/ AddField(r) \/ FieldsTried(r) \/ ReadCard(r)
             \/ SetCard(r) \/ ForceCommon(r) \/ Reload(r) \/ Save(r) \/ Fails(r)
    <3>1. types' = types
      BY <2>8 DEF ListFields, AddField, FieldsTried, ReadCard, SetCard, ForceCommon, Reload,
                  Save, Fails, portal
    <3>2. CASE AddField(r)
      <4>1. at'[r].call # "create"
        BY <3>2 DEF AddField, Makes
      <4> QED
        BY <2>4, <3>1, <4>1 DEF Creating
    <3>3. CASE ~AddField(r)
      <4>1. at'[r].call # "create"
        <5>1. CASE ListFields(r) \/ FieldsTried(r)
          BY <5>1 DEF ListFields, FieldsTried, Throws, AfterFields, Go
        <5>2. CASE ReadCard(r) \/ ForceCommon(r)
          <6>1. at'[r] \in {Go("set", "payment"), Go("reload", "payment")}
            BY <5>2 DEF ReadCard, ForceCommon
          <6> QED
            BY <6>1 DEF Go
        <5>4. CASE SetCard(r)
          <6>1. at'[r] \in {Go("force", "payment"), Go("reload", "payment")}
            BY <5>4 DEF SetCard
          <6> QED
            BY <6>1 DEF Go
        <5>3. CASE Reload(r) \/ Save(r) \/ Fails(r)
          BY <5>3 DEF Reload, Save, Fails, Throws, Go
        <5> QED
          BY <2>8, <3>3, <5>1, <5>2, <5>3, <5>4
      <4> QED
        BY <2>4, <3>1, <4>1 DEF Creating
    <3> QED
      BY <3>2, <3>3
  <2> QED
    BY <1>4, <2>5, <2>6, <2>7, <2>8 DEF Works
<1>5. CASE ReadStored \/ WriteForm \/ FormFails
  <2>1. Inside' = Inside
    BY <1>5 DEF ReadStored, WriteForm, FormFails, leaseVars, leaseCore, Inside
  <2> QED
    BY <1>5, <2>1, LeftAlone DEF ReadStored, WriteForm, FormFails, portal, locals
<1>6. CASE Around
  <2>1. Inside' = Inside
    BY <1>6 DEF Around, Renew, Miss, Tick, Inside
  <2> QED
    BY <1>6, <2>1, LeftAlone DEF Around, portal, locals
<1>7. CASE Reinstall
  <2>1. Inside' = Inside /\ UNCHANGED <<types, together>>
    BY <1>7 DEF Reinstall, Purge, Inside, portal
  <2>2. \A s \in Inside : at'[s].call # "create"
    BY <1>7 DEF Reinstall, Go, Inside
  <2> QED
    BY <2>1, <2>2, LeftAlone
<1>8. CASE UNCHANGED vars
  <2>1. Inside' = Inside
    BY <1>8 DEF vars, leaseVars, leaseCore, Inside
  <2> QED
    BY <1>8, <2>1, LeftAlone DEF vars, portal, locals
<1> QED
  BY <1>1, <1>2, <1>3, <1>4, <1>5, <1>6, <1>7, <1>8 DEF Next, Works

LEMMA TwinsInvariant == Spec => []TwinsInv
<1>1. Init => TwinsInv
  BY DEF Init, LeaseInit, TwinsInv, Inside
<1> QED
  BY <1>1, TwinsStep, LeaseInvariant, RestInvariant, PTL DEF Spec

\* A portal gets no second type of one title, though its list is read long
\* before the type is created and the answer to crm.type.add may be lost,
\* unless two runs were inside at one time (distributionSpProvision.ts:141).
THEOREM TypesAreSingle == Spec => []NoTwins
<1>1. TwinsInv => NoTwins
  BY DEF TwinsInv, NoTwins
<1> QED
  BY <1>1, TwinsInvariant, PTL

----------------------------------------------------------------------------
(***************************************************************************)
(* Usable.  Whatever id is in the settings, in the hand of the form or of  *)
(* a run, is a type of its title; and what each place of the code may      *)
(* count on about the fields of the two types of a run.                    *)
(***************************************************************************)
Known ==
  /\ \A x \in Sp : store.sp[x] # 0 => store.sp[x] \in types[x]
  /\ \A x \in Sp : base.sp[x] # 0 => base.sp[x] \in types[x]
  /\ \A r \in Run, x \in Sp : ref[r][x] # 0 => ref[r][x] \in types[x]

Full(r, x) == ref[r][x] # 0 /\ Field \subseteq has[x][ref[r][x]]

Later == {"card", "set", "force", "reload", "save"}

Place(r) ==
  /\ at[r].call \in {"fields", "add"} => \A x \in Sp : ref[r][x] # 0
  /\ at[r].call \in {"fields", "add"} /\ at[r].sp = "distribution" => Full(r, "payment")
  /\ at[r].call = "add" /\ r \notin failed =>
       Field \ todo[r] \subseteq has[at[r].sp][ref[r][at[r].sp]]
  /\ at[r].call \in Later \/ result[r] = "ok" => \A x \in Sp : Full(r, x)
  /\ result[r] # "none" => at[r].call \in {"end", "none"} /\ stage[r] # "new"

UsableInv == Known /\ \A r \in Run : Place(r)

\* Types and fields are never taken away.
Grown ==
  /\ \A x \in Sp : types[x] \subseteq types'[x]
  /\ \A x \in Sp, t \in Type : has[x][t] \subseteq has'[x][t]

\* What a run may count on stays true while others work.
LEMMA PlaceStays ==
  ASSUME RestTyped, NEW r \in Run, Place(r), Grown,
         at'[r] = at[r], ref'[r] = ref[r], todo'[r] = todo[r], result'[r] = result[r],
         r \in failed' <=> r \in failed,
         stage'[r] = "new" => stage[r] = "new"
  PROVE  Place(r)'
<1>1. at[r].sp \in Sp /\ ref[r] \in [Sp -> {0} \union Type]
  BY DEF RestTyped, Step
<1>2. \A x \in Sp : Full(r, x) => Full(r, x)'
  BY <1>1 DEF Grown, Full
<1>3. "payment" \in Sp
  BY DEF Sp
<1>4. ASSUME at[r].call = "add", r \notin failed
      PROVE  Field \ todo[r] \subseteq has'[at[r].sp][ref[r][at[r].sp]]
  <2>1. ref[r][at[r].sp] \in Type
    BY <1>1, <1>4 DEF Place
  <2> QED
    BY <1>1, <1>4, <2>1 DEF Place, Grown
<1> QED
  BY <1>2, <1>3, <1>4 DEF Place

LEMMA KnownStays ==
  ASSUME Known, Grown, store' = store, base' = base,
         \A r \in Run, x \in Sp : ref'[r][x] # 0 => ref'[r][x] = ref[r][x]
  PROVE  Known'
  BY DEF Known, Grown

LEMMA SameGrown == UNCHANGED <<types, has>> => Grown
  BY DEF Grown

\* A run that ends, with or without an error, needs nothing any more.
LEMMA PlaceEnds ==
  ASSUME NEW r \in Run, at'[r].call \in {"end", "none"}, stage'[r] # "new",
         result'[r] = "ok" => \A x \in Sp : Full(r, x)'
  PROVE  Place(r)'
  BY DEF Place, Later

\* A run that goes on has no answer yet.
LEMMA PlaceGoes ==
  ASSUME NEW r \in Run, result'[r] = "none",
         \/ at'[r].call \in {"load", "list", "create"}
         \/ at'[r].call = "fields" /\ at'[r].sp = "payment"
             /\ \A x \in Sp : ref'[r][x] # 0
         \/ at'[r].call \in Later /\ \A x \in Sp : Full(r, x)'
  PROVE  Place(r)'
<1>1. CASE at'[r].call \in {"load", "list", "create"}
  BY <1>1 DEF Place, Later
<1>2. CASE /\ at'[r].call = "fields" /\ at'[r].sp = "payment"
           /\ \A x \in Sp : ref'[r][x] # 0
  BY <1>2 DEF Place, Later
<1>3. CASE at'[r].call \in Later /\ \A x \in Sp : Full(r, x)'
  BY <1>3 DEF Place, Later
<1> QED
  BY <1>1, <1>2, <1>3

LEMMA AfterTyped ==
  ASSUME NEW sp \in Sp
  PROVE  \/ sp = "payment" /\ AfterFields(sp) = Go("fields", "distribution")
         \/ sp = "distribution" /\ AfterFields(sp) = Go("card", "payment")
  BY DEF AfterFields, Sp

\* The fields of a type are there: the other type's turn, or the card's.
LEMMA PlaceAfter ==
  ASSUME RestTyped, Grown, NEW r \in Run, Place(r), at[r].call \in {"fields", "add"},
         ref'[r] = ref[r], result'[r] = "none",
         at'[r] = AfterFields(at[r].sp),
         Field \subseteq has[at[r].sp][ref[r][at[r].sp]]
  PROVE  Place(r)'
<1>1. at[r].sp \in Sp /\ ref[r] \in [Sp -> {0} \union Type]
  BY DEF RestTyped, Step
<1>2. \A x \in Sp : ref[r][x] # 0
  BY DEF Place
<1>3. \A x \in Sp : Full(r, x) => Full(r, x)'
  BY <1>1 DEF Grown, Full
<1>4. Full(r, at[r].sp)
  BY <1>1, <1>2 DEF Full
<1>5. Sp = {"payment", "distribution"}
  BY DEF Sp
<1>6. CASE at[r].sp = "payment" /\ at'[r] = Go("fields", "distribution")
  <2>1. Full(r, "payment")'
    BY <1>1, <1>3, <1>4, <1>6
  <2>2. at'[r].call = "fields" /\ \A x \in Sp : ref'[r][x] # 0
    BY <1>2, <1>6 DEF Go
  <2> QED
    BY <2>1, <2>2 DEF Place, Later
<1>7. CASE at[r].sp = "distribution" /\ at'[r] = Go("card", "payment")
  <2>1. Full(r, "payment") /\ Full(r, "distribution")
    BY <1>4, <1>7 DEF Place
  <2> QED
    BY <1>3, <1>5, <1>7, <2>1, PlaceGoes DEF Go, Later
<1> QED
  BY <1>1, <1>6, <1>7, AfterTyped

LEMMA ThrowsEnds ==
  ASSUME RestTyped, NEW r \in Run, Throws(r), stage'[r] # "new"
  PROVE  Place(r)'
<1>1. at'[r].call = "end" /\ result'[r] = "error"
  BY DEF Throws, RestTyped, Go
<1> QED
  BY <1>1, PlaceEnds

\* What the steps of a run change of what the others count on.
LEMMA WorkFrame ==
  ASSUME RestTyped, NEW r \in Run, Works(r) \/ Fails(r)
  PROVE  /\ Grown
         /\ base' = base
         /\ \A s \in Run \ {r} :
              /\ at'[s] = at[s] /\ ref'[s] = ref[s] /\ todo'[s] = todo[s]
              /\ result'[s] = result[s]
              /\ s \in failed' <=> s \in failed
<1> USE DEF RestTyped
<1>1. CASE Load(r) \/ List(r)
  BY <1>1, SameGrown DEF Load, List, portal, formVars
<1>2. CASE Create(r)
  <2>1. Grown
    BY <1>2 DEF Create, Grown
  <2> QED
    BY <1>2, <2>1 DEF Create, Throws, formVars
<1>3. CASE ListFields(r) \/ FieldsTried(r)
  BY <1>3, SameGrown DEF ListFields, FieldsTried, Throws, portal, formVars
<1>4. CASE AddField(r)
  <2>1. PICK f \in todo[r] :
          /\ todo' = [todo EXCEPT ![r] = @ \ {f}]
          /\ has' \in {has, [has EXCEPT ![at[r].sp][ref[r][at[r].sp]] = @ \union {f}]}
    BY <1>4 DEF AddField
  <2>2. types' = types
    BY <1>4 DEF AddField
  <2>3. Grown
    <3> DEFINE x == at[r].sp
               t == ref[r][x]
    <3>1. CASE has' = has
      BY <2>2, <3>1, SameGrown
    <3>2. CASE has' = [has EXCEPT ![x][t] = @ \union {f}]
      <4> SUFFICES ASSUME NEW y \in Sp, NEW u \in Type PROVE has[y][u] \subseteq has'[y][u]
        BY <2>2 DEF Grown
      <4>1. CASE y = x /\ u = t
        BY <3>2, <4>1
      <4>2. CASE ~(y = x /\ u = t)
        BY <3>2, <4>2
      <4> QED
        BY <4>1, <4>2
    <3> QED
      BY <2>1, <3>1, <3>2
  <2>4. \A s \in Run \ {r} : todo'[s] = todo[s] /\ (s \in failed' <=> s \in failed)
    BY <1>4, <2>1 DEF AddField
  <2> QED
    BY <1>4, <2>3, <2>4 DEF AddField, formVars
<1>5. CASE ReadCard(r)
  BY <1>5, SameGrown DEF ReadCard, portal, formVars
<1>6. CASE SetCard(r)
  <2>1. \A s \in Run \ {r} : at'[s] = at[s]
    BY <1>6 DEF SetCard
  <2> QED
    BY <1>6, <2>1, SameGrown DEF SetCard, formVars
<1>7. CASE ForceCommon(r)
  <2>1. \A s \in Run \ {r} : at'[s] = at[s]
    BY <1>7 DEF ForceCommon
  <2> QED
    BY <1>7, <2>1, SameGrown DEF ForceCommon, formVars
<1>8. CASE Reload(r)
  BY <1>8, SameGrown DEF Reload, portal, formVars
<1>9. CASE Save(r)
  BY <1>9, SameGrown DEF Save, Throws, portal, formVars
<1>10. CASE End(r)
  BY <1>10, SameGrown DEF End, Forget, portal, formVars
<1>11. CASE Fails(r)
  BY <1>11, SameGrown DEF Fails, Throws, portal, formVars
<1> QED
  BY <1>1, <1>2, <1>3, <1>4, <1>5, <1>6, <1>7, <1>8, <1>9, <1>10, <1>11 DEF Works

LEMMA WorkPlace ==
  ASSUME RestTyped, UsableInv, NEW r \in Run, Works(r) \/ Fails(r), ~End(r)
  PROVE  Place(r)' /\ Known'
<1> USE DEF RestTyped
<1>1. stage[r] = "in" /\ stage' = stage
  BY WorkInside DEF Inside
<1>2. Grown /\ base' = base /\ (\A s \in Run \ {r} : ref'[s] = ref[s])
  BY WorkFrame
<1>3. /\ Place(r) /\ Known
      /\ at[r].sp \in Sp /\ ref[r] \in [Sp -> {0} \union Type]
  BY DEF UsableInv, Step
<1>4. at[r].call \notin {"end", "none"} => result[r] = "none"
  BY <1>3 DEF Place
<1>5. \A x \in Sp : Full(r, x) /\ ref'[r] = ref[r] => Full(r, x)'
  BY <1>2, <1>3 DEF Grown, Full
<1>6. store' = store /\ ref'[r] = ref[r] => Known'
  BY <1>2, <1>3, KnownStays
<1>7. CASE Load(r)
  <2>1. at[r].call = "load" /\ result[r] = "none" /\ result' = result
    BY <1>4, <1>7 DEF Load, Makes
  <2>2. ref'[r] = store.sp /\ store' = store
    BY <1>7 DEF Load
  <2>3. at'[r] = IF \E x \in Sp : store.sp[x] = 0 THEN Go("list", "payment")
                 ELSE Go("fields", "payment")
    BY <1>7 DEF Load
  <2>4. Place(r)'
    BY <2>1, <2>2, <2>3, PlaceGoes DEF Go
  <2>5. Known'
    BY <1>2, <1>3, <2>2 DEF Known, Grown
  <2> QED
    BY <2>4, <2>5
<1>8. CASE List(r)
  <2>1. at[r].call = "list" /\ result[r] = "none" /\ result' = result /\ store' = store
    BY <1>4, <1>8 DEF List, Makes
  <2>2. PICK refs \in [Sp -> {0} \union Type] :
          /\ \A x \in Sp : refs[x] \in Titled(x, ref[r][x])
          /\ ref' = [ref EXCEPT ![r] = refs]
          /\ at' = [at EXCEPT ![r] = ToCreate(refs)]
    BY <1>8 DEF List
  <2>3. ref'[r] = refs /\ at'[r] = ToCreate(refs)
    BY <2>2
  <2>4. \/ at'[r].call = "create"
        \/ at'[r].call = "fields" /\ at'[r].sp = "payment" /\ \A x \in Sp : refs[x] # 0
    BY <2>3 DEF ToCreate, Go, Sp
  <2>5. Place(r)'
    BY <2>1, <2>3, <2>4, PlaceGoes
  <2>6. \A x \in Sp : refs[x] # 0 => refs[x] \in types[x]
    <3> SUFFICES ASSUME NEW x \in Sp, refs[x] # 0 PROVE refs[x] \in types[x]
      OBVIOUS
    <3>1. refs[x] \in Titled(x, ref[r][x])
      BY <2>2
    <3> QED
      BY <1>3, <3>1 DEF Titled, Known
  <2>7. Known'
    BY <1>2, <1>3, <2>1, <2>3, <2>6 DEF Known, Grown
  <2> QED
    BY <2>5, <2>7
<1>9. CASE Create(r)
  <2>1. at[r].call = "create" /\ result[r] = "none" /\ store' = store
    BY <1>4, <1>9 DEF Create, Makes
  <2>2. PICK x \in Sp : x = at[r].sp
    BY <1>3
  <2>3. r \in types'[x]
    BY <1>9, <2>2 DEF Create
  <2>4. CASE /\ ref' = [ref EXCEPT ![r][x] = r]
             /\ at' = [at EXCEPT ![r] = ToCreate(ref'[r])]
             /\ result' = result
    <3>1. at'[r] = ToCreate(ref'[r])
      BY <2>4
    <3>2. \/ at'[r].call = "create"
          \/ at'[r].call = "fields" /\ at'[r].sp = "payment" /\ \A y \in Sp : ref'[r][y] # 0
      BY <3>1 DEF ToCreate, Go, Sp
    <3>3. Place(r)'
      BY <2>1, <2>4, <3>2, PlaceGoes
    <3>4. \A y \in Sp : (ref'[r][y] = r /\ y = x) \/ ref'[r][y] = ref[r][y]
      BY <1>3, <2>4
    <3>5. ASSUME NEW q \in Run, NEW y \in Sp, ref'[q][y] # 0 PROVE ref'[q][y] \in types'[y]
      <4>1. CASE q = r
        BY <1>2, <1>3, <2>3, <3>4, <3>5, <4>1 DEF Known, Grown
      <4>2. CASE q # r
        BY <1>2, <1>3, <3>5, <4>2 DEF Known, Grown
      <4> QED
        BY <4>1, <4>2
    <3>6. \A y \in Sp : store'.sp[y] # 0 => store'.sp[y] \in types'[y]
      BY <1>2, <1>3, <2>1 DEF Known, Grown
    <3>7. \A y \in Sp : base'.sp[y] # 0 => base'.sp[y] \in types'[y]
      BY <1>2, <1>3 DEF Known, Grown
    <3>8. Known'
      BY <3>5, <3>6, <3>7 DEF Known
    <3> QED
      BY <3>3, <3>8
  <2>5. CASE Throws(r) /\ ref' = ref
    BY <1>1, <1>6, <2>1, <2>5, ThrowsEnds
  <2> QED
    BY <1>9, <2>2, <2>4, <2>5 DEF Create
<1>10. CASE ListFields(r)
  <2>1. /\ at[r].call = "fields" /\ result[r] = "none"
        /\ UNCHANGED <<result, ref, store, has, failed>>
    BY <1>4, <1>10 DEF ListFields, Makes, portal
  <2>2. CASE Missing(r) = {}
    <3>1. Field \subseteq has[at[r].sp][ref[r][at[r].sp]]
      BY <2>2 DEF Missing
    <3>2. at'[r] = AfterFields(at[r].sp)
      BY <1>10, <2>2 DEF ListFields
    <3> QED
      BY <1>2, <1>3, <1>6, <2>1, <3>1, <3>2, PlaceAfter
  <2>3. CASE Missing(r) # {}
    <3>1. /\ at'[r] = Go("add", at[r].sp)
          /\ todo'[r] = Field \ has[at[r].sp][ref[r][at[r].sp]]
      BY <1>10, <2>3 DEF ListFields, Missing
    <3>2. at'[r].call = "add" /\ at'[r].sp = at[r].sp
      BY <3>1 DEF Go
    <3>3. \A x \in Sp : ref[r][x] # 0
      BY <1>3, <2>1 DEF Place
    <3>4. at[r].sp = "distribution" => Full(r, "payment")
      BY <1>3, <2>1 DEF Place
    <3>5. "payment" \in Sp
      BY DEF Sp
    <3>6. Field \ todo'[r] \subseteq has[at[r].sp][ref[r][at[r].sp]]
      BY <3>1
    <3>7. Place(r)'
      BY <1>5, <2>1, <3>2, <3>3, <3>4, <3>5, <3>6 DEF Place, Later
    <3> QED
      BY <1>6, <2>1, <3>7
  <2> QED
    BY <2>2, <2>3
<1>11. CASE AddField(r)
  <2>1. /\ at[r].call = "add" /\ result[r] = "none"
        /\ UNCHANGED <<at, result, ref, store>>
    BY <1>4, <1>11 DEF AddField, Makes
  <2>2. \A x \in Sp : ref[r][x] # 0
    BY <1>3, <2>1 DEF Place
  <2> DEFINE x == at[r].sp
             t == ref[r][x]
  <2>3. x \in Sp /\ t \in Type
    BY <1>3, <2>2
  <2>4. PICK f \in todo[r] :
          /\ todo' = [todo EXCEPT ![r] = @ \ {f}]
          /\ has' = [has EXCEPT ![x][t] = @ \union {f}] \/ r \in failed'
    BY <1>11 DEF AddField
  <2>5. todo'[r] = todo[r] \ {f} /\ (r \in failed => r \in failed')
    BY <1>11, <2>4 DEF AddField
  <2>6. r \notin failed' => Field \ todo'[r] \subseteq has'[x][t]
    <3> SUFFICES ASSUME r \notin failed' PROVE Field \ todo'[r] \subseteq has'[x][t]
      OBVIOUS
    <3>1. has'[x][t] = has[x][t] \union {f}
      BY <2>3, <2>4
    <3>2. Field \ todo[r] \subseteq has[x][t]
      BY <1>3, <2>1, <2>5 DEF Place
    <3> QED
      BY <2>5, <3>1, <3>2
  <2>7. x = "distribution" => Full(r, "payment")'
    BY <1>3, <1>5, <2>1 DEF Place, Sp
  <2>8. Place(r)'
    BY <2>1, <2>2, <2>6, <2>7 DEF Place, Later
  <2> QED
    BY <1>6, <2>1, <2>8
<1>12. CASE FieldsTried(r)
  <2>1. /\ at[r].call = "add" /\ result[r] = "none" /\ todo[r] = {}
        /\ UNCHANGED <<ref, store>>
    BY <1>4, <1>12 DEF FieldsTried, Makes, portal
  <2>2. CASE Complete(r)
    <3>1. Field \subseteq has[at[r].sp][ref[r][at[r].sp]]
      BY <1>3, <2>1, <2>2 DEF Complete, Place
    <3>2. at'[r] = AfterFields(at[r].sp) /\ result' = result
      BY <1>12, <2>2 DEF FieldsTried
    <3> QED
      BY <1>2, <1>3, <1>6, <2>1, <3>1, <3>2, PlaceAfter
  <2>3. CASE ~Complete(r)
    BY <1>1, <1>6, <1>12, <2>1, <2>3, ThrowsEnds DEF FieldsTried
  <2> QED
    BY <2>2, <2>3
<1>13. CASE ReadCard(r) \/ SetCard(r) \/ ForceCommon(r)
  <2>1. /\ at[r].call \in Later /\ result[r] = "none"
        /\ UNCHANGED <<ref, store, result>>
    BY <1>4, <1>13 DEF ReadCard, SetCard, ForceCommon, Makes, Later, portal
  <2>2. \A x \in Sp : Full(r, x)'
    BY <1>3, <1>5, <2>1 DEF Place
  <2>3. at'[r] \in {Go("reload", "payment"), Go("set", "payment"), Go("force", "payment")}
    <3>1. CASE ReadCard(r)
      BY <3>1 DEF ReadCard
    <3>2. CASE SetCard(r)
      BY <3>2 DEF SetCard
    <3>3. CASE ForceCommon(r)
      BY <3>3 DEF ForceCommon
    <3> QED
      BY <1>13, <3>1, <3>2, <3>3
  <2>4. at'[r].call \in Later
    BY <2>3 DEF Go, Later
  <2> QED
    BY <1>6, <2>1, <2>2, <2>4, PlaceGoes
<1>14. CASE Reload(r)
  <2>1. /\ at[r].call \in Later /\ result[r] = "none"
        /\ UNCHANGED <<ref, store>>
    BY <1>4, <1>14 DEF Reload, Makes, Later
  <2>2. \A x \in Sp : Full(r, x)'
    BY <1>3, <1>5, <2>1 DEF Place
  <2>3. CASE at'[r] = Go("end", "payment")
    BY <1>1, <1>6, <2>1, <2>2, <2>3, PlaceEnds DEF Go
  <2>4. CASE at'[r] = Go("save", "payment") /\ result' = result
    BY <1>6, <2>1, <2>2, <2>4, PlaceGoes DEF Go, Later
  <2> QED
    BY <1>14, <2>3, <2>4 DEF Reload
<1>15. CASE Save(r)
  <2>1. /\ at[r].call \in Later /\ result[r] = "none" /\ ref' = ref
        /\ store' = Merged(r)
    BY <1>4, <1>15 DEF Save, Makes, Later
  <2>2. \A x \in Sp : Full(r, x)'
    BY <1>3, <1>5, <2>1 DEF Place
  <2>3. at'[r].call = "end"
    BY <1>15 DEF Save, Throws, Go
  <2>4. Place(r)'
    BY <1>1, <2>2, <2>3, PlaceEnds
  <2>5. store'.sp = ref[r]
    BY <2>1 DEF Merged, Settings
  <2>6. Known'
    BY <1>2, <1>3, <2>1, <2>5 DEF Known, Grown
  <2> QED
    BY <2>4, <2>6
<1>16. CASE Fails(r)
  <2>1. Throws(r) /\ UNCHANGED <<ref, store>>
    BY <1>16 DEF Fails
  <2> QED
    BY <1>1, <1>6, <2>1, ThrowsEnds
<1> QED
  BY <1>7, <1>8, <1>9, <1>10, <1>11, <1>12, <1>13, <1>14, <1>15, <1>16 DEF Works

\* A run that leaves or dies keeps only what its answer speaks of.
LEMMA EndPlace ==
  ASSUME LeaseInv, RestTyped, UsableInv, NEW r \in Run, End(r) \/ Dies(r)
  PROVE  UsableInv'
<1> USE DEF RestTyped
<1>1. stage \in [Run -> Stage]
  BY DEF LeaseInv, LeaseTypeOK
<1>2. /\ Forget(r) /\ UNCHANGED <<types, has, store, base>>
      /\ stage' \in {[stage EXCEPT ![r] = "done"], [stage EXCEPT ![r] = "dead"]}
  BY DEF End, Dies, Leave, Crash, portal, formVars
<1>3. Grown
  BY <1>2, SameGrown
<1>4. /\ at'[r] = Nowhere
      /\ ref'[r] = IF result[r] = "ok" THEN ref[r] ELSE Blank.sp
      /\ result' = result /\ failed' = failed
      /\ \A s \in Run \ {r} :
           at'[s] = at[s] /\ ref'[s] = ref[s] /\ todo'[s] = todo[s]
  BY <1>2 DEF Forget
<1>5. stage'[r] # "new" /\ \A s \in Run \ {r} : stage'[s] = stage[s]
  BY <1>1, <1>2
<1>6. ASSUME NEW s \in Run \ {r} PROVE Place(s)'
  BY <1>3, <1>4, <1>5, PlaceStays DEF UsableInv
<1>7. Place(r)'
  <2>1. result[r] = "ok" => \A x \in Sp : Full(r, x)'
    BY <1>2, <1>4 DEF UsableInv, Place, Full
  <2> QED
    BY <1>4, <1>5, <2>1, PlaceEnds DEF Nowhere, Go
<1>8. \A s \in Run, x \in Sp : ref'[s][x] # 0 => ref'[s][x] = ref[s][x]
  BY <1>4 DEF Blank
<1>9. Known'
  BY <1>2, <1>3, <1>8, KnownStays DEF UsableInv
<1> QED
  BY <1>6, <1>7, <1>9 DEF UsableInv

LEMMA UsableStart == Init => UsableInv
<1> SUFFICES ASSUME Init PROVE UsableInv
  OBVIOUS
<1>1. PICK old, stored \in BOOLEAN :
        /\ stored => old
        /\ types = [x \in Sp |-> IF old THEN {Old} ELSE {}]
        /\ store = [Blank EXCEPT !.sp = [x \in Sp |-> IF stored THEN Old ELSE 0]]
  BY DEF Init
<1>2. \A x \in Sp : store.sp[x] = IF stored THEN Old ELSE 0
  BY <1>1 DEF Blank
<1>3. Known
  BY <1>1, <1>2 DEF Known, Init, Blank
<1>4. \A r \in Run : at[r].call = "none" /\ result[r] = "none"
  BY DEF Init, Nowhere, Go
<1> QED
  BY <1>3, <1>4 DEF UsableInv, Place, Later

LEMMA UsableStep == LeaseInv /\ RestTyped /\ UsableInv /\ [Next]_vars => UsableInv'
<1> SUFFICES ASSUME LeaseInv, RestTyped, UsableInv, [Next]_vars PROVE UsableInv'
  OBVIOUS
<1>1. stage \in [Run -> Stage]
  BY DEF LeaseInv, LeaseTypeOK
<1>2. ASSUME NEW r \in Run, Works(r) \/ Fails(r), ~End(r) PROVE UsableInv'
  <2>1. Place(r)' /\ Known'
    BY <1>2, WorkPlace
  <2>2. ASSUME NEW s \in Run \ {r} PROVE Place(s)'
    <3>1. stage' = stage
      BY <1>2, WorkInside
    <3>2. /\ Grown
          /\ at'[s] = at[s] /\ ref'[s] = ref[s] /\ todo'[s] = todo[s]
          /\ result'[s] = result[s]
          /\ s \in failed' <=> s \in failed
      BY <1>2, WorkFrame
    <3> QED
      BY <3>1, <3>2, PlaceStays DEF UsableInv
  <2> QED
    BY <2>1, <2>2 DEF UsableInv
<1>3. ASSUME NEW r \in Run, End(r) \/ Dies(r) PROVE UsableInv'
  BY <1>3, EndPlace
<1>4. ASSUME UNCHANGED <<types, has, ref, todo, failed>>, Known',
             \A s \in Run : stage'[s] = "new" => stage[s] = "new",
             \A s \in Run : Place(s)' \/ (at'[s] = at[s] /\ result'[s] = result[s])
      PROVE  UsableInv'
  <2>1. \A s \in Run : Place(s)'
    BY <1>4, SameGrown, PlaceStays DEF UsableInv
  <2> QED
    BY <1>4, <2>1 DEF UsableInv
<1>5. UNCHANGED <<types, store, base, ref>> => Known'
  BY DEF UsableInv, Known
<1>6. ASSUME NEW r \in Run, Begin(r) PROVE UsableInv'
  <2>1. /\ UNCHANGED <<types, has, store, base, ref, todo, failed, result>>
        /\ at' = [at EXCEPT ![r] = Go("load", "payment")]
        /\ stage[r] = "new" /\ stage' = [stage EXCEPT ![r] = "in"]
    BY <1>6 DEF Begin, Enter, Comes, portal, formVars
  <2>2. result'[r] = "none"
    BY <2>1 DEF UsableInv, Place, RestTyped
  <2>3. at'[r].call = "load"
    BY <2>1 DEF RestTyped, Go
  <2>4. Place(r)'
    BY <2>2, <2>3, PlaceGoes
  <2>5. \A s \in Run \ {r} : at'[s] = at[s]
    BY <2>1 DEF RestTyped
  <2>6. \A s \in Run : stage'[s] = "new" => stage[s] = "new"
    BY <1>1, <2>1
  <2> QED
    BY <1>4, <1>5, <2>1, <2>4, <2>5, <2>6
<1>7. ASSUME NEW r \in Run, Rejected(r) PROVE UsableInv'
  <2>1. \A s \in Run : stage'[s] = "new" => stage[s] = "new"
    BY <1>1, <1>7 DEF Rejected, TurnedAway, Refused
  <2> QED
    BY <1>4, <1>5, <1>7, <2>1 DEF Rejected, portal, locals, formVars
<1>8. CASE ReadStored
  <2>1. Known'
    BY <1>8 DEF ReadStored, portal, locals, UsableInv, Known
  <2> QED
    BY <1>4, <1>8, <2>1 DEF ReadStored, leaseVars, leaseCore, portal, locals
<1>9. CASE WriteForm
  <2>1. store'.sp = base.sp /\ base'.sp = Blank.sp
    BY <1>9 DEF WriteForm, KeepStoredSpIds, CloseForm
  <2>2. Known'
    BY <1>9, <2>1 DEF WriteForm, portal, locals, UsableInv, Known, Blank
  <2> QED
    BY <1>4, <1>9, <2>2 DEF WriteForm, leaseVars, leaseCore, portal, locals
<1>10. CASE FormFails
  <2>1. Known'
    BY <1>10 DEF FormFails, CloseForm, portal, locals, UsableInv, Known, Blank
  <2> QED
    BY <1>4, <1>10, <2>1 DEF FormFails, leaseCore, portal, locals
<1>11. CASE Around
  <2>1. stage' = stage
    BY <1>11 DEF Around, Renew, Miss, Tick
  <2> QED
    BY <1>4, <1>5, <1>11, <2>1 DEF Around, portal, locals, formVars
<1>12. CASE Reinstall
  <2>1. /\ UNCHANGED <<types, has, ref, todo, failed, stage>>
        /\ store' \in {store, Blank} /\ base' = Blank
    BY <1>12 DEF Reinstall, Purge, CloseForm, portal
  <2>2. Known'
    BY <2>1 DEF UsableInv, Known, Blank
  <2>3. ASSUME NEW s \in Run PROVE Place(s)' \/ (at'[s] = at[s] /\ result'[s] = result[s])
    <3>1. CASE s \in Inside
      <4>1. at'[s].call = "end" /\ stage'[s] # "new"
        BY <1>12, <2>1, <3>1 DEF Reinstall, Go, Inside
      <4>2. result'[s] = "ok" => result[s] = "ok"
        BY <1>12, <3>1 DEF Reinstall
      <4>3. result'[s] = "ok" => \A x \in Sp : Full(s, x)'
        BY <2>1, <4>2 DEF UsableInv, Place, Full
      <4> QED
        BY <4>1, <4>3, PlaceEnds
    <3>2. CASE s \notin Inside
      BY <1>12, <3>2 DEF Reinstall
    <3> QED
      BY <3>1, <3>2
  <2> QED
    BY <1>4, <2>1, <2>2, <2>3
<1>13. CASE UNCHANGED vars
  BY <1>4, <1>5, <1>13 DEF vars, leaseVars, leaseCore, portal, locals, formVars
<1> QED
  BY <1>2, <1>3, <1>6, <1>7, <1>8, <1>9, <1>10, <1>11, <1>12, <1>13 DEF Next, Works

LEMMA UsableInvariant == Spec => []UsableInv
<1>1. Init => UsableInv
  BY UsableStart
<1> QED
  BY <1>1, UsableStep, LeaseInvariant, RestInvariant, PTL DEF Spec

\* A run that says "ok" leaves both types with every field, and what is stored
\* is a type of its title, however often the set-up fails half-way and is run
\* again (distributionSpProvision.ts:141-190).
THEOREM OkMeansUsable == Spec => []Usable
<1>1. UsableInv => Usable
  BY DEF UsableInv, Known, Place, Full, Usable
<1> QED
  BY <1>1, UsableInvariant, PTL

----------------------------------------------------------------------------
(***************************************************************************)
(* Both parts.  A run that stands at the write, and whose read no write of *)
(* the form's part has crossed, holds the form's part as it is stored.     *)
(***************************************************************************)
FormInv ==
  /\ store.form <= saves
  /\ \A r \in Run :
       /\ fresh[r].form <= saves
       /\ at[r].call = "save" => /\ stage[r] = "in"
                                 /\ r \in crossed \/ fresh[r].form = store.form

LEMMA FormAside ==
  ASSUME RestTyped, FormInv, UNCHANGED <<saves, crossed>>, store'.form = store.form,
         \A r \in Run :
           /\ fresh'[r] \in {fresh[r], store, Blank}
           /\ at'[r].call = "save" =>
                \/ at'[r] = at[r] /\ fresh'[r] = fresh[r] /\ stage'[r] = stage[r]
                \/ stage'[r] = "in" /\ fresh'[r] = store
  PROVE  FormInv'
<1>1. Blank.form = 0 /\ saves \in Nat
  BY DEF Blank, RestTyped
<1> QED
  BY <1>1 DEF FormInv

\* Where the steps of a run lead: to the write only from a new look at the settings.
LEMMA WhereNext ==
  ASSUME RestTyped, NEW r \in Run, Works(r) \/ Fails(r), at'[r].call = "save"
  PROVE  Reload(r)
<1> USE DEF RestTyped
<1>1. ASSUME Throws(r) PROVE FALSE
  BY <1>1 DEF Throws, Go
<1>2. CASE Load(r)
  BY <1>2 DEF Load, Go
<1>3. CASE List(r) \/ Create(r)
  <2>1. \A refs : ToCreate(refs).call # "save"
    BY ToCreateMissing
  <2>2. Throws(r) \/ \E refs : at' = [at EXCEPT ![r] = ToCreate(refs)]
    BY <1>3 DEF List, Create
  <2> QED
    BY <1>1, <2>1, <2>2
<1>4. CASE ListFields(r) \/ FieldsTried(r)
  <2>1. \A sp : AfterFields(sp).call # "save" /\ Go("add", sp).call # "save"
    BY DEF AfterFields, Go
  <2>2. Throws(r) \/ \E step : at' = [at EXCEPT ![r] = step] /\ step.call # "save"
    BY <1>4, <2>1 DEF ListFields, FieldsTried
  <2> QED
    BY <1>1, <2>2
<1>5. CASE AddField(r)
  BY <1>5 DEF AddField, Makes
<1>6. CASE ReadCard(r) \/ SetCard(r) \/ ForceCommon(r)
  <2>1. \E c \in {"reload", "set", "force"} : at' = [at EXCEPT ![r] = Go(c, "payment")]
    BY <1>6 DEF ReadCard, SetCard, ForceCommon
  <2> QED
    BY <2>1 DEF Go
<1>7. CASE Save(r)
  BY <1>1, <1>7 DEF Save, Go
<1>8. CASE End(r)
  BY <1>8 DEF End, Forget, Nowhere, Go
<1>9. CASE Fails(r)
  BY <1>1, <1>9 DEF Fails
<1> QED
  BY <1>2, <1>3, <1>4, <1>5, <1>6, <1>7, <1>8, <1>9 DEF Works

LEMMA FormWork ==
  ASSUME RestTyped, FormInv, NEW r \in Run, Works(r) \/ Fails(r), ~End(r)
  PROVE  FormInv'
<1>0. /\ stage[r] = "in" /\ stage' = stage /\ store \in Settings /\ saves \in Nat
      /\ at \in [Run -> Step] /\ fresh \in [Run -> Settings]
  BY WorkInside DEF Inside, RestTyped
<1>1. \A s \in Run \ {r} : at'[s] = at[s]
  BY WorkFrame
<1>2. CASE Save(r)
  <2>1. /\ store'.form = fresh[r].form /\ UNCHANGED <<saves, fresh>> /\ at'[r].call # "save"
        /\ crossed' = IF fresh[r].form = store.form THEN crossed ELSE Crossed
    BY <1>0, <1>2, WhereNext DEF Save, Merged, Settings, Reload, Makes
  <2>2. CASE fresh[r].form = store.form
    BY <1>0, <1>1, <2>1, <2>2 DEF FormInv
  <2>3. CASE crossed' = Crossed
    <3>1. \A s \in Run : at'[s].call = "save" => s \in crossed'
      BY <1>1, <2>1, <2>3 DEF Crossed, Inside, FormInv
    <3> QED
      BY <1>0, <1>1, <2>1, <3>1 DEF FormInv
  <2> QED
    BY <2>1, <2>2, <2>3
<1>3. CASE ~Save(r)
  <2>1. UNCHANGED <<store, saves, crossed>>
    BY <1>0, <1>3 DEF Works, Load, List, Create, ListFields, AddField, FieldsTried, ReadCard,
       SetCard, ForceCommon, Reload, Fails, formVars
  <2>2. \A s \in Run : fresh'[s] = fresh[s] \/ (s = r /\ fresh'[s] = store)
    BY <1>0, <1>3 DEF Works, Load, List, Create, ListFields, AddField, FieldsTried, ReadCard,
       SetCard, ForceCommon, Reload, Reread, Fails
  <2>3. at'[r].call = "save" => fresh'[r] = store
    BY <1>0, WhereNext DEF Reload, Reread
  <2> QED
    BY <1>0, <1>1, <2>1, <2>2, <2>3, FormAside
<1> QED
  BY <1>2, <1>3

LEMMA FormStep == LeaseInv /\ RestTyped /\ FormInTime /\ FormInv /\ [Next]_vars => FormInv'
<1> SUFFICES ASSUME LeaseInv, RestTyped, FormInTime, FormInv, [Next]_vars PROVE FormInv'
  OBVIOUS
<1>0. /\ stage \in [Run -> Stage] /\ at \in [Run -> Step] /\ saves \in Nat
      /\ fresh \in [Run -> Settings] /\ store \in Settings
  BY DEF LeaseInv, LeaseTypeOK, RestTyped
<1>1. ASSUME NEW r \in Run, Works(r) \/ Fails(r), ~End(r) PROVE FormInv'
  BY <1>1, FormWork
<1>2. ASSUME NEW r \in Run, End(r) \/ Dies(r) PROVE FormInv'
  <2>1. /\ UNCHANGED <<store, saves, crossed>>
        /\ at' = [at EXCEPT ![r] = Nowhere] /\ fresh' = [fresh EXCEPT ![r] = Blank]
        /\ \E s \in Stage : stage' = [stage EXCEPT ![r] = s]
    BY <1>2 DEF End, Dies, Forget, Leave, Crash, formVars, Stage
  <2> QED
    BY <1>0, <2>1, FormAside DEF Nowhere, Go
<1>3. ASSUME NEW r \in Run, Begin(r) \/ Rejected(r) PROVE FormInv'
  <2>1. /\ UNCHANGED <<store, saves, crossed, fresh>>
        /\ stage[r] = "new" /\ \E s \in Stage : stage' = [stage EXCEPT ![r] = s]
        /\ \/ at' = at
           \/ at' = [at EXCEPT ![r] = Go("load", "payment")]
    BY <1>3 DEF Begin, Enter, Rejected, TurnedAway, Refused, Comes, locals, formVars, Stage
  <2>2. at[r].call # "save"
    BY <2>1 DEF FormInv
  <2>3. \A s \in Run : at'[s].call = "save" => at'[s] = at[s] /\ stage'[s] = stage[s]
    BY <1>0, <2>1, <2>2 DEF Go
  <2> QED
    BY <2>1, <2>3, FormAside
<1>4. CASE ReadStored \/ FormFails
  BY <1>4, FormAside DEF ReadStored, FormFails, leaseVars, leaseCore, locals
<1>5. CASE WriteForm
  <2>1. /\ store'.form = saves + 1 /\ saves' = saves + 1 /\ crossed' = Crossed
        /\ UNCHANGED <<stage, at, fresh>>
    BY <1>5 DEF WriteForm, leaseVars, leaseCore, locals
  <2>2. \A r \in Run : fresh[r].form \in Nat /\ fresh[r].form <= saves + 1
    BY <1>0 DEF FormInv, Settings
  <2>3. \A r \in Run : at[r].call = "save" => r \in crossed'
    BY <2>1 DEF FormInv, Crossed, Inside
  <2> QED
    BY <1>0, <2>1, <2>2, <2>3 DEF FormInv
<1>6. CASE Around
  BY <1>6, FormAside DEF Around, Renew, Miss, Tick, locals, formVars
<1>7. CASE Reinstall
  <2>1. \A r \in Run : at'[r].call # "save"
    BY <1>7 DEF Reinstall, Go, FormInv, Inside
  <2>2. store'.form <= saves /\ UNCHANGED <<saves, fresh>>
    BY <1>0, <1>7 DEF Reinstall, Blank, FormInv
  <2> QED
    BY <2>1, <2>2 DEF FormInv
<1>8. CASE UNCHANGED vars
  BY <1>8, FormAside DEF vars, leaseVars, leaseCore, locals, formVars
<1> QED
  BY <1>1, <1>2, <1>3, <1>4, <1>5, <1>6, <1>7, <1>8 DEF Next, Works

LEMMA FormStart == Init => FormInv
  BY DEF Init, FormInv, Blank, Nowhere, Go

\* Who writes the settings.
LEMMA StoreLeft ==
  ASSUME [Next]_vars, ~WriteForm, ~Reinstall, \A r \in Run : ~Save(r)
  PROVE  store' = store
<1>1. ASSUME NEW r \in Run, Works(r) \/ Fails(r), ~Save(r) PROVE store' = store
  BY <1>1 DEF Works, Load, List, Create, ListFields, AddField, FieldsTried, ReadCard,
     SetCard, ForceCommon, Reload, End, Fails
<1>2. ASSUME \/ \E r \in Run : Begin(r) \/ Rejected(r) \/ Dies(r)
             \/ ReadStored \/ FormFails \/ Around \/ UNCHANGED vars
      PROVE  store' = store
  BY <1>2 DEF Begin, Rejected, Dies, ReadStored, FormFails, Around, vars
<1> QED
  BY <1>1, <1>2 DEF Next

\* As long as no two runs have been inside together there is one type of each title,
\* and whatever id is at hand is its id.
LEMMA IdsStep ==
  ASSUME RestTyped, TwinsInv, UsableInv, [Next]_vars PROVE IdsKept
<1> SUFFICES ASSUME ~together, ~FormsGap, ~Reinstall, NEW x \in Sp, store.sp[x] # 0
             PROVE  store'.sp[x] = store.sp[x]
  BY DEF IdsKept
<1>0. /\ store \in Settings /\ store.sp[x] \in types[x] /\ types[x] \subseteq Type
      /\ \A s, t \in Type : s \in types[x] /\ t \in types[x] => s = t
  BY DEF RestTyped, UsableInv, Known, TwinsInv
<1>1. ASSUME NEW r \in Run, Save(r) PROVE store'.sp[x] = store.sp[x]
  <2>1. store'.sp = ref[r]
    BY <1>1 DEF Save, Merged, RestTyped, Settings
  <2>2. ref[r][x] \in types[x]
    BY <1>1 DEF Save, Makes, UsableInv, Known, Place, Later, Full
  <2> QED
    BY <1>0, <2>1, <2>2
<1>2. CASE WriteForm
  BY <1>2 DEF WriteForm, KeepStoredSpIds, CloseForm, FormsGap
<1> QED
  BY <1>1, <1>2, StoreLeft

LEMMA FormPart ==
  ASSUME RestTyped, FormInv, [Next]_vars PROVE FormKept
<1> SUFFICES ASSUME store'.form < store.form, ~Reinstall PROVE \E r \in crossed : Save(r)
  BY DEF FormKept
<1>0. store \in Settings /\ store.form \in Nat /\ saves \in Nat /\ store.form <= saves
  BY DEF RestTyped, Settings, FormInv
<1>1. ASSUME NEW r \in Run, Save(r) PROVE r \in crossed
  <2>1. store'.form = fresh[r].form
    BY <1>1 DEF Save, Merged, RestTyped, Settings
  <2> QED
    BY <1>0, <1>1, <2>1 DEF Save, Makes, FormInv
<1>2. ASSUME WriteForm PROVE FALSE
  BY <1>0, <1>2 DEF WriteForm
<1> QED
  BY <1>0, <1>1, <1>2, StoreLeft

\* The set-up and the settings form, which write one blob without a lease between
\* them, keep each other's part: a stored id stays while runs do not overlap, and
\* a saved form is rolled back only by a run whose read it has crossed, unless the
\* form itself was written over a change it had not read
\* (distributionProvisionHandler.ts:76-92, chat-settings.post.ts:16-38).
THEOREM PartsAreKept == Spec => BothPartsKept
<1>1. LeaseInv /\ RestTyped /\ FormInTime /\ TwinsInv /\ UsableInv /\ FormInv /\ [Next]_vars
      => [IdsKept /\ FormKept]_vars
  BY IdsStep, FormPart
<1>2. Spec => []FormInv
  BY FormStart, FormStep, LeaseInvariant, RestInvariant, PTL DEF Spec
<1> QED
  BY <1>1, <1>2, LeaseInvariant, RestInvariant, TwinsInvariant, UsableInvariant, PTL
     DEF Spec, BothPartsKept

----------------------------------------------------------------------------
(***************************************************************************)
(* The poller and the erasure.  Polling shares no constant and no variable *)
(* with Provision: PollSpec says nothing of its state, nor the other way.  *)
(***************************************************************************)
HIDE ProvisionAssumption
USE PollingAssumption

Jobs == Waiting(fetch) \union Waiting(crm)

\* A job that waits has an attempt left.
LeftInv == \A j \in Jobs : j.tries < Attempts

\* The type invariant, as it is inductive.
Typed == PollTypeOK /\ LeftInv

\* What the bank shows is of the past, an activity is no older than its operation.
DatedInv ==
  \A o \in Op :
    /\ bank[o] <= day
    /\ created[o] # 0 => bank[o] # 0 /\ bank[o] <= created[o]

\* A job that waits is about the window of a day that has come, or about a day
\* a person has asked for.
Recent(w) == w.to <= day /\ w.to <= w.from + Lookback
ByHand(w) == w.from = w.to /\ w.to \in asked[w.portal]
WindowInv == \A j \in Jobs : Recent(j.window) \/ ByHand(j.window)

\* A batch holds what the bank shows in its window.
ItemInv ==
  \A b \in Waiting(crm) : \A o \in b.items :
    /\ Of[o] = b.window.portal
    /\ bank[o] # 0 /\ b.window.from <= bank[o] /\ bank[o] <= b.window.to

\* The days a run keeps, and what was erased: older than today's window.
CutoffInv == eraser # {} => cutoff + Lookback + Grace <= day + 1
ErasedInv == \A o \in erased : bank[o] # 0 /\ bank[o] + Lookback + Grace <= day

LEMMA Sizes ==
  /\ Portals \in Nat /\ Attempts \in Nat /\ Attempts # 0 /\ MaxDays \in Nat /\ MaxDays # 0
  /\ MaxPortals \in Nat /\ Lookback \in Nat /\ MinDays \in Nat /\ Grace \in Nat
  /\ MaxTerm \in Nat
  /\ MaxFaults \in Nat /\ MaxAsks \in Nat
  OBVIOUS

\* The greater of two numbers, as the code's Math.max.
LEMMA MaxOfTwo ==
  ASSUME NEW a \in Nat, NEW b \in Nat
  PROVE  Max({a, b}) \in {a, b} /\ Max({a, b}) >= a /\ Max({a, b}) >= b
<1>1. \E x \in {a, b} : \A y \in {a, b} : x >= y
  <2>1. CASE a >= b
    BY <2>1
  <2>2. CASE ~(a >= b)
    BY <2>2
  <2> QED
    BY <2>1, <2>2
<1> QED
  BY <1>1 DEF Max

\* The lesser of two numbers, as the code's Math.min.
LEMMA MinOfTwo ==
  ASSUME NEW a \in Nat, NEW b \in Nat
  PROVE  Min({a, b}) \in {a, b} /\ (a >= b => Min({a, b}) = b)
<1>1. \E x \in {a, b} : \A y \in {a, b} : x <= y
  <2>1. CASE a <= b
    BY <2>1
  <2>2. CASE ~(a <= b)
    BY <2>2
  <2> QED
    BY <2>1, <2>2
<1> QED
  BY <1>1 DEF Min

\* The term of an activity is a number of days; it lies beyond the window and
\* its grace when it is not capped.
LEMMA Threshold ==
  /\ ThresholdDays \in Nat
  /\ Lookback + Grace <= MaxTerm => ThresholdDays >= Lookback + Grace
<1> DEFINE m == Max({MinDays, Lookback + Grace})
<1>1. m \in Nat /\ m >= Lookback + Grace
  BY MaxOfTwo
<1>2. ThresholdDays = Min({MaxTerm, m})
  BY DEF ThresholdDays
<1> HIDE DEF m
<1>3. Min({MaxTerm, m}) \in {MaxTerm, m}
  BY <1>1, MinOfTwo, Sizes
<1> QED
  BY <1>1, <1>2, <1>3, Sizes

LEMMA WindowTyped ==
  ASSUME PollTypeOK, NEW p \in Portal
  PROVE  PollWindow(p) \in Window /\ Recent(PollWindow(p))
  BY DEF PollTypeOK, PollWindow, Window, Day, Recent

LEMMA FetchForTyped ==
  ASSUME NEW w \in Window, NEW e \in 0..MaxAsks
  PROVE  /\ FetchFor(w, e) \in FetchJob
         /\ FetchFor(w, e).window = w /\ FetchFor(w, e).tries = 0
  BY DEF FetchFor, FetchJob, Status

LEMMA ShownIs ==
  ASSUME PollTypeOK, NEW w \in Window, NEW o \in Shown(w)
  PROVE  /\ o \in Op /\ Of[o] = w.portal
         /\ bank[o] # 0 /\ w.from <= bank[o] /\ bank[o] <= w.to
<1>1. w.from \in Nat /\ w.to \in Nat /\ bank[o] \in Nat
  BY DEF Shown, PollTypeOK, Window, Day
<1> QED
  BY <1>1, MaxOfTwo DEF Shown

\* What the steps do to the jobs that wait: none is new, or one is.
LEMMA EnqueueIs ==
  ASSUME PollTypeOK, NEW job \in FetchJob
  PROVE  /\ EnqueueFetch(job) \subseteq FetchJob
         /\ EnqueueFetch(job) \subseteq fetch \union {job}
         /\ \A i, j \in EnqueueFetch(job) : FetchId(i) = FetchId(j) => i = j
  BY DEF PollTypeOK, EnqueueFetch, FetchIds

LEMMA EnqueueCrmIs ==
  ASSUME PollTypeOK, NEW job \in Batch
  PROVE  /\ EnqueueCrmSync(job) \subseteq Batch
         /\ EnqueueCrmSync(job) \subseteq crm \union {job}
         /\ \A i, j \in EnqueueCrmSync(job) : BatchId(i) = BatchId(j) => i = j
<1>1. UnstickFailedOnly(job) \subseteq crm
  BY DEF UnstickFailedOnly
<1> QED
  BY <1>1 DEF PollTypeOK, EnqueueCrmSync

LEMMA BatchTyped ==
  ASSUME PollTypeOK, NEW w \in Window, Shown(w) # {}
  PROVE  BatchOf(w) \in Batch
<1>1. Shown(w) \in SUBSET Op /\ Shown(w) # {}
  BY DEF Shown
<1>2. 0 \in 0..Attempts
  BY Sizes
<1> QED
  BY <1>1, <1>2 DEF BatchOf, Batch, Status

LEMMA MissedFetch ==
  ASSUME PollTypeOK, LeftInv, NEW j \in Waiting(fetch)
  PROVE  /\ Missed(j) \in FetchJob /\ Missed(j).window = j.window
         /\ FetchId(Missed(j)) = FetchId(j)
         /\ Missed(j).status = "waiting" => Missed(j).tries < Attempts
<1>1. j \in FetchJob /\ j.tries \in Nat /\ j.tries < Attempts
  BY DEF PollTypeOK, LeftInv, Jobs, Waiting, FetchJob
<1>2. j.tries + 1 \in 0..Attempts /\ (j.tries + 1 # Attempts => j.tries + 1 < Attempts)
  BY <1>1, Sizes
<1>3. PICK s \in {"failed", "waiting"} :
        /\ Missed(j) = [j EXCEPT !.tries = @ + 1, !.status = s]
        /\ s = "waiting" => j.tries + 1 # Attempts
  BY DEF Missed
<1> QED
  BY <1>1, <1>2, <1>3 DEF FetchJob, FetchId, Status

LEMMA MissedBatch ==
  ASSUME PollTypeOK, LeftInv, NEW j \in Waiting(crm)
  PROVE  /\ Missed(j) \in Batch /\ Missed(j).window = j.window /\ Missed(j).items = j.items
         /\ BatchId(Missed(j)) = BatchId(j)
         /\ Missed(j).status = "waiting" => Missed(j).tries < Attempts
<1>1. j \in Batch /\ j.tries \in Nat /\ j.tries < Attempts
  BY DEF PollTypeOK, LeftInv, Jobs, Waiting, Batch
<1>2. j.tries + 1 \in 0..Attempts /\ (j.tries + 1 # Attempts => j.tries + 1 < Attempts)
  BY <1>1, Sizes
<1>3. PICK s \in {"failed", "waiting"} :
        /\ Missed(j) = [j EXCEPT !.tries = @ + 1, !.status = s]
        /\ s = "waiting" => j.tries + 1 # Attempts
  BY DEF Missed
<1> QED
  BY <1>1, <1>2, <1>3 DEF Batch, BatchId, Status

LEMMA WrittenTyped ==
  ASSUME PollTypeOK, NEW items
  PROVE  /\ Written(items) \in [Op -> 0..MaxDays + 1]
         /\ \A o \in Op : Written(items)[o] = created[o]
              \/ (o \in items /\ created[o] = 0 /\ Written(items)[o] = PortalDay)
<1>1. PortalDay \in 0..MaxDays + 1
  BY DEF PollTypeOK, PortalDay, Day
<1> QED
  BY <1>1 DEF PollTypeOK, Written

\* The steps of a fetch and of a batch, as far as the jobs are concerned.
FetchStep ==
  \/ \E p \in Portal : Poll(p) \/ PollNow(p)
  \/ \E j \in fetch : HandleFetch(j) \/ FetchFails(j)
CrmStep == \E b \in crm : HandleCrmSync(b) \/ CrmSyncFails(b)
SweepStep == SweepFetch \/ SweepCrm
EraseStep == StartErase \/ ErasePortal \/ EraseFails
WorldStep ==
  \/ \E o \in Op : Post(o)
  \/ \E p \in Portal : Pause(p) \/ Resume(p)
  \/ Evening \/ Midnight

LEMMA TypedStart == PollInit => Typed
<1> SUFFICES ASSUME PollInit PROVE Typed
  OBVIOUS
<1>1. day \in Day /\ faults \in 0..MaxFaults /\ asks \in 0..MaxAsks /\ cutoff \in 0..MaxDays + 1
  BY Sizes DEF PollInit, Day
<1>2. /\ bank \in [Op -> 0..MaxDays] /\ created \in [Op -> 0..MaxDays + 1]
      /\ asked \in [Portal -> SUBSET Day]
  BY Sizes DEF PollInit
<1>3. LeftInv
  BY DEF PollInit, LeftInv, Jobs, Waiting
<1> QED
  BY <1>1, <1>2, <1>3 DEF PollInit, Typed, PollTypeOK

LEMMA TypedWorld == ASSUME Typed, WorldStep PROVE Typed'
<1>1. UNCHANGED <<fetch, crm, created, trace, eraser, cutoff, erased, asked, faults, asks>>
  BY DEF WorldStep, Post, Pause, Resume, Evening, Midnight, queues, history
<1>2. LeftInv'
  BY <1>1 DEF Typed, LeftInv, Jobs, Waiting
<1>3. day' \in Day /\ evening' \in BOOLEAN /\ paused' \subseteq Portal
  <2>1. day' \in Day
    BY Sizes DEF WorldStep, Post, Pause, Resume, Evening, Midnight, Typed, PollTypeOK, Day
  <2>2. evening' \in BOOLEAN
    BY DEF WorldStep, Post, Pause, Resume, Evening, Midnight, Typed, PollTypeOK
  <2>3. paused' \subseteq Portal
    BY DEF WorldStep, Post, Pause, Resume, Evening, Midnight, Typed, PollTypeOK
  <2> QED
    BY <2>1, <2>2, <2>3
<1>4. bank' \in [Op -> 0..MaxDays]
  <2>1. CASE UNCHANGED bank
    BY <2>1 DEF Typed, PollTypeOK
  <2>2. ASSUME NEW o \in Op, Post(o) PROVE bank' \in [Op -> 0..MaxDays]
    <3>1. PICK d \in 1..day : bank' = [bank EXCEPT ![o] = d]
      BY <2>2 DEF Post
    <3>2. d \in 0..MaxDays
      BY <3>1 DEF Typed, PollTypeOK, Day
    <3> QED
      BY <3>1, <3>2 DEF Typed, PollTypeOK
  <2> QED
    BY <2>1, <2>2 DEF WorldStep, Pause, Resume, Evening, Midnight
<1> QED
  BY <1>1, <1>2, <1>3, <1>4 DEF Typed, PollTypeOK, FetchId, BatchId

LEMMA TypedFetch == ASSUME Typed, FetchStep PROVE Typed'
<1>0. PollTypeOK /\ LeftInv
  BY DEF Typed
<1>1. /\ UNCHANGED <<day, evening, bank, paused, created, eraser, cutoff, erased>>
      /\ trace' \subseteq Portal
  <2>1. \A j \in fetch : j.window.portal \in Portal
    BY <1>0 DEF PollTypeOK, FetchJob, Window
  <2> QED
    BY <1>0, <2>1 DEF FetchStep, Poll, PollNow, HandleFetch, FetchFails, world, history, PollTypeOK
<1>2. faults' \in 0..MaxFaults /\ asks' \in 0..MaxAsks
  BY <1>0 DEF FetchStep, Poll, PollNow, HandleFetch, FetchFails, PollTypeOK
<1>3. asked' \in [Portal -> SUBSET Day]
  <2>1. \A d \in 1..day : d \in Day
    BY <1>0 DEF PollTypeOK, Day
  <2>2. UNCHANGED asked
          \/ \E p \in Portal, d \in 1..day : asked' = [asked EXCEPT ![p] = @ \union {d}]
    BY DEF FetchStep, Poll, PollNow, HandleFetch, FetchFails, history
  <2> QED
    BY <1>0, <2>1, <2>2 DEF PollTypeOK
<1>4. /\ crm' \subseteq Batch
      /\ \A i, j \in crm' : BatchId(i) = BatchId(j) => i = j
      /\ \A j \in Waiting(crm)' : j.tries < Attempts
  <2>1. CASE UNCHANGED crm
    BY <1>0, <2>1 DEF PollTypeOK, LeftInv, Jobs, Waiting
  <2>2. ASSUME NEW j \in fetch, HandleFetch(j), Shown(j.window) # {},
               crm' = EnqueueCrmSync(BatchOf(j.window))
        PROVE  /\ crm' \subseteq Batch
               /\ \A i, k \in crm' : BatchId(i) = BatchId(k) => i = k
               /\ \A k \in Waiting(crm)' : k.tries < Attempts
    <3>1. j.window \in Window
      BY <1>0 DEF PollTypeOK, FetchJob
    <3>2. BatchOf(j.window) \in Batch /\ BatchOf(j.window).tries = 0
      BY <1>0, <2>2, <3>1, BatchTyped DEF BatchOf
    <3> QED
      BY <1>0, <2>2, <3>2, EnqueueCrmIs DEF LeftInv, Jobs, Waiting
  <2> QED
    BY <2>1, <2>2 DEF FetchStep, Poll, PollNow, HandleFetch, FetchFails
<1>5. /\ fetch' \subseteq FetchJob
      /\ \A i, j \in fetch' : FetchId(i) = FetchId(j) => i = j
      /\ \A j \in Waiting(fetch)' : j.tries < Attempts
  <2>1. ASSUME NEW w \in Window, NEW e \in 0..MaxAsks, fetch' = EnqueueFetch(FetchFor(w, e))
        PROVE  <1>5!1 /\ <1>5!2 /\ <1>5!3
    <3>1. FetchFor(w, e) \in FetchJob /\ FetchFor(w, e).tries = 0
      BY FetchForTyped
    <3> QED
      BY <1>0, <2>1, <3>1, EnqueueIs DEF LeftInv, Jobs, Waiting
  <2>2. ASSUME NEW p \in Portal, Poll(p) \/ PollNow(p) PROVE <1>5!1 /\ <1>5!2 /\ <1>5!3
    <3>1. asks \in 0..MaxAsks /\ 0 \in 0..MaxAsks /\ asks' \in 0..MaxAsks
      BY <1>0, <1>2 DEF PollTypeOK
    <3>2. \A d \in 1..day : [portal |-> p, from |-> d, to |-> d] \in Window
      BY <1>0 DEF PollTypeOK, Window, Day
    <3> QED
      BY <1>0, <2>1, <2>2, <3>1, <3>2, WindowTyped DEF Poll, PollNow
  <2>3. ASSUME NEW j \in fetch, HandleFetch(j) PROVE <1>5!1 /\ <1>5!2 /\ <1>5!3
    BY <1>0, <2>3 DEF HandleFetch, PollTypeOK, LeftInv, Jobs, Waiting
  <2>4. ASSUME NEW j \in fetch, FetchFails(j) PROVE <1>5!1 /\ <1>5!2 /\ <1>5!3
    <3>1. j \in Waiting(fetch) /\ fetch' = (fetch \ {j}) \union {Missed(j)}
      BY <2>4 DEF FetchFails
    <3> QED
      BY <1>0, <3>1, MissedFetch DEF PollTypeOK, LeftInv, Jobs, Waiting
  <2> QED
    BY <2>2, <2>3, <2>4 DEF FetchStep
<1> QED
  BY <1>0, <1>1, <1>2, <1>3, <1>4, <1>5 DEF Typed, PollTypeOK, LeftInv, Jobs

LEMMA TypedCrm == ASSUME Typed, CrmStep PROVE Typed'
<1>0. PollTypeOK /\ LeftInv
  BY DEF Typed
<1>1. PICK b \in crm : HandleCrmSync(b) \/ CrmSyncFails(b)
  BY DEF CrmStep
<1>2. b \in Waiting(crm) /\ b \in Batch /\ b.window.portal \in Portal
  BY <1>0, <1>1 DEF HandleCrmSync, CrmSyncFails, PollTypeOK, Batch, Window
<1>3. /\ UNCHANGED <<day, evening, bank, paused, fetch, eraser, cutoff, erased, asked, asks>>
      /\ trace' \subseteq Portal /\ faults' \in 0..MaxFaults
  BY <1>0, <1>1, <1>2 DEF HandleCrmSync, CrmSyncFails, world, history, PollTypeOK
<1>4. created' \in [Op -> 0..MaxDays + 1]
  BY <1>0, <1>1, WrittenTyped DEF HandleCrmSync, CrmSyncFails
<1>5. PICK c \in Batch :
        /\ crm' = (crm \ {b}) \union {c} /\ BatchId(c) = BatchId(b)
        /\ c.status = "waiting" => c.tries < Attempts
  <2>1. CASE HandleCrmSync(b)
    <3>1. [b EXCEPT !.status = "done"] \in Batch
      BY <1>2 DEF Batch, Status
    <3>2. BatchId([b EXCEPT !.status = "done"]) = BatchId(b)
      BY <1>2 DEF Batch, BatchId
    <3>3. [b EXCEPT !.status = "done"].status = "done"
      BY <1>2 DEF Batch
    <3> QED
      BY <2>1, <3>1, <3>2, <3>3 DEF HandleCrmSync
  <2>2. CASE CrmSyncFails(b)
    BY <1>0, <1>2, <2>2, MissedBatch DEF CrmSyncFails
  <2> QED
    BY <1>1, <2>1, <2>2
<1>6. /\ crm' \subseteq Batch
      /\ \A i, j \in crm' : BatchId(i) = BatchId(j) => i = j
      /\ \A j \in Waiting(crm)' : j.tries < Attempts
  BY <1>0, <1>1, <1>5 DEF PollTypeOK, LeftInv, Jobs, Waiting
<1>7. \A j \in Waiting(fetch)' : j.tries < Attempts
  BY <1>0, <1>3 DEF LeftInv, Jobs, Waiting
<1> QED
  BY <1>0, <1>3, <1>4, <1>6, <1>7 DEF Typed, PollTypeOK, LeftInv, Jobs, FetchId

LEMMA TypedSweep == ASSUME Typed, SweepStep PROVE Typed'
<1>1. /\ fetch' \subseteq fetch /\ crm' \subseteq crm
      /\ UNCHANGED <<day, evening, bank, paused, created, trace, eraser, cutoff, erased, asked,
                     faults, asks>>
  BY DEF SweepStep, SweepFetch, SweepCrm, world, history
<1>2. LeftInv'
  BY <1>1 DEF Typed, LeftInv, Jobs, Waiting
<1> QED
  BY <1>1, <1>2 DEF Typed, PollTypeOK, FetchId, BatchId

LEMMA TypedErase == ASSUME Typed, EraseStep PROVE Typed'
<1>0. PollTypeOK /\ LeftInv
  BY DEF Typed
<1>1. UNCHANGED <<day, evening, bank, paused, fetch, crm, trace, asked, asks>>
  BY DEF EraseStep, StartErase, ErasePortal, EraseFails, world, queues, history
<1>2. cutoff' \in 0..MaxDays + 1 /\ eraser' \subseteq Portal /\ faults' \in 0..MaxFaults
  <2>1. Cutoff \in 0..MaxDays + 1
    BY <1>0, Threshold, Sizes DEF Cutoff, PortalDay, PollTypeOK, Day
  <2>2. Candidates \subseteq Portal
    BY <1>0 DEF Candidates, PollTypeOK
  <2>3. 0 \in 0..MaxDays + 1
    BY Sizes
  <2> QED
    BY <1>0, <2>1, <2>2, <2>3 DEF EraseStep, StartErase, ErasePortal, EraseFails, PollTypeOK
<1>3. created' \in [Op -> 0..MaxDays + 1] /\ erased' \subseteq Op
  <2>1. \A ops : Without(ops) \in [Op -> 0..MaxDays + 1]
    BY <1>0, Sizes DEF Without, PollTypeOK
  <2>2. \A p : Erasable(p) \subseteq Op
    BY DEF Erasable
  <2> QED
    BY <1>0, <2>1, <2>2 DEF EraseStep, StartErase, ErasePortal, EraseFails, PollTypeOK, history
<1> QED
  BY <1>0, <1>1, <1>2, <1>3 DEF Typed, PollTypeOK, LeftInv, Jobs, Waiting, FetchId, BatchId

LEMMA Steps ==
  [PollNext]_pollVars => WorldStep \/ FetchStep \/ CrmStep \/ SweepStep \/ EraseStep \/ UNCHANGED pollVars
  BY DEF PollNext, WorldStep, FetchStep, CrmStep, SweepStep, EraseStep

LEMMA TypedAside == ASSUME Typed, UNCHANGED pollVars PROVE Typed'
<1>1. UNCHANGED <<day, evening, bank, paused, fetch, crm, created, trace, eraser, cutoff,
                  erased, asked, faults, asks>>
  BY DEF pollVars, world, queues, history
<1> QED
  BY <1>1 DEF Typed, PollTypeOK, LeftInv, Jobs, Waiting, FetchId, BatchId

LEMMA TypedStep == Typed /\ [PollNext]_pollVars => Typed'
  BY Steps, TypedWorld, TypedFetch, TypedCrm, TypedSweep, TypedErase, TypedAside

\* The days, the queues and the runs of the erasure are of their types, and no
\* two jobs of a queue share an id.
THEOREM PollTypeCorrect == PollSpec => []PollTypeOK
<1>1. Typed => PollTypeOK
  BY DEF Typed
<1> QED
  BY <1>1, TypedStart, TypedStep, PTL DEF PollSpec

----------------------------------------------------------------------------
LEMMA DatedStep ==
  ASSUME Typed, DatedInv, ItemInv, [PollNext]_pollVars PROVE DatedInv'
<1>0. /\ day \in Nat /\ bank \in [Op -> Nat] /\ created \in [Op -> Nat]
      /\ PortalDay \in Nat /\ PortalDay # 0 /\ day <= PortalDay
  BY Sizes DEF Typed, PollTypeOK, Day, PortalDay
<1>1. ASSUME day <= day', day' \in Nat, UNCHANGED <<bank, created>> PROVE DatedInv'
  BY <1>0, <1>1 DEF DatedInv
<1>2. CASE WorldStep
  <2>1. ASSUME NEW o \in Op, Post(o) PROVE DatedInv'
    BY <1>0, <2>1 DEF Post, DatedInv
  <2> QED
    BY <1>0, <1>1, <1>2, <2>1 DEF WorldStep, Pause, Resume, Evening, Midnight
<1>3. CASE FetchStep
  BY <1>0, <1>1, <1>3 DEF FetchStep, Poll, PollNow, HandleFetch, FetchFails, world
<1>4. CASE CrmStep
  <2>1. PICK b \in crm : HandleCrmSync(b) \/ CrmSyncFails(b)
    BY <1>4 DEF CrmStep
  <2>2. PICK items \in SUBSET b.items : created' = Written(items)
    BY <2>1 DEF HandleCrmSync, CrmSyncFails
  <2>3. b \in Waiting(crm) /\ UNCHANGED <<day, bank>>
    BY <2>1 DEF HandleCrmSync, CrmSyncFails, world
  <2>4. \A o \in items : bank[o] # 0
    BY <2>2, <2>3 DEF ItemInv
  <2>5. \A o \in Op : created'[o] = created[o] \/ (o \in items /\ created'[o] = PortalDay)
    BY <2>2, WrittenTyped DEF Typed
  <2> QED
    BY <1>0, <2>3, <2>4, <2>5 DEF DatedInv
<1>5. CASE SweepStep
  BY <1>0, <1>1, <1>5 DEF SweepStep, SweepFetch, SweepCrm, world
<1>6. CASE EraseStep
  <2>1. /\ UNCHANGED <<day, bank>>
        /\ created' = created \/ \E ops : created' = Without(ops)
    BY <1>6 DEF EraseStep, StartErase, ErasePortal, EraseFails, world
  <2>2. \A o \in Op : created'[o] \in {0, created[o]}
    BY <2>1 DEF Without
  <2> QED
    BY <1>0, <2>1, <2>2 DEF DatedInv
<1>7. CASE UNCHANGED pollVars
  BY <1>0, <1>1, <1>7 DEF pollVars, world
<1> QED
  BY <1>2, <1>3, <1>4, <1>5, <1>6, <1>7, Steps

\* The windows of the jobs that wait: none is new, or the one that is new is
\* about today or was asked for, or has been handed on.
LEMMA WindowAside ==
  ASSUME WindowInv, UNCHANGED <<day, asked>>, Jobs' \subseteq Jobs
  PROVE  WindowInv'
  BY DEF WindowInv, Recent, ByHand

LEMMA WindowStep ==
  ASSUME Typed, WindowInv, [PollNext]_pollVars PROVE WindowInv'
<1>0. PollTypeOK /\ day \in Nat
  BY DEF Typed, PollTypeOK, Day
<1>1. \A j \in Jobs : j.window.from \in Nat /\ j.window.to \in Nat /\ j.window.portal \in Portal
  BY <1>0 DEF PollTypeOK, Jobs, Waiting, FetchJob, Batch, Window, Day
<1>2. CASE WorldStep
  <2>1. UNCHANGED <<fetch, crm, asked>> /\ Jobs' = Jobs
    BY <1>2 DEF WorldStep, Post, Pause, Resume, Evening, Midnight, queues, history, Jobs, Waiting
  <2>2. CASE UNCHANGED day
    BY <2>1, <2>2, WindowAside
  <2>3. CASE Midnight
    <3>1. day' = day + 1
      BY <2>3 DEF Midnight
    <3>2. ASSUME NEW j \in Jobs, Recent(j.window) PROVE Recent(j.window)'
      BY <1>0, <1>1, <3>1, <3>2, Sizes DEF Recent
    <3> QED
      BY <2>1, <3>2 DEF WindowInv, ByHand
  <2> QED
    BY <1>2, <2>2, <2>3 DEF WorldStep, Post, Pause, Resume, Evening
<1>3. CASE FetchStep
  <2>1. day' = day
    BY <1>3 DEF FetchStep, Poll, PollNow, HandleFetch, FetchFails, world
  <2>2. ASSUME NEW w \in Window, NEW e, UNCHANGED <<crm, day>>,
               fetch' = EnqueueFetch(FetchFor(w, e)),
               \A p \in Portal : asked[p] \subseteq asked'[p],
               Recent(w) \/ ByHand(w)'
        PROVE  WindowInv'
    <3>1. \A j \in Jobs' : j \in Jobs \/ j.window = w
      BY <2>2 DEF Jobs, Waiting, EnqueueFetch, FetchFor
    <3> QED
      BY <1>1, <2>2, <3>1 DEF WindowInv, Recent, ByHand
  <2>3. ASSUME NEW p \in Portal, Poll(p) PROVE WindowInv'
    <3>1. fetch' = EnqueueFetch(FetchFor(PollWindow(p), 0)) /\ UNCHANGED <<crm, day, asked>>
      BY <2>3 DEF Poll, world, history
    <3> QED
      BY <1>0, <2>2, <3>1, WindowTyped
  <2>4. ASSUME NEW p \in Portal, PollNow(p) PROVE WindowInv'
    <3>1. UNCHANGED <<crm, day>>
      BY <2>4 DEF PollNow, world
    <3>2. CASE fetch' = EnqueueFetch(FetchFor(PollWindow(p), asks')) /\ asked' = asked
      BY <1>0, <2>2, <3>1, <3>2, WindowTyped
    <3>3. ASSUME NEW d \in 1..day,
                 fetch' = EnqueueFetch(FetchFor([portal |-> p, from |-> d, to |-> d], asks')),
                 asked' = [asked EXCEPT ![p] = @ \union {d}]
          PROVE  WindowInv'
      <4>1. [portal |-> p, from |-> d, to |-> d] \in Window
        BY <1>0 DEF PollTypeOK, Window, Day
      <4>2. asked \in [Portal -> SUBSET Day]
        BY <1>0 DEF PollTypeOK
      <4>3. ByHand([portal |-> p, from |-> d, to |-> d])'
        BY <3>3, <4>2 DEF ByHand
      <4>4. \A q \in Portal : asked[q] \subseteq asked'[q]
        BY <3>3, <4>2
      <4> QED
        BY <2>2, <3>1, <3>3, <4>1, <4>3, <4>4
    <3> QED
      BY <2>4, <3>2, <3>3 DEF PollNow
  <2>5. ASSUME NEW j \in fetch, HandleFetch(j) PROVE WindowInv'
    <3>1. j \in Jobs /\ UNCHANGED asked
      BY <2>5 DEF HandleFetch, Jobs, history
    <3>2. ASSUME NEW k \in Jobs' PROVE k \in Jobs \/ k.window = j.window
      BY <2>5, <3>2 DEF HandleFetch, Jobs, Waiting, EnqueueCrmSync, UnstickFailedOnly, BatchOf
    <3> QED
      BY <2>1, <3>1, <3>2 DEF WindowInv, Recent, ByHand
  <2>6. ASSUME NEW j \in fetch, FetchFails(j) PROVE WindowInv'
    <3>1. j \in Jobs /\ j \in Waiting(fetch) /\ UNCHANGED asked
      BY <2>6 DEF FetchFails, Jobs, history
    <3>2. ASSUME NEW k \in Jobs' PROVE k \in Jobs \/ k.window = j.window
      BY <2>6, <3>1, <3>2, MissedFetch DEF FetchFails, Jobs, Waiting, Typed
    <3> QED
      BY <2>1, <3>1, <3>2 DEF WindowInv, Recent, ByHand
  <2> QED
    BY <1>3, <2>3, <2>4, <2>5, <2>6 DEF FetchStep
<1>4. CASE CrmStep
  <2>1. PICK b \in crm : HandleCrmSync(b) \/ CrmSyncFails(b)
    BY <1>4 DEF CrmStep
  <2>2. b \in Jobs /\ b \in Waiting(crm) /\ UNCHANGED <<day, asked>>
    BY <2>1 DEF HandleCrmSync, CrmSyncFails, world, history, Jobs
  <2>3. ASSUME NEW k \in Jobs' PROVE k \in Jobs \/ k.window = b.window
    <3>1. CASE HandleCrmSync(b)
      <4>1. [b EXCEPT !.status = "done"].status = "done"
        BY <2>2 DEF Typed, PollTypeOK, Waiting, Batch
      <4> QED
        BY <2>3, <3>1, <4>1 DEF HandleCrmSync, Jobs, Waiting
    <3>2. CASE CrmSyncFails(b)
      BY <2>2, <2>3, <3>2, MissedBatch DEF CrmSyncFails, Jobs, Waiting, Typed
    <3> QED
      BY <2>1, <3>1, <3>2
  <2> QED
    BY <2>2, <2>3 DEF WindowInv, Recent, ByHand
<1>5. CASE SweepStep
  <2>1. UNCHANGED <<day, asked>> /\ Jobs' \subseteq Jobs
    BY <1>5 DEF SweepStep, SweepFetch, SweepCrm, world, history, Jobs, Waiting
  <2> QED
    BY <2>1, WindowAside
<1>6. CASE EraseStep \/ UNCHANGED pollVars
  <2>1. UNCHANGED <<day, asked, fetch, crm>>
    BY <1>6 DEF EraseStep, StartErase, ErasePortal, EraseFails, pollVars, world, queues, history
  <2> QED
    BY <2>1, WindowAside DEF Jobs, Waiting
<1> QED
  BY <1>2, <1>3, <1>4, <1>5, <1>6, Steps

LEMMA ItemStep ==
  ASSUME Typed, ItemInv, [PollNext]_pollVars PROVE ItemInv'
<1>0. PollTypeOK
  BY DEF Typed
<1>1. \A b \in Waiting(crm) : b.items \subseteq Op /\ b.window \in Window
  BY <1>0 DEF PollTypeOK, Waiting, Batch
<1>2. ASSUME \A o \in Op : bank[o] # 0 => bank'[o] = bank[o],
             \A b \in Waiting(crm)' : \E c \in Waiting(crm) :
               b.window = c.window /\ b.items = c.items
      PROVE  ItemInv'
  BY <1>1, <1>2 DEF ItemInv
<1>3. CASE WorldStep
  <2>1. Waiting(crm)' = Waiting(crm)
    BY <1>3 DEF WorldStep, Post, Pause, Resume, Evening, Midnight, queues, Waiting
  <2>2. \A o \in Op : bank[o] # 0 => bank'[o] = bank[o]
    BY <1>0, <1>3 DEF WorldStep, Post, Pause, Resume, Evening, Midnight, PollTypeOK
  <2> QED
    BY <1>2, <2>1, <2>2
<1>4. CASE FetchStep
  <2>1. UNCHANGED bank
    BY <1>4 DEF FetchStep, Poll, PollNow, HandleFetch, FetchFails, world
  <2>2. CASE UNCHANGED crm
    BY <1>2, <2>1, <2>2 DEF Waiting
  <2>3. ASSUME NEW j \in fetch, crm' = EnqueueCrmSync(BatchOf(j.window)) PROVE ItemInv'
    <3>1. j.window \in Window
      BY <1>0 DEF PollTypeOK, FetchJob
    <3>2. ASSUME NEW b \in Waiting(crm)'
          PROVE  b \in Waiting(crm) \/ (b.window = j.window /\ b.items = Shown(j.window))
      BY <2>3, <3>2 DEF Waiting, EnqueueCrmSync, UnstickFailedOnly, BatchOf
    <3> QED
      BY <1>0, <2>1, <3>1, <3>2, ShownIs DEF ItemInv
  <2> QED
    BY <1>4, <2>2, <2>3 DEF FetchStep, Poll, PollNow, HandleFetch, FetchFails
<1>5. CASE CrmStep
  <2>1. PICK b \in crm : HandleCrmSync(b) \/ CrmSyncFails(b)
    BY <1>5 DEF CrmStep
  <2>2. b \in Waiting(crm) /\ UNCHANGED bank
    BY <2>1 DEF HandleCrmSync, CrmSyncFails, world
  <2>3. ASSUME NEW k \in Waiting(crm)'
        PROVE  k \in Waiting(crm) \/ (k.window = b.window /\ k.items = b.items)
    <3>1. CASE HandleCrmSync(b)
      <4>1. [b EXCEPT !.status = "done"].status = "done"
        BY <1>0, <2>2 DEF PollTypeOK, Waiting, Batch
      <4> QED
        BY <2>3, <3>1, <4>1 DEF HandleCrmSync, Waiting
    <3>2. CASE CrmSyncFails(b)
      BY <2>2, <2>3, <3>2, MissedBatch DEF CrmSyncFails, Waiting, Typed
    <3> QED
      BY <2>1, <3>1, <3>2
  <2> QED
    BY <1>2, <2>2, <2>3
<1>6. CASE SweepStep \/ EraseStep \/ UNCHANGED pollVars
  <2>1. UNCHANGED bank /\ Waiting(crm)' \subseteq Waiting(crm)
    BY <1>6 DEF SweepStep, SweepFetch, SweepCrm, EraseStep, StartErase, ErasePortal, EraseFails,
                pollVars, world, queues, Waiting
  <2> QED
    BY <1>2, <2>1
<1> QED
  BY <1>3, <1>4, <1>5, <1>6, Steps

LEMMA ErasedStep ==
  ASSUME Lookback + Grace <= MaxTerm,
         Typed, DatedInv, CutoffInv, ErasedInv, [PollNext]_pollVars
  PROVE  CutoffInv' /\ ErasedInv'
<1>0. /\ day \in Nat /\ bank \in [Op -> Nat] /\ created \in [Op -> Nat] /\ cutoff \in Nat
      /\ PortalDay \in Nat /\ PortalDay <= day + 1 /\ erased \subseteq Op
  BY Sizes DEF Typed, PollTypeOK, Day, PortalDay
<1>1. ASSUME UNCHANGED <<eraser, cutoff, erased>>, day' \in Nat, day <= day',
             \A o \in Op : bank[o] # 0 => bank'[o] = bank[o]
      PROVE  CutoffInv' /\ ErasedInv'
  <2>1. ASSUME eraser # {} PROVE cutoff + Lookback + Grace <= day' + 1
    <3>1. cutoff + Lookback + Grace <= day + 1 /\ cutoff + Lookback + Grace \in Nat
      BY <1>0, <2>1, Sizes DEF CutoffInv
    <3>2. cutoff + Lookback + Grace <= day' + 1
      BY <1>0, <1>1, <3>1
    <3> QED
      BY <3>2
  <2>2. ASSUME NEW o \in erased PROVE bank'[o] # 0 /\ bank'[o] + Lookback + Grace <= day'
    <3>1. bank[o] # 0 /\ bank[o] + Lookback + Grace <= day /\ bank'[o] = bank[o] /\ bank[o] \in Nat
      BY <1>0, <1>1 DEF ErasedInv
    <3> QED
      BY <1>0, <1>1, <3>1, Sizes
  <2> QED
    BY <1>1, <2>1, <2>2 DEF CutoffInv, ErasedInv
<1>2. CASE WorldStep
  <2>1. UNCHANGED <<eraser, cutoff, erased>> /\ day' \in Nat /\ day <= day'
    BY <1>0, <1>2 DEF WorldStep, Post, Pause, Resume, Evening, Midnight, history
  <2>2. \A o \in Op : bank[o] # 0 => bank'[o] = bank[o]
    BY <1>0, <1>2 DEF WorldStep, Post, Pause, Resume, Evening, Midnight
  <2> QED
    BY <1>1, <2>1, <2>2
<1>3. CASE FetchStep \/ CrmStep \/ SweepStep \/ UNCHANGED pollVars
  <2>1. UNCHANGED <<eraser, cutoff, erased, day, bank>>
    BY <1>3 DEF FetchStep, Poll, PollNow, HandleFetch, FetchFails, CrmStep, HandleCrmSync,
                CrmSyncFails, SweepStep, SweepFetch, SweepCrm, pollVars, world, history
  <2> QED
    BY <1>0, <1>1, <2>1
<1>4. CASE StartErase
  <2>1. UNCHANGED <<day, bank, erased>> /\ cutoff' = Cutoff /\ Cutoff > 1
    BY <1>4 DEF StartErase, world, history
  <2>2. Cutoff + Lookback + Grace <= day + 1
    BY <1>0, <2>1, Threshold, Sizes DEF Cutoff
  <2> QED
    BY <2>1, <2>2 DEF CutoffInv, ErasedInv
<1>5. CASE ErasePortal \/ EraseFails
  <2>1. /\ UNCHANGED <<day, bank>> /\ eraser # {}
        /\ eraser' # {} => cutoff' = cutoff
        /\ erased' \subseteq erased \union Erasable(Min(eraser))
    BY <1>5 DEF ErasePortal, EraseFails, world
  <2>2. ASSUME NEW o \in Erasable(Min(eraser))
        PROVE  o \in Op /\ bank[o] # 0 /\ bank[o] + Lookback + Grace <= day
    <3>1. o \in Op /\ created[o] # 0 /\ created[o] < cutoff
      BY DEF Erasable
    <3>2. cutoff + Lookback + Grace <= day + 1 /\ bank[o] # 0 /\ bank[o] <= created[o]
      BY <2>1, <3>1 DEF CutoffInv, DatedInv
    <3>3. bank[o] \in Nat /\ created[o] \in Nat
      BY <1>0, <3>1
    <3> QED
      BY <1>0, <3>1, <3>2, <3>3, Sizes
  <2> QED
    BY <2>1, <2>2 DEF CutoffInv, ErasedInv
<1> QED
  BY <1>2, <1>3, <1>4, <1>5, Steps DEF EraseStep

EraseInv == Typed /\ DatedInv /\ WindowInv /\ ItemInv /\ CutoffInv /\ ErasedInv

LEMMA EraseStart == PollInit => EraseInv
<1> SUFFICES ASSUME PollInit PROVE EraseInv
  OBVIOUS
<1>1. DatedInv /\ WindowInv /\ ItemInv /\ CutoffInv /\ ErasedInv
  BY DEF PollInit, DatedInv, WindowInv, ItemInv, CutoffInv, ErasedInv, Jobs, Waiting
<1> QED
  BY <1>1, TypedStart DEF EraseInv

LEMMA EraseKept ==
  ASSUME Lookback + Grace <= MaxTerm PROVE EraseInv /\ [PollNext]_pollVars => EraseInv'
  BY TypedStep, DatedStep, WindowStep, ItemStep, ErasedStep DEF EraseInv

\* A batch that may still write an operation that was erased was asked for, or
\* has waited for the grace.
LEMMA NotAgain ==
  ASSUME EraseInv, [PollNext]_pollVars, NEW o \in erased,
         created[o] = 0, created'[o] # 0
  PROVE  AskedFor(o) \/ TooLate(o)
<1>0. /\ day \in Nat /\ bank \in [Op -> Nat] /\ created \in [Op -> Nat] /\ o \in Op
  BY Sizes DEF EraseInv, Typed, PollTypeOK, Day
<1>1. CrmStep
  <2>1. CASE WorldStep \/ FetchStep \/ SweepStep \/ UNCHANGED pollVars
    <3>1. UNCHANGED created
      BY <2>1 DEF WorldStep, Post, Pause, Resume, Evening, Midnight, FetchStep, Poll, PollNow,
                  HandleFetch, FetchFails, SweepStep, SweepFetch, SweepCrm, pollVars
    <3> QED
      BY <3>1
  <2>2. CASE EraseStep
    <3>1. created' = created \/ \E ops : created' = Without(ops)
      BY <2>2 DEF EraseStep, StartErase, ErasePortal, EraseFails
    <3> QED
      BY <1>0, <3>1 DEF Without
  <2> QED
    BY <2>1, <2>2, Steps
<1>2. PICK b \in crm : HandleCrmSync(b) \/ CrmSyncFails(b)
  BY <1>1 DEF CrmStep
<1>3. PICK items \in SUBSET b.items : created' = Written(items)
  BY <1>2 DEF HandleCrmSync, CrmSyncFails
<1>4. b \in Waiting(crm) /\ b \in Jobs /\ o \in b.items
  BY <1>0, <1>2, <1>3 DEF HandleCrmSync, CrmSyncFails, Jobs, Written
<1>5. /\ Of[o] = b.window.portal /\ b.window.from <= bank[o] /\ bank[o] <= b.window.to
      /\ b.window.from \in Nat /\ b.window.to \in Nat
  BY <1>4 DEF EraseInv, ItemInv, Typed, PollTypeOK, Batch, Window, Day, Waiting
<1>6. bank[o] \in Nat /\ bank[o] + Lookback + Grace <= day
  BY <1>0 DEF EraseInv, ErasedInv
<1>7. b \notin crm'
  <2>1. b \in Batch /\ b.tries \in Nat /\ b.status = "waiting"
    BY <1>4 DEF EraseInv, Typed, PollTypeOK, Waiting, Batch
  <2>2. [b EXCEPT !.status = "done"] # b
    BY <2>1 DEF Batch
  <2>3. Missed(b) # b
    <3>1. Missed(b).tries = b.tries + 1
      BY <2>1 DEF Missed, Batch
    <3> QED
      BY <2>1, <3>1
  <2> QED
    BY <1>2, <2>2, <2>3 DEF HandleCrmSync, CrmSyncFails
<1>8. CASE Recent(b.window)
  <2>1. b.window.to + Grace <= day
    BY <1>0, <1>5, <1>6, <1>8, Sizes DEF Recent
  <2> QED
    BY <1>4, <1>7, <2>1 DEF TooLate
<1>9. CASE ByHand(b.window)
  <2>1. bank[o] = b.window.to
    BY <1>5, <1>6, <1>9 DEF ByHand
  <2> QED
    BY <1>5, <1>9, <2>1 DEF ByHand, AskedFor
<1> QED
  BY <1>4, <1>8, <1>9 DEF EraseInv, WindowInv

\* An erased activity does not come back by itself, however far apart the two
\* calendars are, whatever fails and however long the jobs wait, for every window
\* the cap of the term leaves room for: only a person who asks for its day, or a
\* batch written when the grace after its window is over, brings it back
\* (autoEraseActivities.ts:46-62, cronPoll.ts).
THEOREM NoneComesBack ==
  ASSUME Lookback + Grace <= MaxTerm
  PROVE  PollSpec => ErasedStaysErased
<1>1. EraseInv /\ [PollNext]_pollVars =>
        \A o \in erased : created[o] = 0 /\ created'[o] # 0 => AskedFor(o) \/ TooLate(o)
  BY NotAgain
<1> QED
  BY <1>1, EraseStart, EraseKept, PTL DEF PollSpec, ErasedStaysErased
=============================================================================

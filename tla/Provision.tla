----------------------------- MODULE Provision -----------------------------
(***************************************************************************)
(* The set-up of the two smart processes of the ledger: the registry of    *)
(* payments and the distributions (distributionSpProvision.ts), run under  *)
(* the lease of the portal by an administrator's button and by the install *)
(* page.  A run creates the types that are missing, then their fields,     *)
(* lays out the card of a payment for everybody, and stores the two ids in *)
(* the settings of the portal - the same blob of app.option that the form  *)
(* of the settings writes without any lease.                               *)
(*                                                                         *)
(* A type is the number of the run that created it (Old: it was there).    *)
(* Every REST call may fail before or after it took effect.                *)
(***************************************************************************)
EXTENDS Lease

CONSTANTS
    Field,       \* the user fields each of the two types must have
    MaxSaves     \* bound: saves of the settings form

ASSUME ProvisionAssumption == MaxSaves \in Nat

VARIABLES
    types,     \* the types of each title in the CRM of the portal
    has,       \* the user fields of each type
    layout,    \* the common layout of the card is the one of the application
    personal,  \* an employee sees a layout of his own, older than ours
    store,     \* the settings blob: the two ids, and what the form edits
    at,        \* the next call of each run
    ref,       \* the types each run has found or created; 0: none yet
    todo,      \* the fields a run has found missing
    failed,    \* the runs that could not add some field
    fresh,     \* the settings a run has read just before it stores the ids
    card,      \* the runs that report the card as laid out for everybody
    result,    \* the answer of each run
    form,      \* the route of the settings form is about to write
    base,      \* the settings the form's route has read to merge with
    saves,     \* forms saved so far
    crossed,   \* the runs that were about to store the ids when the form's part changed
    together   \* two runs have been inside at the same time

portal == <<types, has, layout, personal>>
locals == <<at, ref, todo, failed, fresh, card, result>>
formVars == <<form, base, saves, crossed>>
vars == <<leaseVars, portal, store, locals, formVars, together>>

Sp == {"payment", "distribution"}
Old == MaxRuns + 1
Type == Run \union {Old}
Settings == [sp : [Sp -> {0} \union Type], form : 0..MaxSaves]
Call == {"none", "load", "list", "create", "fields", "add",
         "card", "set", "force", "reload", "save", "end"}
Step == [call : Call, sp : Sp]

Go(call, sp) == [call |-> call, sp |-> sp]
Nowhere == Go("none", "payment")
Blank == [sp |-> [x \in Sp |-> 0], form |-> 0]

TypeOK ==
    /\ LeaseTypeOK
    /\ types \in [Sp -> SUBSET Type]
    /\ has \in [Sp -> [Type -> SUBSET Field]]
    /\ layout \in BOOLEAN /\ personal \in BOOLEAN
    /\ store \in Settings
    /\ at \in [Run -> Step]
    /\ ref \in [Run -> [Sp -> {0} \union Type]]
    /\ todo \in [Run -> SUBSET Field]
    /\ failed \subseteq Run
    /\ fresh \in [Run -> Settings]
    /\ card \subseteq Run
    /\ result \in [Run -> {"none", "ok", "error"}]
    /\ form \in BOOLEAN
    /\ base \in Settings
    /\ saves \in 0..MaxSaves
    /\ crossed \subseteq Run
    /\ together \in BOOLEAN

(***************************************************************************)
(* The portal may keep the types of an earlier installation, made by a     *)
(* version with fewer fields; their ids are still stored or were erased    *)
(* with the settings.                                                      *)
(***************************************************************************)
Init ==
    /\ LeaseInit
    /\ \E old, stored \in BOOLEAN :
          /\ stored => old
          /\ types = [x \in Sp |-> IF old THEN {Old} ELSE {}]
          /\ store = [Blank EXCEPT !.sp =
                         [x \in Sp |-> IF stored THEN Old ELSE 0]]
    /\ has = [x \in Sp |-> [t \in Type |-> {}]]
    /\ layout = FALSE
    /\ personal = TRUE
    /\ at = [r \in Run |-> Nowhere]
    /\ ref = [r \in Run |-> Blank.sp]
    /\ todo = [r \in Run |-> {}]
    /\ failed = {}
    /\ fresh = [r \in Run |-> Blank]
    /\ card = {}
    /\ result = [r \in Run |-> "none"]
    /\ form = FALSE
    /\ base = Blank
    /\ saves = 0
    /\ crossed = {}
    /\ together = FALSE

-----------------------------------------------------------------------------
(***************************************************************************)
(* The request, the lease and the end of a run.                            *)
(***************************************************************************)
Begin(r) ==
    /\ Enter(r)
    /\ at' = [at EXCEPT ![r] = Go("load", "payment")]
    /\ together' = (together \/ Inside # {})
    /\ UNCHANGED <<portal, store, ref, todo, failed, fresh, card, result,
                   formVars>>

Rejected(r) ==
    /\ TurnedAway(r) \/ Refused(r)
    /\ UNCHANGED <<portal, store, locals, formVars, together>>

\* What the run kept in memory goes with it.
Forget(r) ==
    /\ at' = [at EXCEPT ![r] = Nowhere]
    /\ todo' = [todo EXCEPT ![r] = {}]
    /\ fresh' = [fresh EXCEPT ![r] = Blank]
    /\ ref' = [ref EXCEPT ![r] = IF result[r] = "ok" THEN @ ELSE Blank.sp]
    /\ UNCHANGED <<failed, card, result>>

End(r) ==
    /\ at[r].call = "end"
    /\ Leave(r)
    /\ Forget(r)
    /\ UNCHANGED <<portal, store, formVars, together>>

Dies(r) ==
    /\ Crash(r)
    /\ Forget(r)
    /\ UNCHANGED <<portal, store, formVars, together>>

Around ==
    /\ (\E r \in Run : Renew(r) \/ Miss(r)) \/ Tick
    /\ UNCHANGED <<portal, store, locals, formVars, together>>

CloseForm == form' = FALSE /\ base' = Blank

(***************************************************************************)
(* The application is removed and installed again: its rows go, and so do  *)
(* its grant - the next call of a run that is inside is refused - and the  *)
(* form.  The types stay in the CRM; the settings may go or stay.          *)
(***************************************************************************)
Reinstall ==
    /\ Purge
    /\ store' \in {store, Blank}
    /\ at' = [r \in Run |-> IF r \in Inside THEN Go("end", "payment") ELSE at[r]]
    /\ result' = [r \in Run |-> IF r \in Inside /\ at[r].call # "end"
                                THEN "error" ELSE result[r]]
    /\ CloseForm
    /\ UNCHANGED <<portal, ref, todo, failed, fresh, card, saves,
                   crossed, together>>

\* The run has its chance to make the call it stands at.
Makes(r, call) == stage[r] = "in" /\ at[r].call = call

\* A call that fails ends the run with an error; the lease is given back.
Throws(r) ==
    /\ at' = [at EXCEPT ![r] = Go("end", "payment")]
    /\ result' = [result EXCEPT ![r] = "error"]

-----------------------------------------------------------------------------
(***************************************************************************)
(* handleProvisionDistribution: the ids that are stored are taken as they  *)
(* are; only if one is missing are the types of the portal listed, and     *)
(* one that has the title is taken for ours.                               *)
(***************************************************************************)
Load(r) ==
    /\ Makes(r, "load")
    /\ ref' = [ref EXCEPT ![r] = store.sp]
    /\ fresh' = [fresh EXCEPT ![r] = store]
    /\ at' = [at EXCEPT ![r] = IF \E x \in Sp : store.sp[x] = 0
                               THEN Go("list", "payment")
                               ELSE Go("fields", "payment")]
    /\ UNCHANGED <<leaseVars, portal, store, todo, failed, card, result,
                   formVars, together>>

\* ensureSp: the registry of payments first, then the distributions.
ToCreate(refs) ==
    CASE refs["payment"] = 0      -> Go("create", "payment")
      [] refs["distribution"] = 0 -> Go("create", "distribution")
      [] OTHER                    -> Go("fields", "payment")

MutantOfTitled(x, id) == {id}   \* created without a look at the portal
Titled(x, id) ==
    IF id # 0 THEN {id} ELSE IF types[x] = {} THEN {0} ELSE types[x]

List(r) ==
    /\ Makes(r, "list")
    /\ \E refs \in [Sp -> {0} \union Type] :
          /\ \A x \in Sp : refs[x] \in Titled(x, ref[r][x])
          /\ ref' = [ref EXCEPT ![r] = refs]
          /\ at' = [at EXCEPT ![r] = ToCreate(refs)]
    /\ UNCHANGED <<leaseVars, portal, store, todo, failed, fresh, card, result,
                   formVars, together>>

\* crm.type.add; its answer may be lost.
Create(r) ==
    /\ Makes(r, "create")
    /\ LET x == at[r].sp IN
       /\ types' = [types EXCEPT ![x] = @ \union {r}]
       /\ \/ /\ ref' = [ref EXCEPT ![r][x] = r]
             /\ at' = [at EXCEPT ![r] = ToCreate(ref'[r])]
             /\ UNCHANGED <<result, mishaps>>
          \/ Throws(r) /\ Mishap /\ UNCHANGED ref
    /\ UNCHANGED <<leaseCore, has, layout, personal, store, todo, failed, fresh,
                   card, formVars, together>>

(***************************************************************************)
(* ensureFields: what is missing is added field by field; a field that     *)
(* cannot be added does not stop the others, but the run ends in an error. *)
(***************************************************************************)
Missing(r) == Field \ has[at[r].sp][ref[r][at[r].sp]]

AfterFields(sp) ==
    IF sp = "payment" THEN Go("fields", "distribution") ELSE Go("card", "payment")

ListFields(r) ==
    /\ Makes(r, "fields")
    /\ todo' = [todo EXCEPT ![r] = Missing(r)]
    /\ at' = [at EXCEPT ![r] =
                IF Missing(r) = {} THEN AfterFields(@.sp) ELSE Go("add", @.sp)]
    /\ UNCHANGED <<leaseVars, portal, store, ref, failed, fresh, card, result,
                   formVars, together>>

AddField(r) ==
    /\ Makes(r, "add")
    /\ LET x == at[r].sp
           t == ref[r][x]
       IN
       \E f \in todo[r] :
          /\ todo' = [todo EXCEPT ![r] = @ \ {f}]
          /\ \/ /\ has' = [has EXCEPT ![x][t] = @ \union {f}]
                /\ UNCHANGED <<failed, mishaps>>
             \/ /\ Mishap
                /\ failed' = failed \union {r}
                /\ has' \in {has, [has EXCEPT ![x][t] = @ \union {f}]}
    /\ UNCHANGED <<leaseCore, types, layout, personal, store, at, ref, fresh,
                   card, result, formVars, together>>

\* Whether the run goes on after it has tried the fields of a type.
MutantOfComplete(r) == TRUE   \* a field that failed is only logged
Complete(r) == r \notin failed

FieldsTried(r) ==
    /\ Makes(r, "add")
    /\ todo[r] = {}
    /\ IF Complete(r)
       THEN at' = [at EXCEPT ![r] = AfterFields(@.sp)] /\ UNCHANGED result
       ELSE Throws(r)
    /\ UNCHANGED <<leaseVars, portal, store, ref, todo, failed, fresh, card,
                   formVars, together>>

-----------------------------------------------------------------------------
(***************************************************************************)
(* The card, by best effort: a layout that is ours already is left alone,  *)
(* since forcing the common one erases the layouts of the employees.  A    *)
(* read that fails counts as "not ours".                                   *)
(***************************************************************************)
ReadCard(r) ==
    /\ Makes(r, "card")
    /\ \/ /\ layout
          /\ at' = [at EXCEPT ![r] = Go("reload", "payment")]
          /\ card' = card \union {r}
          /\ UNCHANGED mishaps
       \/ /\ at' = [at EXCEPT ![r] = Go("set", "payment")]
          /\ (~layout /\ UNCHANGED mishaps) \/ Mishap
          /\ UNCHANGED card
    /\ UNCHANGED <<leaseCore, portal, store, ref, todo, failed,
                   fresh, result, formVars, together>>

SetCard(r) ==
    /\ Makes(r, "set")
    /\ \/ /\ layout' = TRUE
          /\ at' = [at EXCEPT ![r] = Go("force", "payment")]
          /\ UNCHANGED mishaps
       \/ /\ Mishap
          /\ layout' \in {layout, TRUE}
          /\ at' = [at EXCEPT ![r] = Go("reload", "payment")]
    /\ UNCHANGED <<leaseCore, types, has, personal, store, ref,
                   todo, failed, fresh, card, result, formVars, together>>

ForceCommon(r) ==
    /\ Makes(r, "force")
    /\ at' = [at EXCEPT ![r] = Go("reload", "payment")]
    /\ \/ /\ personal' = FALSE
          /\ card' = card \union {r}
          /\ UNCHANGED mishaps
       \/ Mishap /\ personal' \in {personal, FALSE} /\ UNCHANGED card
    /\ UNCHANGED <<leaseCore, types, has, layout, store, ref,
                   todo, failed, fresh, result, formVars, together>>

-----------------------------------------------------------------------------
(***************************************************************************)
(* The ids are merged into the settings as they are now, and stored if     *)
(* that changes them.                                                      *)
(***************************************************************************)
MutantOfReread(r) == fresh[r]   \* the settings of the beginning
Reread(r) == store

Reload(r) ==
    /\ Makes(r, "reload")
    /\ fresh' = [fresh EXCEPT ![r] = Reread(r)]
    /\ IF store.sp = ref[r]
       THEN /\ at' = [at EXCEPT ![r] = Go("end", "payment")]
            /\ result' = [result EXCEPT ![r] = "ok"]
       ELSE /\ at' = [at EXCEPT ![r] = Go("save", "payment")]
            /\ UNCHANGED result
    /\ UNCHANGED <<leaseVars, portal, store, ref, todo, failed,
                   card, formVars, together>>

Merged(r) == [fresh[r] EXCEPT !.sp = ref[r]]

\* History: the read of those who stand at the write is older than the form.
Crossed == crossed \union {r \in Inside : at[r].call = "save"}

Save(r) ==
    /\ Makes(r, "save")
    /\ store' = Merged(r)
    /\ crossed' = IF Merged(r).form = store.form THEN crossed ELSE Crossed
    /\ \/ /\ at' = [at EXCEPT ![r] = Go("end", "payment")]
          /\ result' = [result EXCEPT ![r] = "ok"]
          /\ UNCHANGED mishaps
       \/ Throws(r) /\ Mishap
    /\ UNCHANGED <<leaseCore, portal, ref, todo, failed, fresh,
                   card, form, base, saves, together>>

\* A call that failed without effect and is not made up for.
Fails(r) ==
    /\ \E c \in {"load", "list", "create", "fields", "reload", "save"} :
          Makes(r, c)
    /\ Throws(r)
    /\ Mishap
    /\ UNCHANGED <<leaseCore, portal, store, ref, todo, failed,
                   fresh, card, formVars, together>>

-----------------------------------------------------------------------------
(***************************************************************************)
(* The settings form (chat-settings.post.ts) was opened some time ago, and *)
(* its ids with it.  On saving, the route reads the stored blob and takes  *)
(* the ids of the smart processes from there.                              *)
(***************************************************************************)
ReadStored ==
    /\ ~form
    /\ saves < MaxSaves
    /\ form' = TRUE
    /\ base' = store
    /\ UNCHANGED <<leaseVars, portal, store, locals, saves, crossed, together>>

MutantOfKeepStoredSpIds == Blank.sp   \* those of the form as it was opened
MutantDropsAnId == [x \in {"payment"} |-> base.sp[x]]
KeepStoredSpIds == base.sp

WriteForm ==
    /\ form
    /\ store' = [sp |-> KeepStoredSpIds, form |-> saves + 1]
    /\ saves' = saves + 1
    /\ crossed' = Crossed
    /\ CloseForm
    /\ UNCHANGED <<leaseVars, portal, locals, together>>

\* The read or the write fails: 502, and nothing is written.
FormFails ==
    /\ form
    /\ Mishap
    /\ CloseForm
    /\ UNCHANGED <<leaseCore, portal, store, locals, saves, crossed, together>>

Works(r) ==
    \/ Load(r) \/ List(r) \/ Create(r)
    \/ ListFields(r) \/ AddField(r) \/ FieldsTried(r)
    \/ ReadCard(r) \/ SetCard(r) \/ ForceCommon(r)
    \/ Reload(r) \/ Save(r) \/ End(r)

Next ==
    \/ \E r \in Run : Begin(r) \/ Rejected(r) \/ Works(r) \/ Fails(r) \/ Dies(r)
    \/ ReadStored \/ WriteForm \/ FormFails
    \/ Around
    \/ Reinstall

Spec == Init /\ [][Next]_vars

(***************************************************************************)
(* The clock runs, the timers of a live process fire, and a call is        *)
(* answered in the end.                                                    *)
(***************************************************************************)
Fairness ==
    /\ WF_vars(Tick /\ Around)
    /\ \A r \in Run : WF_vars(Renew(r) /\ Around) /\ WF_vars(Works(r))

FairSpec == Spec /\ Fairness

-----------------------------------------------------------------------------
(***************************************************************************)
(* The hazard the lease is there for: a portal never gets two types of one *)
(* title, although the list is read long before the type is created, the   *)
(* answer to crm.type.add may be lost, and an administrator presses again. *)
(***************************************************************************)
NoTwins ==
    ~together => \A x \in Sp, s, t \in Type :
                    s \in types[x] /\ t \in types[x] => s = t

(***************************************************************************)
(* A run that answered "ok" has left both types whole: with every field,   *)
(* and what is stored is a type of that title, never the other's id.       *)
(***************************************************************************)
Usable ==
    /\ \A x \in Sp : store.sp[x] # 0 => store.sp[x] \in types[x]
    /\ \A r \in Run : result[r] = "ok" =>
          \A x \in Sp : Field \subseteq has[x][ref[r][x]]

FormsGap == form /\ ~form' /\ base # store

IdsKept ==
    together \/ FormsGap \/ Reinstall \/
        \A x \in Sp : store.sp[x] # 0 => store'.sp[x] = store.sp[x]

FormKept ==
    store'.form < store.form =>
        Reinstall \/ \E r \in crossed : Save(r)

(***************************************************************************)
(* The two writers of the blob: a form opened before the set-up does not   *)
(* wipe the ids, a set-up does not roll a saved form back, and a stored id *)
(* is not replaced by another - except by a write between the one read and *)
(* the one write of the other side, or when the application is removed.    *)
(***************************************************************************)
BothPartsKept == [][IdsKept /\ FormKept]_vars

(***************************************************************************)
(* distributionSpProvision.ts:226: the layout counts as applied only   *)
(* when it has reached everybody - whichever run says so.                  *)
(***************************************************************************)
CardReachesAll == ~purged /\ card # {} => ~personal
=============================================================================

----------------------------- MODULE ApplyObject -----------------------------
(***************************************************************************)
(* How the operator brings a StatefulSet, Service or Deployment to its     *)
(* desired state (ApplyStatefulSet, ApplyService, ApplyDeployment): Get    *)
(* from the informer cache, Create if it is not there, otherwise compare   *)
(* the hash annotation with the hash of the expected object and, if they   *)
(* differ, PatchByThreeWayMerge: one Patch computed from the last-applied  *)
(* annotation, the expected and the cached object, then a second call that *)
(* stores the new last-applied annotation.                                 *)
(*                                                                         *)
(* Simplifications: an object is a function from field names to values;    *)
(* the 32-bit hash is taken to be injective; a call that fails before it   *)
(* has an effect is a stutter.                                             *)
(***************************************************************************)
EXTENDS Naturals

CONSTANTS
  OperatorFields,    \* fields the operator derives from the custom resource
  Sticky,            \* serviceName, podManagementPolicy: taken from the live object
  ForeignFields,     \* fields written by Kubernetes and by other controllers
  Values, None,
  DirectEdits,       \* do users change operator fields in the object itself?
  MaxEdits,          \* bound: changes of the desired state, deletions
  MaxForeign         \* bound: writes of others

ASSUME ConstantsAssumption ==
  /\ OperatorFields \cap ForeignFields = {}
  /\ Sticky \subseteq OperatorFields
  /\ None \notin Values
  /\ DirectEdits \in BOOLEAN
  /\ MaxEdits \in Nat
  /\ MaxForeign \in Nat

VARIABLES
  desired,  \* what the custom resource asks for
  obj,      \* the object in the API server
  cache,    \* the object in the informer cache
  pc,       \* "idle", or "annotate" between the two calls of the patch
  expect,   \* the state being applied, for the annotation
  drift,    \* history: fields that are not as the last patch has seen them
  loose,    \* history: fields that the last-applied annotation may not hold
  edits, foreigns

vars == <<desired, obj, cache, pc, expect, drift, loose, edits, foreigns>>

Fields   == OperatorFields \cup ForeignFields
MaybeVal == Values \cup {None}
DesiredType == {d \in [OperatorFields -> MaybeVal] : \A f \in Sticky : d[f] # None}
Nothing  == [f \in OperatorFields |-> None]

\* hash = Nothing: the object carries no hash annotation.
ObjectType == [exists : BOOLEAN, fields : [Fields -> MaybeVal],
               hash : [OperatorFields -> MaybeVal],
               last : [OperatorFields -> MaybeVal]]
Absent == [exists |-> FALSE, fields |-> [f \in Fields |-> None],
           hash |-> Nothing, last |-> Nothing]

TypeOK ==
  /\ desired \in DesiredType
  /\ obj \in ObjectType
  /\ cache \in ObjectType
  /\ pc \in {"idle", "annotate"}
  /\ expect \in [OperatorFields -> MaybeVal]
  /\ drift \subseteq OperatorFields
  /\ loose \subseteq OperatorFields
  /\ edits \in 0 .. MaxEdits
  /\ foreigns \in 0 .. MaxForeign

Init ==
  /\ desired \in DesiredType
  /\ obj = Absent
  /\ cache = Absent
  /\ pc = "idle"
  /\ expect = Nothing
  /\ drift = {} /\ loose = {}
  /\ edits = 0
  /\ foreigns = 0

-----------------------------------------------------------------------------
(* The environment *)

ChangeSpec ==
  /\ edits < MaxEdits
  /\ edits' = edits + 1
  /\ desired' \in DesiredType
  /\ UNCHANGED <<obj, cache, pc, expect, drift, loose, foreigns>>

UserDelete ==
  /\ edits < MaxEdits
  /\ edits' = edits + 1
  /\ obj.exists
  /\ obj' = Absent
  /\ drift' = {} /\ loose' = {}
  /\ UNCHANGED <<desired, cache, pc, expect, foreigns>>

\* kubectl edit on the object instead of the custom resource.  The fields in
\* Sticky are immutable in Kubernetes.
UserDirectEdit ==
  /\ DirectEdits
  /\ edits < MaxEdits
  /\ edits' = edits + 1
  /\ obj.exists
  /\ \E f \in OperatorFields \ Sticky, v \in MaybeVal :
       /\ obj' = [obj EXCEPT !.fields[f] = v]
       /\ drift' = drift \cup {f}
       /\ loose' = loose \cup {f}
  /\ UNCHANGED <<desired, cache, pc, expect, foreigns>>

\* Defaults of the API server, status-like fields, another controller.
ForeignUpdate ==
  /\ foreigns < MaxForeign
  /\ foreigns' = foreigns + 1
  /\ obj.exists
  /\ \E f \in ForeignFields, v \in Values : obj' = [obj EXCEPT !.fields[f] = v]
  /\ UNCHANGED <<desired, cache, pc, expect, drift, loose, edits>>

CacheSync ==
  /\ cache # obj
  /\ cache' = obj
  /\ UNCHANGED <<desired, obj, pc, expect, drift, loose, edits, foreigns>>

-----------------------------------------------------------------------------
(* The operator *)

\* The cache says NotFound.  If the object exists after all, Create fails.
CreateClientObject ==
  /\ pc = "idle"
  /\ ~cache.exists
  /\ ~obj.exists
  /\ obj' = [Absent EXCEPT !.exists = TRUE, !.last = desired,
               !.fields = [f \in Fields |->
                             IF f \in OperatorFields THEN desired[f] ELSE None]]
  /\ UNCHANGED <<desired, cache, pc, expect, drift, loose, edits, foreigns>>

\* mutant: a copy of the whole actual object is hashed, not the expected fields
ExpectedMutant(actual) ==
  [f \in Fields |-> IF f \in OperatorFields \ Sticky THEN desired[f] ELSE actual.fields[f]]

\* The expected object: the desired one with the fields that cannot change
\* taken from the actual one.
Expected(actual) ==
  [f \in OperatorFields |-> IF f \in Sticky THEN actual.fields[f] ELSE desired[f]]

\* mutant: the annotation is looked up, its value is not compared
DeepEqualMutant(exp, actual) == actual.hash # Nothing

\* The hash annotation decides.  Without one the hash of the live object is
\* taken, which holds the defaults of the API server and never matches.
DeepEqual(exp, actual) == actual.hash = exp

\* mutant: a patch without the deletions
PatchMutant(live, actual, exp) ==
  [f \in Fields |->
     IF f \in OperatorFields /\ exp[f] # None THEN exp[f] ELSE live.fields[f]]

\* mutant: only the additions, a changed value is left
PatchAddMutant(live, actual, exp) ==
  [f \in Fields |->
     IF f \in OperatorFields /\ actual.fields[f] = None THEN exp[f]
     ELSE IF f \in OperatorFields /\ exp[f] = None /\ actual.last[f] # None THEN None
     ELSE live.fields[f]]

\* The live fields after the patch computed from actual: what differs between
\* actual and exp is set, what last-applied holds and exp does not is deleted.
ThreeWayMergePatch(live, actual, exp) ==
  [f \in Fields |->
     IF f \in ForeignFields THEN live.fields[f]
     ELSE IF exp[f] # None /\ exp[f] # actual.fields[f] THEN exp[f]
     ELSE IF exp[f] = None /\ actual.last[f] # None THEN None
     ELSE live.fields[f]]

\* The fields that the cache does not show as they are, or whose record in the
\* last-applied annotation it does not show as it is.
Unseen == {f \in OperatorFields :
             cache.fields[f] # obj.fields[f] \/ cache.last[f] # obj.last[f]}

\* The patch names no resourceVersion (expect has the one of the cached object,
\* so that it is no difference): it is applied to whatever is there.
PatchByThreeWayMerge ==
  LET exp == Expected(cache)
  IN  /\ pc = "idle"
      /\ cache.exists
      /\ obj.exists
      /\ ~DeepEqual(exp, cache)
      /\ obj' = [obj EXCEPT !.fields = ThreeWayMergePatch(obj, cache, exp), !.hash = exp]
      /\ pc' = "annotate"
      /\ expect' = exp
      /\ drift' = Unseen
      /\ loose' = loose \cup Unseen
      /\ UNCHANGED <<desired, cache, edits, foreigns>>

\* expectHash == actualHash: there is no need to update.
NoUpdateNeeded ==
  /\ pc = "idle"
  /\ cache.exists
  /\ DeepEqual(Expected(cache), cache)
  /\ UNCHANGED vars

\* mutant: the Update does not check that the Get was up to date
UpdateLastAppliedMutant ==
  /\ pc = "annotate"
  /\ cache.exists
  /\ obj.exists
  /\ obj' = [cache EXCEPT !.last = expect]
  /\ loose' = loose \ {f \in OperatorFields : expect[f] # None}
  /\ pc' = "idle"
  /\ expect' = Nothing
  /\ UNCHANGED <<desired, cache, drift, edits, foreigns>>

\* Get, set the annotation, Update: the whole object is written, and accepted
\* only if the Get returned the newest version (conflicts are retried).
UpdateLastApplied ==
  /\ pc = "annotate"
  /\ cache.exists
  /\ cache = obj
  /\ obj' = [cache EXCEPT !.last = expect]
  /\ loose' = loose \ {f \in OperatorFields : expect[f] # None}
  /\ pc' = "idle"
  /\ expect' = Nothing
  /\ UNCHANGED <<desired, cache, drift, edits, foreigns>>

\* The object was deleted meanwhile, the operator crashes, the call fails or
\* the retries are used up: what the patch has added is recorded nowhere.
UpdateLastAppliedFails ==
  /\ pc = "annotate"
  /\ loose' = loose \cup {f \in OperatorFields : expect[f] # None /\ obj.exists /\ obj.last[f] = None}
  /\ pc' = "idle"
  /\ expect' = Nothing
  /\ UNCHANGED <<desired, obj, cache, drift, edits, foreigns>>

Operator ==
  \/ CreateClientObject \/ PatchByThreeWayMerge \/ NoUpdateNeeded
  \/ UpdateLastApplied \/ UpdateLastAppliedFails

Next ==
  ChangeSpec \/ UserDelete \/ UserDirectEdit \/ ForeignUpdate \/ CacheSync \/ Operator

Spec == Init /\ [][Next]_vars

\* Watches are delivered; a failed sync is requeued and every object is
\* resynced periodically.
Fairness ==
  /\ WF_vars(CacheSync)
  /\ WF_vars(CreateClientObject)
  /\ WF_vars(PatchByThreeWayMerge)
  /\ WF_vars(UpdateLastApplied \/ UpdateLastAppliedFails)

FairSpec == Spec /\ Fairness

-----------------------------------------------------------------------------
(* Properties *)

\* The hash annotation tells the truth about the fields it stands for: what
\* the next sync finds equal, and so leaves alone, does hold what it asks for,
\* except where a user has edited the object itself since the last patch or
\* that patch was computed from a copy which did not show the field as it was.
HashMeansApplied ==
  obj.exists => \A f \in OperatorFields \ drift :
     obj.hash[f] # None => obj.fields[f] = obj.hash[f]

\* A field the desired state no longer holds is left behind in an object whose
\* hash says that it is up to date only if it got there by a patch whose
\* annotation was lost or by a user's hand, or if the copy that the patch was
\* computed from did not show it or its record.
HeldFieldsGone ==
  obj.exists /\ obj.hash # Nothing => \A f \in OperatorFields \ loose :
     obj.hash[f] = None => obj.fields[f] = None

\* "allow users to delete some fields they set in the previous
\* reconciliation": such a field goes if the patch has seen it as it is and no
\* user has touched it since.
RemovedFieldsGone ==
  obj.exists /\ obj.hash # Nothing => \A f \in OperatorFields \ drift :
     obj.hash[f] = None => obj.fields[f] = None

\* "operator-defined fields will always take precedence over any user
\* modifications made directly to the resource": once a patch has gone
\* through, every field it stands for has the expected value.
PatchTakesPrecedence ==
  [][PatchByThreeWayMerge => \A f \in OperatorFields :
       expect'[f] # None => obj'.fields[f] = expect'[f]]_vars

\* "avoid the fields managed by other controllers being overwritten": no step
\* of the operator changes a foreign field of an object that stays.
ForeignFieldsKept ==
  [][Operator /\ obj.exists => \A f \in ForeignFields : obj'.fields[f] = obj.fields[f]]_vars

\* When the users stop editing, the object comes to hold the desired fields
\* and stays so; only a field edited in the object itself after the last patch
\* or not seen by it may keep the value it was given.
EventuallyApplied ==
  <>[](/\ obj.exists
       /\ \A f \in OperatorFields \ (Sticky \cup drift) :
            desired[f] # None => obj.fields[f] = desired[f])

\* The fields F of the object, as declarative apply sees them.
Abstract(F) == INSTANCE DeclarativeObject WITH
  OperatorFields <- F,
  Sticky <- Sticky \cap F,
  desired <- [f \in F |-> desired[f]],
  present <- obj.exists,
  managed <- [f \in F |-> obj.fields[f]],
  foreign <- [f \in ForeignFields |-> obj.fields[f]]

\* The operator implements declarative apply for whatever fields it has hold
\* of: all of them change from one desired state to another in one step and
\* nothing else ever changes them.
ImplementsDeclarativeObject ==
  /\ Abstract(OperatorFields)!Init
  /\ [][\A F \in SUBSET OperatorFields : F \cap (drift \cup loose)' = {} =>
           Abstract(F)!Next \/ UNCHANGED Abstract(F)!vars]_vars
=============================================================================

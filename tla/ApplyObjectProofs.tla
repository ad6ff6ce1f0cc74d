-------------------------- MODULE ApplyObjectProofs --------------------------
(***************************************************************************)
(* Theorems about ApplyObject, for every set of fields and values and for  *)
(* every number of edits.                                                  *)
(***************************************************************************)
EXTENDS ApplyObject, TLAPS

\* The object that does not exist.
LEMMA AbsentType == Absent \in ObjectType /\ ~Absent.exists
BY DEF Absent, ObjectType, MaybeVal, Nothing

LEMMA ExpectedType ==
  ASSUME NEW actual \in ObjectType, desired \in DesiredType
  PROVE  Expected(actual) \in [OperatorFields -> MaybeVal]
BY DEF Expected, ObjectType, DesiredType, Fields

\* The patch yields an object's fields.
LEMMA PatchType ==
  ASSUME NEW live \in ObjectType, NEW actual \in ObjectType,
         NEW exp \in [OperatorFields -> MaybeVal]
  PROVE  ThreeWayMergePatch(live, actual, exp) \in [Fields -> MaybeVal]
BY DEF ThreeWayMergePatch, ObjectType, MaybeVal, Fields

-----------------------------------------------------------------------------
(* Type correctness *)

\* Init establishes and every step of Next preserves the type invariant.
THEOREM TypeCorrect == Spec => []TypeOK
<1>1. Init => TypeOK
  BY ConstantsAssumption, AbsentType DEF Init, TypeOK, Nothing, MaybeVal
<1>2. TypeOK /\ [Next]_vars => TypeOK'
  <2> SUFFICES ASSUME TypeOK, [Next]_vars PROVE TypeOK'
    OBVIOUS
  <2> USE ConstantsAssumption DEF TypeOK
  <2>1. CASE ChangeSpec
    BY <2>1 DEF ChangeSpec
  <2>2. CASE UserDelete
    BY <2>2, AbsentType DEF UserDelete
  <2>3. CASE UserDirectEdit
    <3>1. obj' \in ObjectType
      BY <2>3 DEF UserDirectEdit, ObjectType, Fields
    <3> QED BY <3>1, <2>3 DEF UserDirectEdit
  <2>4. CASE ForeignUpdate
    <3>1. obj' \in ObjectType
      BY <2>4 DEF ForeignUpdate, ObjectType, Fields, MaybeVal
    <3> QED BY <3>1, <2>4 DEF ForeignUpdate
  <2>5. CASE CacheSync
    BY <2>5 DEF CacheSync
  <2>6. CASE CreateClientObject
    <3>1. [f \in Fields |-> IF f \in OperatorFields THEN desired[f] ELSE None]
            \in [Fields -> MaybeVal]
      BY DEF DesiredType, MaybeVal
    <3>2. obj' \in ObjectType
      BY <2>6, <3>1 DEF CreateClientObject, ObjectType, Absent, DesiredType, Nothing, MaybeVal
    <3> QED BY <3>2, <2>6 DEF CreateClientObject
  <2>7. CASE PatchByThreeWayMerge
    <3>1. Expected(cache) \in [OperatorFields -> MaybeVal]
      BY ExpectedType
    <3>2. ThreeWayMergePatch(obj, cache, Expected(cache)) \in [Fields -> MaybeVal]
      BY <3>1, PatchType
    <3>3. obj' = [obj EXCEPT !.fields = ThreeWayMergePatch(obj, cache, Expected(cache)),
                             !.hash = Expected(cache)]
      BY <2>7 DEF PatchByThreeWayMerge
    <3>4. obj' \in ObjectType
      BY <3>1, <3>2, <3>3 DEF ObjectType
    <3>5. Unseen \subseteq OperatorFields
      BY DEF Unseen
    <3> QED BY <3>1, <3>4, <3>5, <2>7 DEF PatchByThreeWayMerge
  <2>8. CASE NoUpdateNeeded
    BY <2>8 DEF NoUpdateNeeded, vars
  <2>9. CASE UpdateLastApplied
    <3>1. obj' \in ObjectType
      BY <2>9 DEF UpdateLastApplied, ObjectType
    <3> QED BY <3>1, <2>9 DEF UpdateLastApplied, Nothing, MaybeVal
  <2>10. CASE UpdateLastAppliedFails
    BY <2>10 DEF UpdateLastAppliedFails, Nothing, MaybeVal
  <2>11. CASE UNCHANGED vars
    BY <2>11 DEF vars
  <2> QED
    BY <2>1, <2>2, <2>3, <2>4, <2>5, <2>6, <2>7, <2>8, <2>9, <2>10, <2>11 DEF Next, Operator
<1> QED BY <1>1, <1>2, PTL DEF Spec

-----------------------------------------------------------------------------
(* What holds whatever the cache, the users and the failures do *)

\* No step of the operator changes a foreign field of an existing object,
\* even when it computes its patch from a stale cache: the patch names no
\* field of others, and the annotation is written by a conditional Update.
THEOREM ForeignFieldsCorrect == Spec => ForeignFieldsKept
<1>1. TypeOK /\ [Next]_vars =>
        [Operator /\ obj.exists => \A f \in ForeignFields : obj'.fields[f] = obj.fields[f]]_vars
  <2> SUFFICES ASSUME TypeOK, Operator, obj.exists, NEW f \in ForeignFields
               PROVE  obj'.fields[f] = obj.fields[f]
    OBVIOUS
  <2> USE DEF TypeOK
  <2>1. CASE CreateClientObject
    BY <2>1 DEF CreateClientObject
  <2>2. CASE PatchByThreeWayMerge
    <3>1. obj'.fields = ThreeWayMergePatch(obj, cache, Expected(cache))
      BY <2>2 DEF PatchByThreeWayMerge, ObjectType
    <3> QED BY <3>1 DEF ThreeWayMergePatch, Fields
  <2>3. CASE NoUpdateNeeded
    BY <2>3 DEF NoUpdateNeeded, vars
  <2>4. CASE UpdateLastApplied
    BY <2>4 DEF UpdateLastApplied, ObjectType
  <2>5. CASE UpdateLastAppliedFails
    BY <2>5 DEF UpdateLastAppliedFails
  <2> QED BY <2>1, <2>2, <2>3, <2>4, <2>5 DEF Operator
<1> QED BY <1>1, TypeCorrect, PTL DEF Spec, ForeignFieldsKept

-----------------------------------------------------------------------------
(* The fields that a patch has seen as they are *)

\* The patch gives such a field its expected value if it is expected to be
\* there, however old the rest of the copy is that it is computed from.
LEMMA SeenIsSet ==
  ASSUME TypeOK, NEW exp \in [OperatorFields -> MaybeVal],
         NEW f \in OperatorFields \ Unseen, exp[f] # None
  PROVE  ThreeWayMergePatch(obj, cache, exp)[f] = exp[f]
BY ConstantsAssumption DEF ThreeWayMergePatch, Fields, Unseen

\* And if the annotation holds what the object has of it, it is removed when
\* it is not expected any more.
LEMMA SeenIsExact ==
  ASSUME TypeOK, NEW exp \in [OperatorFields -> MaybeVal],
         NEW f \in OperatorFields \ Unseen, obj.fields[f] # None => obj.last[f] # None
  PROVE  ThreeWayMergePatch(obj, cache, exp)[f] = exp[f]
BY ConstantsAssumption DEF ThreeWayMergePatch, Fields, Unseen

\* What the patch writes.
LEMMA PatchFacts ==
  ASSUME TypeOK, PatchByThreeWayMerge
  PROVE  /\ pc = "idle" /\ pc' = "annotate" /\ cache.exists /\ obj.exists
         /\ Expected(cache) \in [OperatorFields -> MaybeVal] /\ expect' = Expected(cache)
         /\ obj'.exists /\ obj'.hash = Expected(cache) /\ obj'.last = obj.last
         /\ obj'.fields = ThreeWayMergePatch(obj, cache, Expected(cache))
         /\ UNCHANGED <<desired, cache>>
         /\ drift' = Unseen /\ loose' = loose \cup Unseen
BY ExpectedType DEF PatchByThreeWayMerge, TypeOK, ObjectType

\* The hash annotation never claims a field that the object does not have,
\* unless a user has edited this very field in the object since the last patch
\* or the patch was computed from a copy that did not show it as it was: with
\* every lag of the cache, and when the operator fails between its two calls.
THEOREM HashCorrect == Spec => []HashMeansApplied
<1>1. Init => HashMeansApplied
  BY AbsentType DEF Init, HashMeansApplied
<1>2. TypeOK /\ HashMeansApplied /\ [Next]_vars => HashMeansApplied'
  <2> SUFFICES ASSUME TypeOK, HashMeansApplied, [Next]_vars,
                      obj'.exists, NEW f \in OperatorFields \ drift', obj'.hash[f] # None
               PROVE  obj'.fields[f] = obj'.hash[f]
    BY DEF HashMeansApplied
  <2>1. CASE ChangeSpec \/ CacheSync \/ NoUpdateNeeded \/ UpdateLastAppliedFails \/ UNCHANGED vars
    <3>1. obj' = obj /\ drift' = drift
      BY <2>1 DEF ChangeSpec, CacheSync, NoUpdateNeeded, UpdateLastAppliedFails, vars
    <3> QED BY <3>1 DEF HashMeansApplied
  <2>2. CASE UserDelete
    BY <2>2, AbsentType DEF UserDelete
  <2>3. CASE UserDirectEdit
    <3>1. PICK g \in OperatorFields \ Sticky, v \in MaybeVal :
            obj' = [obj EXCEPT !.fields[g] = v] /\ drift' = drift \cup {g}
      BY <2>3 DEF UserDirectEdit
    <3>2. f # g /\ f \notin drift
      BY <3>1
    <3>3. obj'.fields[f] = obj.fields[f] /\ obj'.hash = obj.hash /\ obj.exists
      BY <2>3, <3>1, <3>2 DEF UserDirectEdit, TypeOK, ObjectType, Fields
    <3> QED BY <3>2, <3>3 DEF HashMeansApplied
  <2>4. CASE ForeignUpdate
    <3>1. obj'.hash = obj.hash /\ obj'.exists = obj.exists /\ drift' = drift
      BY <2>4 DEF ForeignUpdate, TypeOK, ObjectType
    <3>2. f \notin ForeignFields
      BY ConstantsAssumption
    <3>3. obj'.fields[f] = obj.fields[f]
      BY <2>4, <3>2 DEF ForeignUpdate, TypeOK, ObjectType, Fields
    <3> QED BY <3>1, <3>3 DEF HashMeansApplied
  <2>5. CASE CreateClientObject
    <3>1. obj'.hash = Nothing
      BY <2>5 DEF CreateClientObject, Absent
    <3> QED BY <3>1 DEF Nothing
  <2>6. CASE PatchByThreeWayMerge
    BY <2>6, PatchFacts, SeenIsSet
  <2>7. CASE UpdateLastApplied
    <3>1. obj'.hash = obj.hash /\ obj'.exists = obj.exists /\ obj'.fields = obj.fields /\ drift' = drift
      BY <2>7 DEF UpdateLastApplied, TypeOK, ObjectType
    <3> QED BY <3>1 DEF HashMeansApplied
  <2> QED BY <2>1, <2>2, <2>3, <2>4, <2>5, <2>6, <2>7 DEF Next, Operator
<1> QED BY <1>1, <1>2, TypeCorrect, PTL DEF Spec

-----------------------------------------------------------------------------
(* The fields that the last-applied annotation holds *)

\* Every field that is not loose is recorded where the next patch will look for
\* it: in the last-applied annotation or, while that is being written, in the
\* state the annotation is about to get.
Recorded ==
  /\ obj.exists /\ pc = "idle" =>
       \A f \in OperatorFields \ loose : obj.fields[f] # None => obj.last[f] # None
  /\ obj.exists /\ pc = "annotate" =>
       /\ obj.hash = expect
       /\ \A f \in OperatorFields \ loose : obj.fields[f] = expect[f]
  /\ ~obj.exists => obj = Absent

\* The frame of the steps that leave the object alone.
LEMMA RecordedFrame ==
  ASSUME Recorded, HeldFieldsGone, UNCHANGED <<obj, pc, expect, loose>>
  PROVE  Recorded' /\ HeldFieldsGone'
BY DEF Recorded, HeldFieldsGone

\* A field that is still there although the desired state does not hold it any
\* more is loose: the annotation that would have recorded it was lost, a user
\* has set it, or a patch was computed from a copy that did not show it or its
\* record.  The deletions of a patch are computed from the annotation, so that
\* this is inductive only together with Recorded.
THEOREM RemovedCorrect == Spec => [](Recorded /\ HeldFieldsGone)
<1> DEFINE Inv == Recorded /\ HeldFieldsGone
<1>1. Init => Inv
  BY AbsentType DEF Init, Recorded, HeldFieldsGone
<1>2. TypeOK /\ Inv /\ [Next]_vars => Inv'
  <2> SUFFICES ASSUME TypeOK, Recorded, HeldFieldsGone, [Next]_vars
               PROVE  Recorded' /\ HeldFieldsGone'
    OBVIOUS
  <2>1. CASE ChangeSpec \/ CacheSync \/ NoUpdateNeeded \/ UNCHANGED vars
    <3>1. UNCHANGED <<obj, pc, expect, loose>>
      BY <2>1 DEF ChangeSpec, CacheSync, NoUpdateNeeded, vars
    <3> QED BY <3>1, RecordedFrame
  <2>2. CASE UserDelete
    BY <2>2, AbsentType DEF UserDelete, Recorded, HeldFieldsGone
  <2>3. CASE UserDirectEdit
    <3>1. PICK g \in OperatorFields \ Sticky, v \in MaybeVal :
            obj' = [obj EXCEPT !.fields[g] = v] /\ loose' = loose \cup {g}
      BY <2>3 DEF UserDirectEdit
    <3>2. obj'.hash = obj.hash /\ obj'.exists = obj.exists /\ obj'.last = obj.last /\ obj.exists
      BY <2>3, <3>1 DEF UserDirectEdit, TypeOK, ObjectType
    <3>3. \A f \in OperatorFields \ loose' : f \notin loose /\ obj'.fields[f] = obj.fields[f]
      BY <3>1 DEF TypeOK, ObjectType, Fields
    <3>4. UNCHANGED <<pc, expect>>
      BY <2>3 DEF UserDirectEdit
    <3> QED BY <3>2, <3>3, <3>4 DEF Recorded, HeldFieldsGone
  <2>4. CASE ForeignUpdate
    <3>1. obj'.hash = obj.hash /\ obj'.exists = obj.exists /\ obj'.last = obj.last /\ obj.exists
      BY <2>4 DEF ForeignUpdate, TypeOK, ObjectType
    <3>2. \A f \in OperatorFields : obj'.fields[f] = obj.fields[f]
      BY <2>4, ConstantsAssumption DEF ForeignUpdate, TypeOK, ObjectType, Fields
    <3>3. UNCHANGED <<pc, expect, loose>>
      BY <2>4 DEF ForeignUpdate
    <3> QED BY <3>1, <3>2, <3>3 DEF Recorded, HeldFieldsGone
  <2>5. CASE CreateClientObject
    <3>1. /\ obj'.exists /\ obj'.hash = Nothing /\ obj'.last = desired
          /\ obj'.fields = [f \in Fields |-> IF f \in OperatorFields THEN desired[f] ELSE None]
      BY <2>5 DEF CreateClientObject, Absent
    <3>2. \A f \in OperatorFields : obj'.fields[f] = desired[f]
      BY <3>1 DEF Fields
    <3>3. pc' = "idle"
      BY <2>5 DEF CreateClientObject
    <3> QED BY <3>1, <3>2, <3>3 DEF Recorded, HeldFieldsGone
  <2>6. CASE PatchByThreeWayMerge
    <3>1. \A f \in OperatorFields \ loose' : obj'.fields[f] = expect'[f]
      BY <2>6, PatchFacts, SeenIsExact DEF Recorded
    <3> QED BY <2>6, <3>1, PatchFacts DEF Recorded, HeldFieldsGone
  <2>7. CASE UpdateLastApplied
    <3>1. /\ obj'.hash = obj.hash /\ obj'.exists = obj.exists /\ obj'.fields = obj.fields
          /\ obj'.last = expect /\ obj.exists
      BY <2>7 DEF UpdateLastApplied, TypeOK, ObjectType
    <3>2. pc = "annotate" /\ pc' = "idle"
      BY <2>7 DEF UpdateLastApplied
    <3>3. \A f \in OperatorFields \ loose' : f \notin loose \/ expect[f] # None
      BY <2>7 DEF UpdateLastApplied
    <3> QED BY <3>1, <3>2, <3>3 DEF Recorded, HeldFieldsGone
  <2>8. CASE UpdateLastAppliedFails
    <3>1. obj' = obj /\ pc = "annotate" /\ pc' = "idle"
      BY <2>8 DEF UpdateLastAppliedFails
    <3>2. obj.exists => \A f \in OperatorFields \ loose' :
            f \notin loose /\ (expect[f] # None => obj.last[f] # None)
      BY <2>8 DEF UpdateLastAppliedFails
    <3> QED BY <3>1, <3>2 DEF Recorded, HeldFieldsGone
  <2> QED BY <2>1, <2>2, <2>3, <2>4, <2>5, <2>6, <2>7, <2>8 DEF Next, Operator
<1> QED BY <1>1, <1>2, TypeCorrect, PTL DEF Spec

-----------------------------------------------------------------------------
(* Declarative apply *)

\* One step, as the fields F see it.
LEMMA StepIsDeclarative ==
  ASSUME TypeOK, Recorded, [Next]_vars,
         NEW F \in SUBSET OperatorFields, F \cap (drift \cup loose)' = {}
  PROVE  Abstract(F)!Next \/ UNCHANGED Abstract(F)!vars
<1> DEFINE want    == [f \in F |-> desired[f]]
           managed == [f \in F |-> obj.fields[f]]
           foreign == [f \in ForeignFields |-> obj.fields[f]]
<1>1. CASE ChangeSpec
  <2>1. desired' \in DesiredType
    BY <1>1 DEF ChangeSpec
  <2>2. want' \in Abstract(F)!DesiredType
    BY <2>1 DEF DesiredType, Abstract!DesiredType, MaybeVal
  <2>3. Abstract(F)!ChangeSpec
    BY <1>1, <2>2 DEF ChangeSpec, Abstract!ChangeSpec
  <2> QED BY <2>3 DEF Abstract!Next
<1>2. CASE CacheSync \/ NoUpdateNeeded \/ UpdateLastAppliedFails \/ UNCHANGED vars
  BY <1>2 DEF CacheSync, NoUpdateNeeded, UpdateLastAppliedFails, vars, Abstract!vars
<1>3. CASE UserDelete
  <2>1. Abstract(F)!Delete
    BY <1>3 DEF UserDelete, Abstract!Delete, Abstract!NoFields, Absent, Fields
  <2> QED BY <2>1 DEF Abstract!Next
<1>4. CASE UserDirectEdit
  <2>1. PICK g \in OperatorFields, v \in MaybeVal :
          obj' = [obj EXCEPT !.fields[g] = v] /\ loose' = loose \cup {g}
    BY <1>4 DEF UserDirectEdit
  <2>2. g \notin F /\ g \notin ForeignFields
    BY <2>1, ConstantsAssumption
  <2>3. obj'.exists = obj.exists /\ managed' = managed /\ foreign' = foreign
    BY <2>1, <2>2 DEF TypeOK, ObjectType, Fields
  <2>4. desired' = desired
    BY <1>4 DEF UserDirectEdit
  <2> QED BY <2>3, <2>4 DEF Abstract!vars
<1>5. CASE ForeignUpdate
  <2>1. PICK f \in ForeignFields, v \in Values : obj' = [obj EXCEPT !.fields[f] = v]
    BY <1>5 DEF ForeignUpdate
  <2>2. obj'.exists /\ obj.exists /\ obj'.fields = [obj.fields EXCEPT ![f] = v]
    BY <1>5, <2>1 DEF ForeignUpdate, TypeOK, ObjectType
  <2>3. managed' = managed
    BY <2>2, ConstantsAssumption DEF TypeOK, ObjectType, Fields
  <2>4. foreign' = [foreign EXCEPT ![f] = v]
    BY <2>2 DEF TypeOK, ObjectType, Fields
  <2>5. Abstract(F)!ForeignUpdate
    BY <1>5, <2>2, <2>3, <2>4 DEF ForeignUpdate, Abstract!ForeignUpdate
  <2> QED BY <2>5 DEF Abstract!Next
<1>6. CASE CreateClientObject
  <2>1. /\ obj'.exists
        /\ obj'.fields = [f \in Fields |-> IF f \in OperatorFields THEN desired[f] ELSE None]
    BY <1>6 DEF CreateClientObject, Absent
  <2>2. managed' = want
    BY <2>1 DEF Fields
  <2>3. foreign' = foreign
    BY <1>6, <2>1, ConstantsAssumption DEF CreateClientObject, Recorded, Absent, Fields
  <2>4. Abstract(F)!Create
    BY <1>6, <2>1, <2>2, <2>3 DEF CreateClientObject, Abstract!Create
  <2> QED BY <2>4 DEF Abstract!Next
<1>7. CASE PatchByThreeWayMerge
  <2>1. \A f \in F : f \notin loose /\ f \notin Unseen
    BY <1>7, PatchFacts
  <2>2. \A f \in F : obj'.fields[f] = Expected(cache)[f]
    BY <1>7, <2>1, PatchFacts, SeenIsExact DEF Recorded
  <2>3. \A f \in F : cache.fields[f] = obj.fields[f]
    BY <2>1 DEF Unseen
  <2>4. managed' = [f \in F |-> IF f \in Sticky \cap F THEN managed[f] ELSE want[f]]
    BY <2>2, <2>3 DEF Expected
  <2>5. foreign' = foreign
    BY <1>7, PatchFacts DEF ThreeWayMergePatch, Fields
  <2>6. Abstract(F)!Apply
    BY <1>7, <2>4, <2>5, PatchFacts DEF Abstract!Apply
  <2> QED BY <2>6 DEF Abstract!Next
<1>8. CASE UpdateLastApplied
  <2>1. obj'.exists = obj.exists /\ obj'.fields = obj.fields /\ desired' = desired
    BY <1>8 DEF UpdateLastApplied, TypeOK, ObjectType
  <2> QED BY <2>1 DEF Abstract!vars
<1> QED BY <1>1, <1>2, <1>3, <1>4, <1>5, <1>6, <1>7, <1>8 DEF Next, Operator

\* For every set of fields that are neither loose nor drifted the operator
\* implements declarative apply: its first call takes the abstract step and
\* the annotation is a stuttering step, with a lagging cache, users who edit
\* the object, deletions, and calls that fail.
THEOREM RefinementCorrect == Spec => ImplementsDeclarativeObject
<1> DEFINE Step == \A F \in SUBSET OperatorFields : F \cap (drift \cup loose)' = {} =>
                     Abstract(F)!Next \/ UNCHANGED Abstract(F)!vars
<1>1. Init => Abstract(OperatorFields)!Init
  <2> SUFFICES ASSUME Init PROVE Abstract(OperatorFields)!Init
    OBVIOUS
  <2>1. [f \in OperatorFields |-> desired[f]] \in Abstract(OperatorFields)!DesiredType
    BY DEF Init, DesiredType, Abstract!DesiredType, MaybeVal
  <2>2. ~obj.exists /\ \A f \in Fields : obj.fields[f] = None
    BY DEF Init, Absent
  <2>3. [f \in OperatorFields |-> obj.fields[f]] = [f \in OperatorFields |-> None]
    BY <2>2 DEF Fields
  <2>4. [f \in ForeignFields |-> obj.fields[f]] = [f \in ForeignFields |-> None]
    BY <2>2 DEF Fields
  <2>5. obj.exists = FALSE
    BY DEF Init, Absent
  <2> QED BY <2>1, <2>3, <2>4, <2>5 DEF Abstract!Init, Abstract!NoFields
<1>2. TypeOK /\ Recorded /\ [Next]_vars => [Step]_vars
  BY StepIsDeclarative
<1> QED BY <1>1, <1>2, TypeCorrect, RemovedCorrect, PTL DEF Spec, ImplementsDeclarativeObject
=============================================================================

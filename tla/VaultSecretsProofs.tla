-------------------------- MODULE VaultSecretsProofs --------------------------
(***************************************************************************)
(* Proofs about VaultSecrets: type correctness; that a set is refused only   *)
(* after as many changes by others as it made attempts; and, scope by scope, *)
(* that promises are kept and listed secrets have values.                    *)
(***************************************************************************)
EXTENDS VaultSecrets, TLAPS

\* Every attempt that failed, and the one that is about to, was overtaken by a
\* change of the object by another request.
Overtaken(c) ==
  /\ changes[c] >= call[c].tries - 1
  /\ Conflicts(c) => changes[c] >= call[c].tries

\* A set has a value.
ValuesGiven == \A c \in Calls : Setting(c) => call[c].value \in Values

Counted == ValuesGiven /\ \A c \in Calls : Overtaken(c)

IInv == TypeOK /\ Counted

\* The part of the state that belongs to the requests, and its type.
RequestsOK ==
  /\ call \in [Calls -> CallType]
  /\ changes \in [Calls -> 0..MaxAttempts]
  /\ promise \in [Scopes -> Values \cup {"removed", "unknown"}]
  /\ torn \subseteq Scopes

Pcs == {"idle"} \cup SetSteps \cup RemoveSteps

LEMMA IdleType == Idle \in CallType
BY VaultAssumption DEF Idle, CallType, Scopes

\* What a request remembers of a row may be changed.
LEMMA FoundType ==
  ASSUME NEW r \in CallType, NEW b \in BOOLEAN
  PROVE  [r EXCEPT !.found = b] \in CallType
BY DEF CallType

\* A request that goes to another step, with a record q of its own.
LEMMA OneRecordChanges ==
  ASSUME TypeOK, NEW c \in Calls, NEW q \in CallType,
         call' = [call EXCEPT ![c] = q], UNCHANGED <<changes, promise, torn>>
  PROVE  RequestsOK'
BY DEF TypeOK, RequestsOK

LEMMA GoesType ==
  ASSUME TypeOK, NEW c \in Calls, NEW pc \in Pcs, Goes(c, pc)
  PROVE  RequestsOK'
<1> DEFINE q == [call[c] EXCEPT !.pc = pc]
<1>1. call[c] \in CallType
  BY DEF TypeOK
<1>2. q \in CallType
  BY <1>1 DEF CallType, Pcs
<1> QED
  BY <1>2, OneRecordChanges DEF Goes, TypeOK

LEMMA ReadsType ==
  ASSUME TypeOK, NEW c \in Calls, NEW pc \in Pcs, Reads(c, pc)
  PROVE  RequestsOK'
<1> DEFINE q == [call[c] EXCEPT !.pc = pc,
                   !.read = IF object[call[c].scope] = None THEN "absent" ELSE "current"]
<1>1. call[c] \in CallType
  BY DEF TypeOK
<1>2. q \in CallType
  BY <1>1 DEF CallType, Pcs
<1>3. call' = [call EXCEPT ![c] = q]
  BY <1>1 DEF Reads, TypeOK
<1> QED
  BY <1>2, <1>3, OneRecordChanges DEF Reads

LEMMA DoneType ==
  ASSUME TypeOK, ValuesGiven, NEW c \in Calls, Done(c)
  PROVE  RequestsOK'
<1>1. call[c] \in CallType
  BY DEF TypeOK
<1>2. call' \in [Calls -> CallType]
  BY IdleType DEF Done, TypeOK
<1>3. promise' \in [Scopes -> Values \cup {"removed", "unknown"}]
  <2>1. CASE Setting(c)
    BY <1>1, <2>1 DEF Done, TypeOK, ValuesGiven, CallType
  <2>2. CASE ~Setting(c)
    BY <1>1, <2>2 DEF Done, TypeOK, CallType
  <2> QED
    BY <2>1, <2>2
<1> QED
  BY <1>1, <1>2, <1>3 DEF Done, TypeOK, RequestsOK, CallType

LEMMA ErrorType ==
  ASSUME TypeOK, NEW c \in Calls, Error(c)
  PROVE  RequestsOK'
<1>1. call[c] \in CallType
  BY DEF TypeOK
<1> QED
  BY <1>1, IdleType DEF Error, TypeOK, RequestsOK, CallType

\* A change of the object by one request marks the records of others.
LEMMA ChangedType ==
  ASSUME TypeOK, NEW c \in Calls, NEW pc \in Pcs, NEW outcome \in {"stale", "gone"},
         Changed(c, pc, outcome)
  PROVE  RequestsOK'
<1>1. \A d \in Calls : call[d] \in CallType
  BY DEF TypeOK
<1>2. [call[c] EXCEPT !.pc = pc] \in CallType
  BY <1>1 DEF CallType, Pcs
<1>3. \A d \in Calls : [call[d] EXCEPT !.read = outcome] \in CallType
  BY <1>1 DEF CallType
<1>4. call' \in [Calls -> CallType]
  BY <1>1, <1>2, <1>3 DEF Changed
<1>5. changes' \in [Calls -> 0..MaxAttempts]
  BY VaultAssumption DEF Changed, TypeOK
<1> QED
  BY <1>4, <1>5 DEF Changed, TypeOK, RequestsOK

LEMMA StartsType ==
  ASSUME TypeOK, NEW c \in Calls, NEW r \in CallType, Starts(c, r)
  PROVE  RequestsOK'
<1>1. \A d \in Calls : call[d] \in CallType
  BY DEF TypeOK
<1>2. [r EXCEPT !.alone = (Busy(r.scope) = {})] \in CallType
  BY DEF CallType
<1>3. \A d \in Calls : [call[d] EXCEPT !.alone = FALSE] \in CallType
  BY <1>1 DEF CallType
<1>4. call' \in [Calls -> CallType]
  BY <1>1, <1>2, <1>3 DEF Starts
<1>5. changes' \in [Calls -> 0..MaxAttempts]
  BY VaultAssumption DEF Starts, TypeOK
<1>6. r.scope \in Scopes
  BY DEF CallType
<1> QED
  BY <1>4, <1>5, <1>6 DEF Starts, TypeOK, RequestsOK
-----------------------------------------------------------------------------
(* Each step keeps the types.                                              *)

LEMMA StepKeepsTypes ==
  ASSUME TypeOK, ValuesGiven, NEW c \in Calls, Step(c)
  PROVE  TypeOK'
<1>t. call[c] \in CallType /\ call[c].scope \in Scopes
  BY DEF TypeOK, CallType
<1>s. RequestsOK' /\ row' \subseteq Scopes /\ meta' \subseteq Scopes
        /\ object' \in [Scopes -> Values \cup {None}] => TypeOK'
  BY DEF RequestsOK, TypeOK
<1>1. CASE Set(c)
  <2>1. PICK s \in Scopes, v \in Values :
          Starts(c, [Idle EXCEPT !.pc = "load", !.scope = s, !.value = v])
    BY <1>1 DEF Set
  <2>2. [Idle EXCEPT !.pc = "load", !.scope = s, !.value = v] \in CallType
    BY IdleType DEF CallType, SetSteps
  <2> QED
    BY <2>1, <2>2, <1>s, StartsType DEF Starts, TypeOK
<1>2. CASE Remove(c)
  <2>1. PICK u \in Users :
          Starts(c, [Idle EXCEPT !.pc = "metaCheck", !.scope = Innermost(u),
                                 !.found = Innermost(u) \in row])
    BY <1>2 DEF Remove
  <2>2. [Idle EXCEPT !.pc = "metaCheck", !.scope = Innermost(u),
                     !.found = Innermost(u) \in row] \in CallType
    <3> DEFINE r == [Idle EXCEPT !.pc = "metaCheck", !.scope = Innermost(u)]
    <3>1. Innermost(u) \in Scopes
      BY DEF Innermost, Scopes
    <3>2. r \in CallType
      BY <3>1, IdleType DEF CallType, RemoveSteps
    <3>3. (Innermost(u) \in row) \in BOOLEAN
      OBVIOUS
    <3> HIDE DEF r
    <3>4. [r EXCEPT !.found = Innermost(u) \in row] \in CallType
      BY <3>2, <3>3, FoundType, Zenon
    <3> QED
      BY <3>4, Zenon DEF r
  <2> QED
    BY <2>1, <2>2, <1>s, StartsType DEF Starts, TypeOK
<1>3. CASE Load(c)
  BY <1>3, <1>s, ReadsType DEF Load, Reads, Pcs, SetSteps, TypeOK
<1>4. CASE Find(c)
  BY <1>4, <1>s, ReadsType DEF Find, Reads, Pcs, RemoveSteps, TypeOK
<1>5. CASE WriteSucceeds(c)
  <2>1. call[c].value \in Values
    BY <1>5 DEF WriteSucceeds, At, ValuesGiven, Setting, SetSteps
  <2> QED
    BY <2>1, <1>5, <1>s, ChangedType DEF WriteSucceeds, Pcs, SetSteps, TypeOK
<1>6. CASE DropObject(c)
  BY <1>6, <1>s, ChangedType DEF DropObject, Pcs, RemoveSteps, TypeOK
<1>7. CASE WriteAgain(c)
  <2> DEFINE q == [call[c] EXCEPT !.pc = "load", !.tries = @ + 1]
  <2>1. call[c].tries \in 1..MaxAttempts /\ call[c].tries < MaxAttempts
    BY <1>7, <1>t DEF WriteAgain, CallType
  <2>2. call[c].tries + 1 \in 1..MaxAttempts
    BY <2>1, VaultAssumption
  <2>3. q \in CallType
    BY <2>2, <1>t DEF CallType, SetSteps
  <2>4. call' = [call EXCEPT ![c] = q]
    BY <1>7, <1>t DEF WriteAgain, TypeOK
  <2> QED
    BY <2>3, <2>4, <1>7, <1>s, OneRecordChanges DEF WriteAgain, TypeOK
<1>8. CASE GivesUp(c)
  BY <1>8, <1>s, ErrorType DEF GivesUp, TypeOK
<1>9. CASE KeyNotReady(c)
  BY <1>9, <1>s, GoesType DEF KeyNotReady, Pcs, SetSteps, TypeOK
<1>10. CASE FindMetadata(c)
  <2> DEFINE q == [call[c] EXCEPT !.pc = "metaPut", !.found = call[c].scope \in meta]
  <2>1. q \in CallType
    <3> DEFINE r == [call[c] EXCEPT !.pc = "metaPut"]
    <3>1. r \in CallType
      BY <1>t DEF CallType, SetSteps
    <3>2. (call[c].scope \in meta) \in BOOLEAN
      OBVIOUS
    <3> HIDE DEF r
    <3>3. [r EXCEPT !.found = call[c].scope \in meta] \in CallType
      BY <3>1, <3>2, FoundType, Zenon
    <3> QED
      BY <3>3, Zenon DEF r
  <2>2. call' = [call EXCEPT ![c] = q]
    BY <1>10, <1>t DEF FindMetadata, TypeOK
  <2> QED
    BY <2>1, <2>2, <1>10, <1>s, OneRecordChanges DEF FindMetadata, TypeOK
<1>11. CASE PutMetadata(c)
  BY <1>11, <1>s, <1>t, GoesType, ErrorType DEF PutMetadata, Pcs, SetSteps, TypeOK
<1>12. CASE DeleteRow(c)
  BY <1>12, <1>s, GoesType DEF DeleteRow, Pcs, SetSteps, TypeOK
<1>13. CASE CreateRow(c)
  BY <1>13, <1>s, <1>t, DoneType, ErrorType DEF CreateRow, TypeOK
<1>14. CASE CheckMetadata(c)
  BY <1>14, <1>s, GoesType DEF CheckMetadata, Pcs, RemoveSteps, TypeOK
<1>15. CASE NothingToDrop(c)
  BY <1>15, <1>s, GoesType DEF NothingToDrop, Pcs, RemoveSteps, TypeOK
<1>16. CASE DropMetadata(c)
  BY <1>16, <1>s, GoesType DEF DropMetadata, Pcs, RemoveSteps, TypeOK
<1>17. CASE DropRow(c)
  BY <1>17, <1>s, DoneType DEF DropRow, TypeOK
<1>18. CASE Fails(c)
  BY <1>18, <1>s, ErrorType DEF Fails, TypeOK
<1> QED
  BY <1>1, <1>2, <1>3, <1>4, <1>5, <1>6, <1>7, <1>8, <1>9, <1>10, <1>11, <1>12, <1>13,
     <1>14, <1>15, <1>16, <1>17, <1>18 DEF Step
-----------------------------------------------------------------------------
(* Each step keeps ValuesGiven and Overtaken.                              *)

\* A step of one request that leaves the object alone: it need only be shown of
\* that request, which has not been overtaken again since it has read.
LEMMA OneRequestMoves ==
  ASSUME TypeOK, Counted, NEW c \in Calls, NEW q \in CallType,
         call' = [call EXCEPT ![c] = q], UNCHANGED <<object, changes>>,
         q.pc \in SetSteps => q.value \in Values,
         changes[c] >= q.tries - 1,
         q.pc = "write" => /\ q.read # "stale"
                           /\ q.read = "absent" => object[q.scope] = None
  PROVE  Counted'
<1>1. call'[c] = q /\ \A d \in Calls \ {c} : call'[d] = call[d]
  BY DEF TypeOK
<1>2. ValuesGiven'
  BY <1>1 DEF Counted, ValuesGiven, Setting
<1>3. ASSUME NEW d \in Calls \ {c} PROVE Overtaken(d)'
  BY <1>1, <1>3 DEF Counted, Overtaken, Conflicts, At
<1>4. Overtaken(c)'
  BY <1>1 DEF Overtaken, Conflicts, At
<1> QED
  BY <1>2, <1>3, <1>4 DEF Counted

LEMMA GoesCounts ==
  ASSUME TypeOK, Counted, NEW c \in Calls, NEW pc \in Pcs \ {"write"}, Goes(c, pc),
         pc \in SetSteps => Setting(c), object' = object
  PROVE  Counted'
<1> DEFINE q == [call[c] EXCEPT !.pc = pc]
<1>1. call[c] \in CallType
  BY DEF TypeOK
<1>2. /\ q \in CallType /\ q.pc = pc /\ q.value = call[c].value
      /\ q.tries = call[c].tries
  BY <1>1 DEF CallType, Pcs
<1>3. call' = [call EXCEPT ![c] = q] /\ changes' = changes
  BY DEF Goes, TypeOK
<1>4. q.pc \in SetSteps => q.value \in Values
  BY <1>2 DEF Counted, ValuesGiven
<1>5. changes[c] >= q.tries - 1
  BY <1>2 DEF Counted, Overtaken
<1> HIDE DEF q
<1> QED
  BY <1>2, <1>3, <1>4, <1>5, OneRequestMoves

LEMMA ReadsCounts ==
  ASSUME TypeOK, Counted, NEW c \in Calls, NEW pc \in Pcs, Reads(c, pc),
         pc \in SetSteps => Setting(c)
  PROVE  Counted'
<1> DEFINE q == [call[c] EXCEPT !.pc = pc,
                   !.read = IF object[call[c].scope] = None THEN "absent" ELSE "current"]
<1>1. call[c] \in CallType
  BY DEF TypeOK
<1>2. /\ q \in CallType /\ q.pc = pc /\ q.value = call[c].value
      /\ q.tries = call[c].tries /\ q.scope = call[c].scope
      /\ q.read # "stale" /\ (q.read = "absent" => object[q.scope] = None)
  BY <1>1 DEF CallType, Pcs
<1>3. call' = [call EXCEPT ![c] = q] /\ UNCHANGED <<object, changes>>
  BY <1>1 DEF Reads, TypeOK
<1>4. q.pc \in SetSteps => q.value \in Values
  BY <1>2 DEF Counted, ValuesGiven
<1>5. changes[c] >= q.tries - 1
  BY <1>2 DEF Counted, Overtaken
<1> HIDE DEF q
<1> QED
  BY <1>2, <1>3, <1>4, <1>5, OneRequestMoves

LEMMA EndsCounts ==
  ASSUME TypeOK, Counted, NEW c \in Calls, Done(c) \/ Error(c), object' = object
  PROVE  Counted'
<1>1. call' = [call EXCEPT ![c] = Idle] /\ changes' = changes
  BY DEF Done, Error
<1>2. Idle.pc = "idle" /\ Idle.tries = 1
  BY DEF Idle
<1>3. changes[c] >= Idle.tries - 1
  BY <1>2, VaultAssumption DEF TypeOK
<1> QED
  BY <1>1, <1>2, <1>3, IdleType, OneRequestMoves DEF SetSteps

\* A change of the object by c counts for every other request in its scope, and
\* is not seen by those in others.
LEMMA ChangedCounts ==
  ASSUME TypeOK, Counted, NEW c \in Calls, NEW pc \in Pcs \ {"write"},
         NEW outcome \in {"stale", "gone"}, Changed(c, pc, outcome),
         pc \in SetSteps => Setting(c),
         NEW v, object' = [object EXCEPT ![call[c].scope] = v]
  PROVE  Counted'
<1>1. /\ \A d \in Calls : call[d] \in CallType
      /\ changes \in [Calls -> 0..MaxAttempts]
      /\ MaxAttempts \in Nat
  BY VaultAssumption DEF TypeOK
<1>2. \A d \in Calls : /\ call'[d].value = call[d].value
                       /\ call'[d].tries = call[d].tries
                       /\ call'[d].scope = call[d].scope
                       /\ d # c => call'[d].pc = call[d].pc
  BY <1>1 DEF Changed, CallType
<1>3. call'[c].pc = pc
  BY <1>1 DEF Changed, CallType
<1>4. ValuesGiven'
  BY <1>2, <1>3 DEF Counted, ValuesGiven, Setting
<1>5. Overtaken(c)'
  <2>1. changes'[c] = changes[c]
    BY DEF Changed
  <2> QED
    BY <2>1, <1>2, <1>3 DEF Counted, Overtaken, Conflicts, At
<1>6. ASSUME NEW d \in Calls \ {c}, d \in Busy(call[c].scope) PROVE Overtaken(d)'
  <2>1. changes'[d] = IF changes[d] < MaxAttempts THEN changes[d] + 1 ELSE changes[d]
    BY <1>6 DEF Changed
  <2>2. call[d].tries \in 1..MaxAttempts /\ changes[d] >= call[d].tries - 1
    BY <1>1, <1>6 DEF CallType, Counted, Overtaken
  <2>3. changes'[d] >= call[d].tries /\ changes'[d] >= call[d].tries - 1
    BY <2>1, <2>2, <1>1
  <2>4. call'[d].tries = call[d].tries
    BY <1>2
  <2> QED
    BY <2>3, <2>4 DEF Overtaken
<1>7. ASSUME NEW d \in Calls \ {c}, d \notin Busy(call[c].scope) PROVE Overtaken(d)'
  <2>1. call'[d] = call[d] /\ changes'[d] = changes[d]
    BY <1>7 DEF Changed
  <2>2. call[d].pc = "idle" \/ call[d].scope # call[c].scope
    BY <1>7 DEF Busy
  <2>3. Conflicts(d)' => Conflicts(d)
    BY <2>1, <2>2, <1>1 DEF Conflicts, At, TypeOK, CallType
  <2> QED
    BY <2>1, <2>3 DEF Counted, Overtaken
<1> QED
  BY <1>4, <1>5, <1>6, <1>7 DEF Counted

LEMMA StartsCounts ==
  ASSUME TypeOK, Counted, NEW c \in Calls, NEW r \in CallType, Starts(c, r),
         r.tries = 1, r.pc # "write", r.pc \in SetSteps => r.value \in Values
  PROVE  Counted'
<1>1. /\ \A d \in Calls : call[d] \in CallType
      /\ changes \in [Calls -> 0..MaxAttempts]
  BY DEF TypeOK
<1>2. /\ call'[c].pc = r.pc /\ call'[c].value = r.value /\ call'[c].tries = 1
      /\ changes'[c] = 0
  BY <1>1 DEF Starts, CallType
<1>3. ASSUME NEW d \in Calls \ {c}
      PROVE  /\ call'[d].pc = call[d].pc /\ call'[d].value = call[d].value
             /\ call'[d].tries = call[d].tries /\ call'[d].scope = call[d].scope
             /\ call'[d].read = call[d].read /\ changes'[d] = changes[d]
  BY <1>1, <1>3 DEF Starts, CallType
<1>4. ValuesGiven'
  BY <1>2, <1>3 DEF Counted, ValuesGiven, Setting
<1>5. Overtaken(c)'
  BY <1>2 DEF Overtaken, Conflicts, At
<1>6. ASSUME NEW d \in Calls \ {c} PROVE Overtaken(d)'
  BY <1>3, <1>6 DEF Counted, Overtaken, Conflicts, At, Starts
<1> QED
  BY <1>4, <1>5, <1>6 DEF Counted

LEMMA StepCounts ==
  ASSUME TypeOK, Counted, NEW c \in Calls, Step(c)
  PROVE  Counted'
<1>t. call[c] \in CallType /\ call[c].tries \in 1..MaxAttempts
  BY DEF TypeOK, CallType
<1>1. CASE Set(c)
  <2>1. PICK s \in Scopes, v \in Values :
          Starts(c, [Idle EXCEPT !.pc = "load", !.scope = s, !.value = v])
    BY <1>1 DEF Set
  <2> DEFINE r == [Idle EXCEPT !.pc = "load", !.scope = s, !.value = v]
  <2>2. r \in CallType /\ r.tries = 1 /\ r.pc = "load" /\ r.value \in Values
    BY IdleType DEF CallType, SetSteps, Idle
  <2> HIDE DEF r
  <2>3. Starts(c, r)
    BY <2>1 DEF r
  <2> QED
    BY <2>2, <2>3, StartsCounts
<1>2. CASE Remove(c)
  <2>1. PICK u \in Users :
          Starts(c, [Idle EXCEPT !.pc = "metaCheck", !.scope = Innermost(u),
                                 !.found = Innermost(u) \in row])
    BY <1>2 DEF Remove
  <2> DEFINE q == [Idle EXCEPT !.pc = "metaCheck", !.scope = Innermost(u)]
             r == [q EXCEPT !.found = Innermost(u) \in row]
  <2>2. Innermost(u) \in Scopes
    BY DEF Innermost, Scopes
  <2>3. q \in CallType /\ q.tries = 1 /\ q.pc = "metaCheck"
    BY <2>2, IdleType DEF CallType, RemoveSteps, Idle
  <2>4. (Innermost(u) \in row) \in BOOLEAN
    OBVIOUS
  <2>5. Starts(c, r)
    BY <2>1, Zenon
  <2> HIDE DEF q
  <2>6. r \in CallType
    BY <2>3, <2>4, FoundType, Zenon
  <2>7. r.tries = 1 /\ r.pc = "metaCheck"
    BY <2>3 DEF CallType
  <2> HIDE DEF r
  <2> QED
    BY <2>5, <2>6, <2>7, StartsCounts DEF SetSteps
<1>3. CASE Load(c)
  BY <1>3, ReadsCounts DEF Load, At, Setting, Pcs, SetSteps
<1>4. CASE Find(c)
  BY <1>4, ReadsCounts DEF Find, Pcs, SetSteps, RemoveSteps
<1>5. CASE WriteSucceeds(c)
  BY <1>5, ChangedCounts DEF WriteSucceeds, At, Setting, Pcs, SetSteps
<1>6. CASE DropObject(c)
  BY <1>6, ChangedCounts DEF DropObject, Pcs, SetSteps, RemoveSteps
<1>7. CASE WriteAgain(c)
  <2> DEFINE q == [call[c] EXCEPT !.pc = "load", !.tries = @ + 1]
  <2>1. call[c].tries < MaxAttempts /\ MaxAttempts \in Nat
    BY <1>7, VaultAssumption DEF WriteAgain
  <2>2. call[c].tries + 1 \in 1..MaxAttempts
    BY <2>1, <1>t
  <2>3. /\ q \in CallType /\ q.pc = "load" /\ q.value = call[c].value
        /\ q.tries = call[c].tries + 1
    BY <2>2, <1>t DEF CallType, SetSteps
  <2>4. call' = [call EXCEPT ![c] = q] /\ UNCHANGED <<object, changes>>
    BY <1>7, <1>t DEF WriteAgain, TypeOK
  <2>5. changes[c] >= q.tries - 1
    BY <1>7, <1>t, <2>3 DEF WriteAgain, Counted, Overtaken
  <2>6. q.value \in Values
    BY <1>7, <2>3 DEF WriteAgain, Conflicts, At, Counted, ValuesGiven, Setting, SetSteps
  <2> HIDE DEF q
  <2> QED
    BY <2>3, <2>4, <2>5, <2>6, OneRequestMoves
<1>8. CASE GivesUp(c)
  BY <1>8, EndsCounts DEF GivesUp
<1>9. CASE KeyNotReady(c)
  BY <1>9, GoesCounts DEF KeyNotReady, At, Setting, Pcs, SetSteps
<1>10. CASE FindMetadata(c)
  <2> DEFINE r == [call[c] EXCEPT !.pc = "metaPut"]
             q == [r EXCEPT !.found = call[c].scope \in meta]
  <2>1. /\ r \in CallType /\ r.pc = "metaPut" /\ r.value = call[c].value
        /\ r.tries = call[c].tries
    BY <1>t DEF CallType, SetSteps
  <2>2. (call[c].scope \in meta) \in BOOLEAN
    OBVIOUS
  <2>3. call' = [call EXCEPT ![c] = q] /\ UNCHANGED <<object, changes>>
    BY <1>10, <1>t DEF FindMetadata, TypeOK
  <2> HIDE DEF r
  <2>4. q \in CallType
    BY <2>1, <2>2, FoundType, Zenon
  <2>5. q.pc = r.pc /\ q.value = r.value /\ q.tries = r.tries
    BY <2>1 DEF CallType
  <2> HIDE DEF q
  <2>6. q.value \in Values
    BY <1>10, <2>1, <2>5
       DEF FindMetadata, At, Counted, ValuesGiven, Setting, SetSteps
  <2>7. changes[c] >= q.tries - 1
    BY <2>1, <2>5 DEF Counted, Overtaken
  <2> QED
    BY <2>1, <2>3, <2>4, <2>5, <2>6, <2>7, OneRequestMoves
<1>11. CASE PutMetadata(c)
  BY <1>11, GoesCounts, EndsCounts DEF PutMetadata, At, Setting, Pcs, SetSteps
<1>12. CASE DeleteRow(c)
  BY <1>12, GoesCounts DEF DeleteRow, At, Setting, Pcs, SetSteps
<1>13. CASE CreateRow(c)
  BY <1>13, EndsCounts DEF CreateRow
<1>14. CASE CheckMetadata(c)
  BY <1>14, GoesCounts DEF CheckMetadata, Pcs, SetSteps, RemoveSteps
<1>15. CASE NothingToDrop(c)
  BY <1>15, GoesCounts DEF NothingToDrop, Pcs, SetSteps, RemoveSteps
<1>16. CASE DropMetadata(c)
  BY <1>16, GoesCounts DEF DropMetadata, Pcs, SetSteps, RemoveSteps
<1>17. CASE DropRow(c)
  BY <1>17, EndsCounts DEF DropRow
<1>18. CASE Fails(c)
  BY <1>18, EndsCounts DEF Fails
<1> QED
  BY <1>1, <1>2, <1>3, <1>4, <1>5, <1>6, <1>7, <1>8, <1>9, <1>10, <1>11, <1>12, <1>13,
     <1>14, <1>15, <1>16, <1>17, <1>18 DEF Step
-----------------------------------------------------------------------------
(* The invariant, and what follows from it.                                *)

LEMMA Start == Init => IInv
<1> SUFFICES ASSUME Init PROVE IInv
  OBVIOUS
<1>1. TypeOK
  BY IdleType, VaultAssumption DEF Init, TypeOK, Scopes
<1>2. \A c \in Calls : call[c] = Idle /\ changes[c] = 0
  BY DEF Init
<1>3. Idle.pc = "idle" /\ Idle.tries = 1
  BY DEF Idle
<1> QED
  BY <1>1, <1>2, <1>3
     DEF IInv, Counted, ValuesGiven, Overtaken, Setting, SetSteps, Conflicts, At

LEMMA Induction == IInv /\ [Next]_vars => IInv'
<1> SUFFICES ASSUME IInv, [Next]_vars PROVE IInv'
  OBVIOUS
<1>1. CASE Next
  <2>1. PICK c \in Calls : Step(c)
    BY <1>1 DEF Next
  <2> QED
    BY <2>1, StepKeepsTypes, StepCounts DEF IInv, Counted
<1>2. CASE UNCHANGED vars
  BY <1>2 DEF vars, IInv, TypeOK, Counted, ValuesGiven, Setting, Overtaken, Conflicts, At
<1> QED
  BY <1>1, <1>2

LEMMA Invariance == Spec => []IInv
BY Start, Induction, PTL DEF Spec

\* Rows, metadata, objects and requests stay what they are, and the tries of a
\* request within MAX_WRITE_ATTEMPTS (upsertSecretValue).
THEOREM TypeCorrect == Spec => []TypeOK
<1>1. IInv => TypeOK
  BY DEF IInv
<1> QED
  BY <1>1, Invariance, PTL

\* upsertSecretValue gives up for conflicts only when others have changed the
\* object once for each of its attempts, however many requests there are.
THEOREM RefusalIsEarned == Spec => RefusedAfterConflicts
<1>1. IInv => [\A c \in Calls : GivesUp(c) => changes[c] = MaxAttempts]_vars
  <2> SUFFICES ASSUME IInv, NEW c \in Calls, GivesUp(c) PROVE changes[c] = MaxAttempts
    OBVIOUS
  <2>1. changes[c] \in 0..MaxAttempts /\ MaxAttempts \in Nat
    BY VaultAssumption DEF IInv, TypeOK
  <2>2. changes[c] >= MaxAttempts
    BY DEF IInv, Counted, Overtaken, GivesUp
  <2> QED
    BY <2>1, <2>2
<1> QED
  BY <1>1, Invariance, PTL DEF RefusedAfterConflicts
-----------------------------------------------------------------------------
(* What the store keeps of the requests' promises.                         *)

\* A set has written its value; it has also written the metadata, or found it.
Late == {"metaFind", "metaPut", "rowDelete", "rowCreate"}
MetaThere(c) == \/ call[c].pc \in {"rowDelete", "rowCreate"}
                \/ call[c].pc = "metaPut" /\ call[c].found

\* Between requests the rows, the metadata and the vault show what was promised.
Kept(s) ==
  /\ promise[s] # "unknown" => Busy(s) = {}
  /\ promise[s] \in Values => s \in row /\ s \in meta /\ object[s] = promise[s]
  /\ promise[s] = "removed" => VaultValue(s) = None

\* What a request alone in its scope has done so far is still there.
Undisturbed(c, s) ==
  /\ Busy(s) = {c}
  /\ call[c].pc \in Late => object[s] = call[c].value
  /\ MetaThere(c) => s \in meta
  /\ Removing(c) /\ s \in row => call[c].found
  /\ call[c].pc = "rowDrop" => s \notin meta

\* Where sets and removes have kept apart: what the sets have done is there, the
\* removes have seen the row, and one that is past the object goes on to the row.
KeptApart(s) == \A c, d \in Busy(s) : Setting(c) => Setting(d)
WorkDone(s) ==
  \A c \in Busy(s) : /\ call[c].pc \in Late => object[s] # None
                     /\ MetaThere(c) => s \in meta
                     /\ Removing(c) /\ s \in row => call[c].found
Valued(s) ==
  s \in row /\ VaultValue(s) = None =>
    \E c \in Busy(s) : call[c].pc \in {"metaDrop", "rowDrop"}
Whole(s) == KeptApart(s) /\ WorkDone(s) /\ Valued(s)

InOrder(s) ==
  /\ Kept(s)
  /\ \A c \in Busy(s) : call[c].alone => Undisturbed(c, s)
  /\ s \notin torn => Whole(s)

\* Scopes do not disturb one another.
LEMMA OtherScope ==
  ASSUME NEW s \in Scopes, InOrder(s),
         s \in row' <=> s \in row, s \in meta' <=> s \in meta,
         s \in torn' <=> s \in torn,
         object'[s] = object[s], promise'[s] = promise[s], Busy(s)' = Busy(s),
         \A d \in Busy(s) : call'[d] = call[d]
  PROVE  InOrder(s)'
<1>1. VaultValue(s)' = VaultValue(s)
  BY DEF VaultValue
<1>2. \A d \in Busy(s) : /\ MetaThere(d)' = MetaThere(d)
                         /\ Setting(d)' = Setting(d)
                         /\ Removing(d)' = Removing(d)
  BY DEF MetaThere, Setting, Removing
<1>3. Kept(s)'
  BY <1>1 DEF InOrder, Kept
<1>4. ASSUME NEW c \in Busy(s)', call'[c].alone PROVE Undisturbed(c, s)'
  BY <1>2, <1>4 DEF InOrder, Undisturbed
<1>5. ASSUME s \notin torn' PROVE Whole(s)'
  <2>1. Whole(s)
    BY <1>5 DEF InOrder
  <2>2. KeptApart(s)' /\ WorkDone(s)'
    BY <2>1, <1>2 DEF Whole, KeptApart, WorkDone
  <2>3. Valued(s)'
    BY <2>1, <1>1 DEF Whole, Valued
  <2> QED
    BY <2>2, <2>3 DEF Whole
<1> QED
  BY <1>3, <1>4, <1>5 DEF InOrder

\* So a request that leaves the rest of its scope's state to itself disturbs no
\* other scope.
LEMMA ElsewhereInOrder ==
  ASSUME TypeOK, NEW c \in Calls, NEW s \in Scopes \ {call[c].scope}, InOrder(s),
         s \in row' <=> s \in row, s \in meta' <=> s \in meta,
         s \in torn' <=> s \in torn,
         object'[s] = object[s], promise'[s] = promise[s],
         \A d \in Calls \ {c} : call[d].scope = s => call'[d] = call[d],
         \A d \in Calls \ {c} : /\ call'[d].scope = call[d].scope
                                /\ call'[d].pc = call[d].pc,
         call'[c].pc = "idle" \/ call'[c].scope = call[c].scope
  PROVE  InOrder(s)'
<1>1. Busy(s)' = Busy(s)
  BY DEF Busy
<1>2. \A d \in Busy(s) : call'[d] = call[d]
  BY DEF Busy
<1> QED
  BY <1>1, <1>2, OtherScope

\* A request goes on, and neither its value nor the row it will delete changes:
\* what it, q, relies on in its new place must be there.
LEMMA GoesOn ==
  ASSUME TypeOK, NEW c \in Calls, NEW s \in Scopes, s = call[c].scope, InOrder(s),
         call[c].pc # "idle",
         NEW q \in CallType, call' = [call EXCEPT ![c] = q],
         q.pc # "idle", q.scope = s, q.value = call[c].value, q.alone = call[c].alone,
         (q.pc \in SetSteps <=> Setting(c)), Removing(c) => q.found = call[c].found,
         UNCHANGED <<object, promise, torn>>,
         s \in row' => s \in row, Setting(c) /\ s \in meta => s \in meta',
         q.pc \in Late => call[c].pc \in Late,
         (call[c].alone \/ s \notin torn) /\ MetaThere(c)' => s \in meta',
         q.pc = "rowDrop" => s \notin meta',
         \/ q.pc \in {"metaDrop", "rowDrop"}
         \/ call[c].pc \notin {"metaDrop", "rowDrop"} /\ (s \in meta => s \in meta')
  PROVE  InOrder(s)'
<1>1. call'[c] = q /\ \A d \in Calls \ {c} : call'[d] = call[d]
  BY DEF TypeOK
<1>2. Busy(s)' = Busy(s) /\ c \in Busy(s)
  BY <1>1 DEF Busy
<1>3. \A d \in Calls \ {c} : /\ MetaThere(d)' = MetaThere(d)
                             /\ Setting(d)' = Setting(d)
                             /\ Removing(d)' = Removing(d)
  BY <1>1 DEF MetaThere, Setting, Removing
<1>4. Setting(c)' = Setting(c) /\ Removing(c)' = Removing(c)
  <2>1. call[c] \in CallType /\ (SetSteps \cap RemoveSteps) = {}
    BY DEF TypeOK, SetSteps, RemoveSteps
  <2> QED
    BY <2>1, <1>1 DEF Setting, Removing, CallType
<1>5. promise[s] = "unknown"
  BY <1>2 DEF InOrder, Kept
<1>6. Kept(s)'
  BY <1>2, <1>5, VaultAssumption DEF Kept
<1>7. ASSUME NEW d \in Busy(s)', call'[d].alone PROVE Undisturbed(d, s)'
  <2>1. call[d].alone /\ d \in Busy(s)
    BY <1>1, <1>2, <1>7
  <2>2. Undisturbed(d, s) /\ d = c
    BY <2>1, <1>2 DEF InOrder, Undisturbed
  <2> QED
    BY <2>1, <2>2, <1>1, <1>2, <1>4 DEF Undisturbed
<1>8. ASSUME s \notin torn' PROVE Whole(s)'
  <2>1. KeptApart(s) /\ WorkDone(s) /\ Valued(s)
    BY <1>8 DEF InOrder, Whole
  <2>2. KeptApart(s)'
    <3>1. \A d \in Busy(s) : Setting(d)' = Setting(d)
      BY <1>3, <1>4 DEF Busy
    <3> QED
      BY <2>1, <3>1, <1>2 DEF KeptApart
  <2>3. ASSUME NEW d \in Busy(s)
        PROVE  /\ call'[d].pc \in Late => object[s] # None
               /\ MetaThere(d)' => s \in meta'
               /\ Removing(d)' /\ s \in row' => call'[d].found
    <3>1. CASE d = c
      BY <2>1, <3>1, <1>1, <1>2, <1>4, <1>8 DEF WorkDone
    <3>2. CASE d # c
      <4>1. d \in Calls \ {c}
        BY <3>2 DEF Busy
      <4>2. MetaThere(d) => Setting(d)
        BY DEF MetaThere, Setting, SetSteps
      <4>3. MetaThere(d) => s \in meta /\ Setting(c)
        BY <2>1, <4>2, <1>2 DEF WorkDone, KeptApart
      <4> QED
        BY <2>1, <4>1, <4>3, <1>1, <1>2, <1>3 DEF WorkDone
    <3> QED
      BY <3>1, <3>2
  <2>4. WorkDone(s)'
    BY <2>3, <1>2 DEF WorkDone
  <2>5. Valued(s)'
    <3>1. CASE q.pc \in {"metaDrop", "rowDrop"}
      BY <3>1, <1>1, <1>2 DEF Valued
    <3>2. CASE q.pc \notin {"metaDrop", "rowDrop"}
      <4>1. s \in row' /\ VaultValue(s)' = None => s \in row /\ VaultValue(s) = None
        BY <3>2 DEF VaultValue
      <4>2. \A d \in Busy(s) : call[d].pc \in {"metaDrop", "rowDrop"} =>
                                  call'[d].pc \in {"metaDrop", "rowDrop"}
        BY <3>2, <1>1 DEF Busy
      <4> QED
        BY <2>1, <4>1, <4>2, <1>2 DEF Valued
    <3> QED
      BY <3>1, <3>2
  <2> QED
    BY <2>2, <2>4, <2>5 DEF Whole
<1> QED
  BY <1>6, <1>7, <1>8 DEF InOrder

\* A request ends.
LEMMA EndsInOrder ==
  ASSUME TypeOK, NEW c \in Calls, NEW s \in Scopes, s = call[c].scope, InOrder(s),
         call[c].pc # "idle", call' = [call EXCEPT ![c] = Idle], object' = object,
         \/ /\ (s \in row' <=> s \in row) /\ meta' = meta /\ Error(c)
         \/ /\ call[c].pc = "rowCreate" /\ call[c].value \in Values
            /\ s \in row' /\ meta' = meta /\ Done(c)
         \/ /\ call[c].pc = "rowDrop" /\ meta' = meta /\ Done(c)
            /\ (s \in row' <=> s \in row /\ ~call[c].found)
  PROVE  InOrder(s)'
<1>1. Idle.pc = "idle" /\ "idle" \notin SetSteps \cup RemoveSteps
  BY DEF Idle, SetSteps, RemoveSteps
<1>2. call'[c] = Idle /\ \A d \in Calls \ {c} : call'[d] = call[d]
  BY DEF TypeOK
<1>3. Busy(s)' = Busy(s) \ {c} /\ c \in Busy(s)
  BY <1>1, <1>2 DEF Busy
<1>4. \A d \in Busy(s)' : /\ d \in Busy(s) /\ call'[d] = call[d]
                          /\ MetaThere(d)' = MetaThere(d)
                          /\ Setting(d)' = Setting(d)
                          /\ Removing(d)' = Removing(d)
  BY <1>2, <1>3 DEF MetaThere, Setting, Removing, Busy
<1>5. promise[s] = "unknown"
  BY <1>3 DEF InOrder, Kept
<1>6. call[c].pc = "rowCreate" => Setting(c) /\ MetaThere(c) /\ call[c].pc \in Late
  BY DEF Setting, SetSteps, MetaThere, Late
<1>7. call[c].pc = "rowDrop" => Removing(c) /\ ~Setting(c)
  BY DEF Setting, SetSteps, Removing, RemoveSteps
<1>8. call[c].alone => Undisturbed(c, s)
  BY <1>3 DEF InOrder
<1>9. Kept(s)'
  <2>1. CASE promise'[s] = "unknown"
    BY <2>1, VaultAssumption DEF Kept
  <2>2. CASE promise'[s] # "unknown"
    <3>1. Done(c) /\ call[c].alone /\ ~Error(c)
      BY <2>2, <1>5 DEF Done, Error
    <3>2. Busy(s)' = {}
      BY <3>1, <1>3, <1>8 DEF Undisturbed
    <3>3. promise'[s] = IF Setting(c) THEN call[c].value ELSE "removed"
      BY <3>1 DEF Done, TypeOK
    <3>4. CASE call[c].pc = "rowCreate"
      <4>1. object'[s] = call[c].value /\ s \in meta' /\ s \in row'
        BY <3>1, <3>4, <1>6, <1>8 DEF Undisturbed
      <4>2. call[c].value \in Values
        BY <3>1, <3>4
      <4> QED
        BY <3>2, <3>3, <4>1, <4>2, <1>6, <3>4, VaultAssumption DEF Kept
    <3>5. CASE call[c].pc = "rowDrop"
      <4>1. s \notin meta'
        BY <3>1, <3>5, <1>8 DEF Undisturbed
      <4> QED
        BY <3>2, <3>3, <3>5, <4>1, <1>7, VaultAssumption DEF Kept, VaultValue
    <3> QED
      BY <3>1, <3>4, <3>5
  <2> QED
    BY <2>1, <2>2
<1>10. ASSUME NEW d \in Busy(s)', call'[d].alone PROVE Undisturbed(d, s)'
  BY <1>3, <1>4, <1>10 DEF InOrder, Undisturbed
<1>11. ASSUME s \notin torn', s \notin torn PROVE Whole(s)'
  <2>1. KeptApart(s) /\ WorkDone(s) /\ Valued(s)
    BY <1>11 DEF InOrder, Whole
  <2>2. KeptApart(s)'
    BY <2>1, <1>4 DEF KeptApart
  <2>3. ASSUME NEW d \in Busy(s)'
        PROVE  /\ call'[d].pc \in Late => object[s] # None
               /\ MetaThere(d)' => s \in meta'
               /\ Removing(d)' /\ s \in row' => call'[d].found
    <3>1. Removing(d) => (s \in row' => s \in row)
      <4>1. ~(Removing(d) /\ Setting(d))
        BY DEF Removing, Setting, SetSteps, RemoveSteps
      <4>2. Setting(c) => Setting(d)
        BY <2>1, <1>3, <1>4 DEF KeptApart
      <4> QED
        BY <4>1, <4>2, <1>6
    <3> QED
      BY <2>1, <3>1, <1>4 DEF WorkDone, Error, Done
  <2>4. WorkDone(s)'
    BY <2>3 DEF WorkDone
  <2>5. Valued(s)'
    <3>1. CASE Error(c) /\ (s \in row' <=> s \in row) /\ meta' = meta
      <4>1. call[c].pc \notin {"metaDrop", "rowDrop"}
        BY <3>1, <1>11 DEF Error
      <4>2. VaultValue(s)' = VaultValue(s)
        BY <3>1 DEF VaultValue
      <4>3. \A d \in Busy(s) : call[d].pc \in {"metaDrop", "rowDrop"} =>
              d \in Busy(s)' /\ call'[d].pc \in {"metaDrop", "rowDrop"}
        BY <4>1, <1>2, <1>3 DEF Busy
      <4> QED
        BY <2>1, <3>1, <4>2, <4>3 DEF Valued
    <3>2. CASE call[c].pc = "rowCreate" /\ meta' = meta
      BY <2>1, <3>2, <1>3, <1>6 DEF WorkDone, Valued, VaultValue
    <3>3. CASE call[c].pc = "rowDrop" /\ (s \in row' <=> s \in row /\ ~call[c].found)
      BY <2>1, <3>3, <1>3, <1>7 DEF WorkDone, Valued
    <3> QED
      BY <3>1, <3>2, <3>3
  <2> QED
    BY <2>2, <2>4, <2>5 DEF Whole
<1>12. ASSUME s \notin torn', s \in torn PROVE Whole(s)'
  <2>1. Done(c) /\ call[c].alone
    BY <1>12 DEF Done, Error
  <2>2. Busy(s)' = {}
    BY <2>1, <1>3, <1>8 DEF Undisturbed
  <2>3. Valued(s)'
    <3>0. ~Error(c)
      BY <1>12, <2>1 DEF Error, Undisturbed
    <3>1. CASE call[c].pc = "rowCreate" /\ meta' = meta
      <4>1. call[c].value # None
        BY <3>0, <3>1, VaultAssumption
      <4> QED
        BY <2>1, <3>1, <4>1, <1>6, <1>8 DEF Undisturbed, Valued, VaultValue
    <3>2. CASE call[c].pc = "rowDrop" /\ (s \in row' <=> s \in row /\ ~call[c].found)
      BY <2>1, <3>2, <1>7, <1>8 DEF Undisturbed, Valued
    <3> QED
      BY <3>0, <3>1, <3>2
  <2> QED
    BY <2>2, <2>3 DEF Whole, KeptApart, WorkDone
<1> QED
  BY <1>9, <1>10, <1>11, <1>12 DEF InOrder

\* A request changes the object: a set to a value, a remove to none.
LEMMA ChangesInOrder ==
  ASSUME TypeOK, NEW c \in Calls, NEW s \in Scopes, s = call[c].scope, InOrder(s),
         NEW pc, NEW outcome, Changed(c, pc, outcome),
         UNCHANGED <<row, meta>>,
         NEW v, object' = [object EXCEPT ![s] = v],
         \/ /\ call[c].pc = "write" /\ pc = "metaFind"
            /\ v = call[c].value /\ v \in Values
         \/ call[c].pc = "drop" /\ pc = "metaDrop" /\ v = None
  PROVE  InOrder(s)'
<1>1. \A d \in Calls : call[d] \in CallType
  BY DEF TypeOK
<1>2. \A d \in Calls : /\ call'[d].scope = call[d].scope
                       /\ call'[d].value = call[d].value
                       /\ call'[d].alone = call[d].alone
                       /\ call'[d].found = call[d].found
                       /\ d # c => call'[d].pc = call[d].pc
  BY <1>1 DEF Changed, CallType
<1>3. call'[c].pc = pc
  BY <1>1 DEF Changed, CallType
<1>4. pc # "idle" /\ call[c].pc # "idle"
  OBVIOUS
<1>5. Busy(s)' = Busy(s) /\ c \in Busy(s)
  BY <1>2, <1>3, <1>4 DEF Busy
<1>6. \A d \in Calls : /\ Setting(d)' = Setting(d)
                       /\ Removing(d)' = Removing(d)
                       /\ MetaThere(d)' => MetaThere(d)
  BY <1>2, <1>3 DEF Setting, Removing, MetaThere, SetSteps, RemoveSteps
<1>7. object'[s] = v
  BY DEF TypeOK
<1>8. promise'[s] = "unknown" /\ promise' = promise /\ torn' = torn
  BY <1>5 DEF InOrder, Kept, Changed
<1>9. Kept(s)'
  BY <1>8, VaultAssumption DEF Kept
<1>10. ASSUME NEW d \in Busy(s)', call'[d].alone PROVE Undisturbed(d, s)'
  <2>1. d \in Busy(s) /\ call[d].alone
    BY <1>10, <1>2, <1>5 DEF Busy
  <2>2. Undisturbed(d, s) /\ d = c
    BY <2>1, <1>5 DEF InOrder, Undisturbed
  <2>3. pc \in Late => v = call[c].value
    BY DEF Late
  <2> QED
    BY <2>2, <2>3, <1>2, <1>3, <1>5, <1>6, <1>7 DEF Undisturbed
<1>11. ASSUME s \notin torn' PROVE Whole(s)'
  <2>1. KeptApart(s) /\ WorkDone(s) /\ Valued(s)
    BY <1>8, <1>11 DEF InOrder, Whole
  <2>2. KeptApart(s)'
    BY <2>1, <1>5, <1>6 DEF KeptApart, Busy
  <2>3. ASSUME NEW d \in Busy(s), call'[d].pc \in Late PROVE v # None
    <3>1. CASE v \in Values
      BY <3>1, VaultAssumption
    <3>2. CASE pc = "metaDrop" /\ call[c].pc = "drop"
      <4>1. ~Setting(c)
        BY <3>2 DEF Setting, SetSteps
      <4>2. d # c
        BY <3>2, <2>3, <1>3 DEF Late
      <4>3. Setting(d)
        BY <4>2, <2>3, <1>2 DEF Setting, SetSteps, Late, Busy
      <4> QED
        BY <4>1, <4>3, <2>1, <1>5 DEF KeptApart
    <3> QED
      BY <3>1, <3>2
  <2>4. WorkDone(s)'
    BY <2>1, <2>3, <1>2, <1>5, <1>6, <1>7 DEF WorkDone, Busy
  <2>5. Valued(s)'
    <3>1. CASE v \in Values
      <4>1. s \in meta => VaultValue(s)' # None
        BY <3>1, <1>7, VaultAssumption DEF VaultValue
      <4>2. s \notin meta => VaultValue(s)' = VaultValue(s)
        BY DEF VaultValue
      <4>3. call[c].pc \in {"metaDrop", "rowDrop"} => FALSE
        OBVIOUS
      <4>4. \A d \in Busy(s) : call[d].pc \in {"metaDrop", "rowDrop"} =>
                                  call'[d].pc \in {"metaDrop", "rowDrop"}
        BY <4>3, <1>2 DEF Busy
      <4> QED
        BY <2>1, <4>1, <4>2, <4>4, <1>5 DEF Valued
    <3>2. CASE pc = "metaDrop"
      BY <3>2, <1>3, <1>5 DEF Valued
    <3> QED
      BY <3>1, <3>2
  <2> QED
    BY <2>2, <2>4, <2>5 DEF Whole
<1> QED
  BY <1>9, <1>10, <1>11 DEF InOrder

\* A request begins in scope s, at its first step.
LEMMA StartsInOrder ==
  ASSUME TypeOK, NEW c \in Calls, NEW s \in Scopes, InOrder(s),
         NEW r \in CallType, Starts(c, r), r.scope = s,
         \/ r.pc = "load"
         \/ r.pc = "metaCheck" /\ (s \in row => r.found)
  PROVE  InOrder(s)'
<1>1. \A d \in Calls : call[d] \in CallType
  BY DEF TypeOK
<1>2. /\ call'[c].pc = r.pc /\ call'[c].scope = s /\ call'[c].found = r.found
      /\ call'[c].alone = (Busy(s) = {})
  BY <1>1 DEF Starts, CallType
<1>3. ASSUME NEW d \in Calls \ {c}
      PROVE  /\ call'[d].pc = call[d].pc /\ call'[d].value = call[d].value
             /\ call'[d].scope = call[d].scope /\ call'[d].found = call[d].found
             /\ d \in Busy(s) => ~call'[d].alone
  BY <1>1, <1>3 DEF Starts, CallType
<1>4. Busy(s)' = Busy(s) \cup {c} /\ c \notin Busy(s)
  BY <1>2, <1>3 DEF Busy, Starts
<1>5. \A d \in Busy(s) : /\ d \in Calls \ {c}
                         /\ Setting(d)' = Setting(d)
                         /\ Removing(d)' = Removing(d)
                         /\ MetaThere(d)' = MetaThere(d)
  BY <1>3, <1>4 DEF Setting, Removing, MetaThere, Busy
<1>6. ~MetaThere(c)' /\ call'[c].pc \notin Late /\ call'[c].pc # "rowDrop"
  BY <1>2 DEF MetaThere, Late
<1>7. promise'[s] = "unknown"
  BY DEF Starts, TypeOK
<1>8. Removing(c)' /\ s \in row' => call'[c].found
  BY <1>2 DEF Removing, RemoveSteps, Starts
<1>9. Kept(s)'
  BY <1>7, VaultAssumption DEF Kept
<1>10. ASSUME NEW d \in Busy(s)', call'[d].alone PROVE Undisturbed(d, s)'
  <2>1. d = c
    BY <1>10, <1>3, <1>4, <1>5
  <2>2. Busy(s)' = {c}
    BY <2>1, <1>10, <1>2, <1>4
  <2> QED
    BY <2>1, <2>2, <1>6, <1>8 DEF Undisturbed
<1>11. ASSUME s \notin torn' PROVE Whole(s)'
  <2>1. s \notin torn /\ \A d \in Busy(s) : Setting(d) = (r.pc \in SetSteps)
    BY <1>11 DEF Starts
  <2>2. KeptApart(s) /\ WorkDone(s) /\ Valued(s)
    BY <2>1 DEF InOrder, Whole
  <2>3. Setting(c)' = (r.pc \in SetSteps)
    BY <1>2 DEF Setting
  <2>4. KeptApart(s)'
    BY <2>1, <2>3, <1>4, <1>5 DEF KeptApart
  <2>5. WorkDone(s)'
    BY <2>2, <1>3, <1>4, <1>5, <1>6, <1>8 DEF WorkDone, Starts
  <2>6. VaultValue(s)' = VaultValue(s) /\ row' = row
    BY DEF VaultValue, Starts
  <2>7. Valued(s)'
    BY <2>2, <2>6, <1>3, <1>4, <1>5 DEF Valued
  <2> QED
    BY <2>4, <2>5, <2>7 DEF Whole
<1> QED
  BY <1>9, <1>10, <1>11 DEF InOrder

\* The record of c alone changes, and stays in its scope or falls idle.
LEMMA OwnRecord ==
  ASSUME TypeOK, NEW c \in Calls, NEW s \in Scopes \ {call[c].scope}, InOrder(s),
         \/ \E pc \in Pcs : Goes(c, pc) \/ Reads(c, pc)
         \/ Done(c) \/ Error(c)
         \/ /\ call' = [call EXCEPT ![c].pc = "load", ![c].tries = @ + 1]
            /\ UNCHANGED <<promise, torn>>
         \/ /\ call' = [call EXCEPT ![c].pc = "metaPut", ![c].found = call[c].scope \in meta]
            /\ UNCHANGED <<promise, torn>>,
         s \in row' <=> s \in row, s \in meta' <=> s \in meta,
         object'[s] = object[s]
  PROVE  InOrder(s)'
<1>1. call[c] \in CallType /\ call \in [Calls -> CallType]
  BY DEF TypeOK
<1>2. ASSUME UNCHANGED <<promise, torn>>, NEW q, call' = [call EXCEPT ![c] = q],
             q.pc = "idle" \/ q.scope = call[c].scope
      PROVE  InOrder(s)'
  BY <1>1, <1>2, ElsewhereInOrder
<1>3. CASE \E pc \in Pcs : Goes(c, pc) \/ Reads(c, pc)
  <2>1. PICK pc \in Pcs : Goes(c, pc) \/ Reads(c, pc)
    BY <1>3
  <2>2. CASE Goes(c, pc)
    <3> DEFINE q == [call[c] EXCEPT !.pc = pc]
    <3>1. q.scope = call[c].scope
      BY <1>1 DEF CallType
    <3> QED
      BY <2>2, <3>1, <1>1, <1>2 DEF Goes
  <2>3. CASE Reads(c, pc)
    <3> DEFINE q == [call[c] EXCEPT !.pc = pc,
                       !.read = IF object[call[c].scope] = None THEN "absent" ELSE "current"]
    <3>1. q.scope = call[c].scope
      BY <1>1 DEF CallType
    <3>2. call' = [call EXCEPT ![c] = q] /\ UNCHANGED <<promise, torn>>
      BY <2>3, <1>1 DEF Reads
    <3> HIDE DEF q
    <3> QED
      BY <3>1, <3>2, <1>2
  <2> QED
    BY <2>1, <2>2, <2>3
<1>4. CASE Done(c) \/ Error(c)
  <2>1. call' = [call EXCEPT ![c] = Idle] /\ Idle.pc = "idle"
    BY <1>4 DEF Done, Error, Idle
  <2>2. promise'[s] = promise[s] /\ (s \in torn' <=> s \in torn)
    <3>1. CASE Done(c)
      BY <3>1, <1>1 DEF Done, TypeOK
    <3>2. CASE Error(c)
      BY <3>2, <1>1 DEF Error
    <3> QED
      BY <1>4, <3>1, <3>2
  <2> QED
    BY <2>1, <2>2, <1>1, ElsewhereInOrder
<1>5. CASE /\ call' = [call EXCEPT ![c].pc = "load", ![c].tries = @ + 1]
           /\ UNCHANGED <<promise, torn>>
  <2> DEFINE q == [call[c] EXCEPT !.pc = "load", !.tries = @ + 1]
  <2>1. q.scope = call[c].scope
    BY <1>1 DEF CallType
  <2>2. call' = [call EXCEPT ![c] = q]
    BY <1>5, <1>1
  <2> HIDE DEF q
  <2> QED
    BY <2>1, <2>2, <1>2, <1>5
<1>6. CASE /\ call' = [call EXCEPT ![c].pc = "metaPut", ![c].found = call[c].scope \in meta]
           /\ UNCHANGED <<promise, torn>>
  <2> DEFINE q == [call[c] EXCEPT !.pc = "metaPut", !.found = call[c].scope \in meta]
  <2>1. q.scope = call[c].scope
    BY <1>1 DEF CallType
  <2>2. call' = [call EXCEPT ![c] = q]
    BY <1>6, <1>1
  <2> HIDE DEF q
  <2> QED
    BY <2>1, <2>2, <1>2, <1>6
<1> QED
  BY <1>3, <1>4, <1>5, <1>6

LEMMA StepElsewhere ==
  ASSUME TypeOK, NEW c \in Calls, Step(c), call[c].pc # "idle",
         NEW s \in Scopes \ {call[c].scope}, InOrder(s)
  PROVE  InOrder(s)'
<1>1. CASE Set(c) \/ Remove(c)
  BY <1>1 DEF Set, Remove, Starts
<1>2. CASE WriteSucceeds(c) \/ DropObject(c)
  <2>1. PICK pc, outcome : Changed(c, pc, outcome)
    BY <1>2 DEF WriteSucceeds, DropObject
  <2>2. \A d \in Calls : call[d] \in CallType
    BY DEF TypeOK
  <2>3. \A d \in Calls \ {c} : call[d].scope = s => call'[d] = call[d]
    BY <2>1, <2>2 DEF Changed, Busy
  <2>4. \A d \in Calls \ {c} : /\ call'[d].scope = call[d].scope
                               /\ call'[d].pc = call[d].pc
    BY <2>1, <2>2 DEF Changed, CallType
  <2>5. call'[c].scope = call[c].scope
    BY <2>1, <2>2 DEF Changed, CallType
  <2>6. object'[s] = object[s]
    BY <1>2 DEF WriteSucceeds, DropObject, TypeOK
  <2> QED
    BY <1>2, <2>1, <2>3, <2>4, <2>5, <2>6, ElsewhereInOrder
       DEF WriteSucceeds, DropObject, Changed
<1>3. CASE Load(c) \/ Find(c)
  BY <1>3, OwnRecord DEF Load, Find, Reads, Pcs, SetSteps, RemoveSteps
<1>4. CASE WriteAgain(c)
  BY <1>4, OwnRecord DEF WriteAgain
<1>5. CASE FindMetadata(c)
  BY <1>5, OwnRecord DEF FindMetadata
<1>6. CASE GivesUp(c) \/ Fails(c)
  BY <1>6, OwnRecord DEF GivesUp, Fails
<1>7. CASE KeyNotReady(c) \/ CheckMetadata(c) \/ NothingToDrop(c)
  BY <1>7, OwnRecord DEF KeyNotReady, CheckMetadata, NothingToDrop, Pcs, SetSteps, RemoveSteps
<1>8. CASE \/ PutMetadata(c) \/ DeleteRow(c) \/ DropMetadata(c)
           \/ CreateRow(c) \/ DropRow(c)
  <2>1. s \in row' <=> s \in row
    BY <1>8 DEF PutMetadata, DeleteRow, DropMetadata, CreateRow, DropRow
  <2>2. s \in meta' <=> s \in meta
    BY <1>8 DEF PutMetadata, DeleteRow, DropMetadata, CreateRow, DropRow
  <2>3. object' = object
    BY <1>8 DEF PutMetadata, DeleteRow, DropMetadata, CreateRow, DropRow
  <2>4. \/ \E pc \in Pcs : Goes(c, pc)
        \/ Done(c) \/ Error(c)
    BY <1>8 DEF PutMetadata, DeleteRow, DropMetadata, CreateRow, DropRow, Pcs,
                SetSteps, RemoveSteps
  <2> QED
    BY <2>1, <2>2, <2>3, <2>4, OwnRecord
<1> QED
  BY <1>1, <1>2, <1>3, <1>4, <1>5, <1>6, <1>7, <1>8 DEF Step

LEMMA StartsElsewhere ==
  ASSUME TypeOK, NEW c \in Calls, NEW r \in CallType, Starts(c, r),
         NEW s \in Scopes \ {r.scope}, InOrder(s)
  PROVE  InOrder(s)'
<1>1. \A d \in Calls : call[d] \in CallType
  BY DEF TypeOK
<1>2. call'[c].scope = r.scope /\ c \notin Busy(s)
  BY <1>1 DEF Starts, CallType, Busy
<1>3. \A d \in Calls \ {c} : /\ call'[d].scope = call[d].scope
                             /\ call'[d].pc = call[d].pc
                             /\ call[d].scope = s => call'[d] = call[d]
  BY <1>1 DEF Starts, CallType, Busy
<1>4. Busy(s)' = Busy(s) /\ \A d \in Busy(s) : call'[d] = call[d]
  BY <1>2, <1>3 DEF Busy
<1>5. promise'[s] = promise[s] /\ (s \in torn' <=> s \in torn)
  BY DEF Starts, TypeOK
<1> QED
  BY <1>4, <1>5, OtherScope DEF Starts

\* A request that goes on, with nothing of it changed but the step it is at.
LEMMA GoesInOrder ==
  ASSUME TypeOK, NEW c \in Calls, NEW s \in Scopes, s = call[c].scope, InOrder(s),
         call[c].pc # "idle", NEW pc \in Pcs \ {"idle"}, Goes(c, pc), object' = object,
         pc \in SetSteps <=> Setting(c),
         s \in row' => s \in row, Setting(c) /\ s \in meta => s \in meta',
         pc \in Late => call[c].pc \in Late,
         pc # "metaPut", pc \in {"rowDelete", "rowCreate"} /\ (call[c].alone \/ s \notin torn) => s \in meta',
         pc = "rowDrop" => s \notin meta',
         \/ pc \in {"metaDrop", "rowDrop"}
         \/ call[c].pc \notin {"metaDrop", "rowDrop"} /\ (s \in meta => s \in meta')
  PROVE  InOrder(s)'
<1> DEFINE q == [call[c] EXCEPT !.pc = pc]
<1>1. call[c] \in CallType /\ call \in [Calls -> CallType]
  BY DEF TypeOK
<1>2. /\ q \in CallType /\ q.pc = pc /\ q.scope = s /\ q.value = call[c].value
      /\ q.alone = call[c].alone /\ q.found = call[c].found
  BY <1>1 DEF CallType, Pcs
<1>3. call' = [call EXCEPT ![c] = q] /\ UNCHANGED <<object, promise, torn>>
  BY DEF Goes
<1> HIDE DEF q
<1>4. call'[c].pc = pc
  BY <1>1, <1>2, <1>3
<1>5. (call[c].alone \/ s \notin torn) /\ MetaThere(c)' => s \in meta'
  BY <1>4 DEF MetaThere
<1> QED
  BY <1>2, <1>3, <1>5, GoesOn

\* One that is alone in its scope, or in one without a mixture of sets and
\* removes, can rely on what it has done.
LEMMA Relies ==
  ASSUME TypeOK, NEW c \in Calls, NEW s \in Scopes, s = call[c].scope, InOrder(s),
         call[c].pc # "idle", call[c].alone \/ s \notin torn
  PROVE  MetaThere(c) => s \in meta
BY DEF InOrder, Undisturbed, Whole, WorkDone, Busy

LEMMA StepInOrder ==
  ASSUME TypeOK, ValuesGiven, NEW c \in Calls, Step(c), call[c].pc # "idle",
         NEW s \in Scopes, s = call[c].scope, InOrder(s)
  PROVE  InOrder(s)'
<1>t. call[c] \in CallType /\ call \in [Calls -> CallType]
  BY DEF TypeOK
<1>r. call[c].alone \/ s \notin torn => (MetaThere(c) => s \in meta)
  BY Relies
<1>1. CASE Set(c) \/ Remove(c)
  BY <1>1 DEF Set, Remove, Starts
<1>2. CASE Load(c) \/ Find(c)
  <2> DEFINE pc == IF At(c, "load") THEN "write" ELSE "drop"
             q == [call[c] EXCEPT !.pc = pc,
                     !.read = IF object[call[c].scope] = None THEN "absent" ELSE "current"]
  <2>1. Reads(c, pc) /\ (At(c, "load") \/ At(c, "find"))
    BY <1>2 DEF Load, Find, At
  <2>2. /\ q \in CallType /\ q.pc = pc /\ q.scope = s /\ q.value = call[c].value
        /\ q.alone = call[c].alone /\ q.found = call[c].found
    BY <1>t DEF CallType, SetSteps, RemoveSteps
  <2>3. call' = [call EXCEPT ![c] = q] /\ UNCHANGED <<row, meta, object, promise, torn>>
    BY <2>1, <1>t DEF Reads
  <2> HIDE DEF q
  <2>4. ~MetaThere(c)'
    BY <2>2, <2>3, <1>t DEF MetaThere
  <2>5. (pc \in SetSteps <=> Setting(c)) /\ pc \notin Late
    BY <2>1 DEF At, Setting, SetSteps, Late
  <2>6. pc # "idle" /\ pc # "rowDrop" /\ call[c].pc \notin {"metaDrop", "rowDrop"}
    BY <2>1 DEF At
  <2> HIDE DEF pc
  <2> QED
    BY <2>2, <2>3, <2>4, <2>5, <2>6, GoesOn
<1>3. CASE WriteSucceeds(c)
  <2>1. call[c].value \in Values
    BY <1>3 DEF WriteSucceeds, At, ValuesGiven, Setting, SetSteps
  <2> QED
    BY <2>1, <1>3, ChangesInOrder DEF WriteSucceeds, At
<1>4. CASE DropObject(c)
  BY <1>4, ChangesInOrder DEF DropObject, At
<1>5. CASE WriteAgain(c)
  <2> DEFINE q == [call[c] EXCEPT !.pc = "load", !.tries = @ + 1]
  <2>1. At(c, "write") /\ UNCHANGED <<row, meta, object, promise, torn>>
    BY <1>5 DEF WriteAgain, Conflicts
  <2>2. call[c].tries + 1 \in 1..MaxAttempts
    BY <1>5, <1>t, VaultAssumption DEF WriteAgain, CallType
  <2>3. /\ q \in CallType /\ q.pc = "load" /\ q.scope = s /\ q.value = call[c].value
        /\ q.alone = call[c].alone /\ q.found = call[c].found
    BY <2>2, <1>t DEF CallType, SetSteps
  <2>4. call' = [call EXCEPT ![c] = q]
    BY <1>5, <1>t DEF WriteAgain
  <2> HIDE DEF q
  <2>5. ~MetaThere(c)'
    BY <2>3, <2>4, <1>t DEF MetaThere
  <2>6. (q.pc \in SetSteps <=> Setting(c)) /\ q.pc \notin Late
    BY <2>1, <2>3 DEF At, Setting, SetSteps, Late
  <2> QED
    BY <2>1, <2>3, <2>4, <2>5, <2>6, GoesOn DEF At
<1>6. CASE FindMetadata(c)
  <2> DEFINE r == [call[c] EXCEPT !.pc = "metaPut"]
             q == [r EXCEPT !.found = call[c].scope \in meta]
  <2>1. /\ r \in CallType /\ r.pc = "metaPut" /\ r.scope = s
        /\ r.value = call[c].value /\ r.alone = call[c].alone
    BY <1>t DEF CallType, SetSteps
  <2>2. (call[c].scope \in meta) \in BOOLEAN
    OBVIOUS
  <2>3. call' = [call EXCEPT ![c] = q]
    BY <1>6, <1>t DEF FindMetadata
  <2>4. At(c, "metaFind") /\ UNCHANGED <<row, meta, object, promise, torn>>
    BY <1>6 DEF FindMetadata
  <2> HIDE DEF r
  <2>5. q \in CallType
    BY <2>1, <2>2, FoundType, Zenon
  <2>6. /\ q.pc = "metaPut" /\ q.scope = s /\ q.value = call[c].value
        /\ q.alone = call[c].alone /\ (q.found => s \in meta)
    BY <2>1 DEF CallType
  <2> HIDE DEF q
  <2>7. MetaThere(c)' => s \in meta'
    BY <2>3, <2>4, <2>6, <1>t DEF MetaThere
  <2>8. /\ (q.pc \in SetSteps <=> Setting(c)) /\ ~Removing(c)
        /\ call[c].pc \in Late
    BY <2>4, <2>6 DEF At, Setting, Removing, SetSteps, RemoveSteps, Late
  <2> QED
    BY <2>3, <2>4, <2>5, <2>6, <2>7, <2>8, GoesOn DEF At
<1>7. CASE PutMetadata(c)
  <2>1. At(c, "metaPut") /\ Setting(c) /\ object' = object /\ row' = row
    BY <1>7 DEF PutMetadata, At, Setting, SetSteps
  <2>2. CASE Goes(c, "rowDelete")
    <3>1. call[c].alone \/ s \notin torn => s \in meta'
      BY <1>7, <1>r, <2>1 DEF PutMetadata, MetaThere, At
    <3>2. s \in meta => s \in meta'
      BY <1>7 DEF PutMetadata
    <3> QED
      BY <2>1, <2>2, <3>1, <3>2, GoesInOrder DEF At, Pcs, SetSteps, Late
  <2>3. CASE Error(c) /\ ~(call[c].found \/ s \notin meta)
    <3>1. meta' = meta
      BY <1>7, <2>3 DEF PutMetadata
    <3> QED
      BY <2>1, <2>3, <3>1, EndsInOrder DEF Error
  <2> QED
    BY <1>7, <2>2, <2>3 DEF PutMetadata
<1>8. CASE KeyNotReady(c)
  BY <1>8, GoesInOrder DEF KeyNotReady, At, Setting, Pcs, SetSteps, Late
<1>9. CASE DeleteRow(c)
  <2>1. call[c].alone \/ s \notin torn => s \in meta
    BY <1>9, <1>r DEF DeleteRow, MetaThere, At
  <2> QED
    BY <2>1, <1>9, GoesInOrder DEF DeleteRow, At, Setting, Pcs, SetSteps, Late
<1>10. CASE CheckMetadata(c)
  <2> DEFINE pc == IF s \in meta THEN "find" ELSE "rowDrop"
  <2>1. Goes(c, pc) /\ UNCHANGED <<row, meta, object>> /\ call[c].pc = "metaCheck"
    BY <1>10 DEF CheckMetadata, At
  <2>2. ~Setting(c) /\ pc \in RemoveSteps \ {"idle"} /\ pc \notin SetSteps \cup Late
    BY <2>1 DEF Setting, SetSteps, RemoveSteps, Late
  <2>3. pc = "rowDrop" => s \notin meta'
    BY <2>1
  <2>4. pc \notin {"metaPut", "rowDelete", "rowCreate"}
    OBVIOUS
  <2> HIDE DEF pc
  <2> QED
    BY <2>1, <2>2, <2>3, <2>4, GoesInOrder DEF Pcs
<1>11. CASE NothingToDrop(c)
  BY <1>11, GoesInOrder DEF NothingToDrop, At, Setting, Pcs, SetSteps, RemoveSteps, Late
<1>12. CASE DropMetadata(c)
  BY <1>12, GoesInOrder DEF DropMetadata, At, Setting, Pcs, SetSteps, RemoveSteps, Late
<1>13. CASE GivesUp(c) \/ Fails(c)
  BY <1>13, EndsInOrder DEF GivesUp, Fails, Error
<1>14. CASE CreateRow(c)
  <2>1. call[c].value \in Values
    BY <1>14 DEF CreateRow, At, ValuesGiven, Setting, SetSteps
  <2>2. s \in row' /\ meta' = meta /\ object' = object /\ call[c].pc = "rowCreate"
    BY <1>14 DEF CreateRow, At
  <2>3. Done(c) \/ (Error(c) /\ s \in row)
    BY <1>14 DEF CreateRow
  <2> QED
    BY <2>1, <2>2, <2>3, EndsInOrder DEF Done, Error
<1>15. CASE DropRow(c)
  <2>1. s \in row' <=> s \in row /\ ~call[c].found
    BY <1>15 DEF DropRow
  <2> QED
    BY <2>1, <1>15, EndsInOrder DEF DropRow, At, Done
<1> QED
  BY <1>1, <1>2, <1>3, <1>4, <1>5, <1>6, <1>7, <1>8, <1>9, <1>10, <1>11, <1>12, <1>13,
     <1>14, <1>15 DEF Step

LEMMA StartKeeps == Init => \A s \in Scopes : InOrder(s)
<1> SUFFICES ASSUME Init, NEW s \in Scopes PROVE InOrder(s)
  OBVIOUS
<1>1. Busy(s) = {} /\ VaultValue(s) = None /\ promise[s] = "removed" /\ s \notin row
  BY DEF Init, Busy, Idle, VaultValue
<1> QED
  BY <1>1, VaultAssumption DEF InOrder, Kept, Whole, KeptApart, WorkDone, Valued

LEMMA KeepsInOrder ==
  ASSUME IInv, \A s \in Scopes : InOrder(s), [Next]_vars, NEW s \in Scopes
  PROVE  InOrder(s)'
<1>1. CASE UNCHANGED vars
  <2>1. Busy(s)' = Busy(s)
    BY <1>1 DEF vars, Busy
  <2> QED
    BY <1>1, <2>1, OtherScope DEF vars
<1>2. ASSUME NEW c \in Calls, Step(c), call[c].pc # "idle" PROVE InOrder(s)'
  <2>1. CASE s = call[c].scope
    BY <1>2, <2>1, StepInOrder DEF IInv, Counted
  <2>2. CASE s # call[c].scope
    BY <1>2, <2>2, StepElsewhere DEF IInv
  <2> QED
    BY <2>1, <2>2
<1>3. ASSUME NEW c \in Calls, Set(c) PROVE InOrder(s)'
  <2>1. PICK x \in Scopes, v \in Values :
          Starts(c, [Idle EXCEPT !.pc = "load", !.scope = x, !.value = v])
    BY <1>3 DEF Set
  <2> DEFINE r == [Idle EXCEPT !.pc = "load", !.scope = x, !.value = v]
  <2>2. r \in CallType /\ r.pc = "load"
    BY IdleType DEF CallType, SetSteps, Idle
  <2> HIDE DEF r
  <2>3. Starts(c, r)
    BY <2>1 DEF r
  <2> QED
    BY <2>2, <2>3, StartsInOrder, StartsElsewhere DEF IInv
<1>4. ASSUME NEW c \in Calls, Remove(c) PROVE InOrder(s)'
  <2>1. PICK u \in Users :
          Starts(c, [Idle EXCEPT !.pc = "metaCheck", !.scope = Innermost(u),
                                 !.found = Innermost(u) \in row])
    BY <1>4 DEF Remove
  <2> DEFINE q == [Idle EXCEPT !.pc = "metaCheck", !.scope = Innermost(u)]
             r == [q EXCEPT !.found = Innermost(u) \in row]
  <2>2. Innermost(u) \in Scopes
    BY DEF Innermost, Scopes
  <2>3. q \in CallType /\ q.scope = Innermost(u) /\ q.pc = "metaCheck"
    BY <2>2, IdleType DEF CallType, RemoveSteps, Idle
  <2>4. (Innermost(u) \in row) \in BOOLEAN
    OBVIOUS
  <2>5. Starts(c, r)
    BY <2>1, Zenon
  <2> HIDE DEF q
  <2>6. r \in CallType
    BY <2>3, <2>4, FoundType, Zenon
  <2>7. r.pc = "metaCheck" /\ (r.scope \in row => r.found)
    BY <2>3 DEF CallType
  <2> HIDE DEF r
  <2> QED
    BY <2>5, <2>6, <2>7, StartsInOrder, StartsElsewhere DEF IInv
<1>5. ASSUME NEW c \in Calls, Step(c), call[c].pc = "idle" PROVE Set(c) \/ Remove(c)
  BY <1>5 DEF Step, Load, Find, WriteSucceeds, WriteAgain, GivesUp, Conflicts, KeyNotReady,
     FindMetadata, PutMetadata, DeleteRow, CreateRow, CheckMetadata, NothingToDrop,
     DropObject, DropMetadata, DropRow, Fails, At
<1> QED
  BY <1>1, <1>2, <1>3, <1>4, <1>5 DEF Next

LEMMA AlwaysInOrder == Spec => [](IInv /\ \A s \in Scopes : InOrder(s))
<1> DEFINE J == IInv /\ \A s \in Scopes : InOrder(s)
<1>1. Init => J
  BY Start, StartKeeps
<1>2. J /\ [Next]_vars => J'
  BY Induction, KeepsInOrder DEF Scopes
<1> QED
  BY <1>1, <1>2, PTL DEF Spec

\* A request alone in its scope that was answered well has done what it says, and
\* it stays: what secretsSet wrote is what the user's get finds, and what
\* secretsRemove removed nobody gets, whatever goes on in other scopes and
\* whatever races and failures came before.
THEOREM PromisesAreKept == Spec => []PromisesKept
<1>1. (\A s \in Scopes : InOrder(s)) => PromisesKept
  <2> SUFFICES ASSUME \A s \in Scopes : InOrder(s), NEW u \in Users
               PROVE  /\ promise[u] \in Values => Resolve(u) = promise[u]
                      /\ promise[u] = "removed" /\ promise[Org] \in Values =>
                            Resolve(u) = promise[Org]
                      /\ promise[u] = "removed" /\ promise[Org] = "removed" =>
                            Resolve(u) = None
    BY DEF PromisesKept
  <2>1. Kept(u) /\ Kept(Org)
    BY DEF InOrder, Scopes
  <2>2. ASSUME NEW s \in {u, Org}
        PROVE  /\ promise[s] \in Values => Listed(s) = promise[s] /\ Listed(s) # None
               /\ promise[s] = "removed" => Listed(s) = None /\ VaultValue(s) = None
    BY <2>1, VaultAssumption DEF Kept, Listed, VaultValue
  <2> QED
    BY <2>2 DEF Resolve
<1> QED
  BY <1>1, AlwaysInOrder, PTL

\* A row of the table `secret` has its value in the vault once no request is at
\* work on its scope, unless a remove overlapped a set or stopped after the
\* object (the rows are written last by secretsSet and dropped last by
\* secretsRemove).
THEOREM ListedSecretsHaveValues == Spec => []ListedHasValue
<1>1. (\A s \in Scopes : InOrder(s)) /\ IInv => ListedHasValue
  <2> SUFFICES ASSUME \A s \in Scopes : InOrder(s), IInv,
                      NEW s \in row \ torn, Busy(s) = {}
               PROVE  VaultValue(s) # None
    BY DEF ListedHasValue
  <2>1. s \in Scopes
    BY DEF IInv, TypeOK
  <2> QED
    BY <2>1 DEF InOrder, Whole, Valued
<1> QED
  BY <1>1, AlwaysInOrder, PTL
=============================================================================

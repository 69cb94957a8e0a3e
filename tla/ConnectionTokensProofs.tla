------------------------- MODULE ConnectionTokensProofs -------------------------
(***************************************************************************)
(* Proofs about ConnectionTokens, for any number of calls, sign-ins,       *)
(* removals and executors.                                                 *)
(***************************************************************************)
EXTENDS ConnectionTokens, TLAPS

(* An operation that holds a pair it has not stored yet.                   *)
Holding(i) == i \notin Remove /\ pc[i] \in {"find", "begin", "access", "refresh"}

(* Where the Deferreds are: a call that leads is in the slot, and whom a   *)
(* waiter awaits led on the waiter's executor.                             *)
Flight ==
  /\ \A i \in Op : pc[i] \in {"idle", "peek", "gate"} => leader[i] = NoOp
  /\ \A i \in Invoke :
       pc[i] \in {"lead", "call", "find", "begin", "access", "refresh", "commit"} =>
         leader[i] = i
  /\ \A i \in Op : pc[i] = "wait" => leader[i] \notin {NoOp, i}
  /\ \A i \in Op : leader[i] # NoOp =>
       /\ leader[leader[i]] = leader[i]
       /\ RunsOn[leader[i]] = RunsOn[i]
  /\ \A i \in Op : Leads(i) => slot[RunsOn[i]] = i
  /\ \A x \in Executor, i \in Op : slot[x] = i => Leads(i) /\ RunsOn[i] = x

(* Token pairs are issued in sequence, and a pair that is not stored yet   *)
(* is known to its operation alone.                                        *)
Pairs ==
  /\ refresh <= issued
  /\ \A t \in honoured : t <= issued
  /\ \A i \in Op : used[i] <= issued /\ got[i] <= issued
  /\ \A i \in Op : Holding(i) =>
       /\ got[i] # None /\ got[i] # refresh
       /\ \A j \in Op : used[j] # got[i]
       /\ \A j \in Op \ {i} : got[j] # got[i]
  /\ \A i \in Invoke : got[i] # None => Holding(i) \/ pc[i] = "commit"
  /\ \A i \in Reauth : Holding(i) => got[i] \in honoured
  /\ \A i \in Reauth : pc[i] = "commit" => got[i] # None

(* What the server accepts as long as no leader was cut.                   *)
Kept ==
  /\ \A i \in Invoke : got[i] # None => outcome[i] = "none"
  /\ \A i \in Invoke : rotates /\ Holding(i) => got[i] \in honoured
  /\ \A i \in Invoke : Leads(i) /\ pc[i] = "call" => used[i] \in honoured \cup {None}
  /\ refresh \in honoured \cup {None} \/ (rotates /\ \E i \in Invoke : Holding(i))

IInv == TypeOK /\ Flight /\ Pairs /\ (cut \/ Kept)

OneExecutor == \A x, y \in Executor : x = y

--------------------------------------------------------------------------------

LEMMA Ops ==
  /\ Invoke \subseteq Op /\ Reauth \subseteq Op /\ Remove \subseteq Op
  /\ \A i \in Op : RunsOn[i] \in Executor
  /\ \A i \in Op : i # NoOp
BY ConnectionAssumption DEF Op

(* The types of the variables that most actions change.                    *)
FiberTypes ==
  /\ pc \in [Op -> PcValue]
  /\ used \in [Op -> Token \cup {None}]
  /\ got \in [Op -> Token \cup {None}]
  /\ outcome \in [Op -> Outcome]
  /\ slot \in [Executor -> Invoke \cup {NoOp}]

OtherTypes ==
  /\ database \in Databases
  /\ rotates \in BOOLEAN
  /\ issued \in Token
  /\ grantOf \in [Token -> Token \cup {None}]
  /\ honoured \subseteq Token
  /\ row \in {"absent", "fresh", "expired"}
  /\ access \in Token \cup {None}
  /\ refresh \in Token \cup {None}
  /\ grant \in Token
  /\ leader \in [Op -> Invoke \cup {NoOp}]
  /\ tx \in [Executor -> Op \cup {NoOp}]
  /\ cut \in BOOLEAN
  /\ clientRefused \subseteq Invoke

LEMMA Types == TypeOK <=> FiberTypes /\ OtherTypes
BY DEF TypeOK, FiberTypes, OtherTypes

LEMMA GotoType ==
  ASSUME FiberTypes, NEW i \in Op, NEW next \in PcValue, Goto(i, next),
         UNCHANGED <<used, got, outcome, slot>>
  PROVE  FiberTypes'
BY DEF FiberTypes, Goto

LEMMA TellType ==
  ASSUME FiberTypes, NEW i \in Op, NEW result \in Outcome, Tell(i, result)
  PROVE  /\ outcome' \in [Op -> Outcome]
         /\ slot' \in [Executor -> Invoke \cup {NoOp}]
<1>1. outcome' \in [Op -> Outcome]
  BY DEF FiberTypes, Tell
<1>2. slot' \in [Executor -> Invoke \cup {NoOp}]
  BY DEF FiberTypes, Tell
<1> QED BY <1>1, <1>2

LEMMA EndType ==
  ASSUME FiberTypes, NEW i \in Op, NEW result \in Outcome, End(i, result)
  PROVE  FiberTypes'
<1>1. outcome' \in [Op -> Outcome] /\ slot' \in [Executor -> Invoke \cup {NoOp}]
  BY TellType DEF End
<1>2. pc' \in [Op -> PcValue]
  BY DEF FiberTypes, End, Goto, PcValue
<1>3. used' \in [Op -> Token \cup {None}] /\ got' \in [Op -> Token \cup {None}]
  BY DEF FiberTypes, End
<1> QED BY <1>1, <1>2, <1>3 DEF FiberTypes

LEMMA InitIInv == Init => IInv
<1> SUFFICES ASSUME Init PROVE IInv
  OBVIOUS
<1> USE ConnectionAssumption, Ops DEF Init, Token, None
<1>1. TypeOK
  <2>1. FiberTypes
    BY DEF FiberTypes, PcValue, Outcome
  <2>2. /\ issued \in Token /\ access \in Token /\ refresh \in Token /\ grant \in Token
        /\ honoured \subseteq Token
        /\ grantOf \in [Token -> Token \cup {None}]
    OBVIOUS
  <2>3. OtherTypes
    BY <2>2 DEF OtherTypes
  <2> QED BY <2>1, <2>3, Types
<1>2. Flight
  BY DEF Flight, Leads
<1>3. Pairs
  BY DEF Pairs, Holding
<1>4. Kept
  BY DEF Kept, Holding, Leads
<1> QED BY <1>1, <1>2, <1>3, <1>4 DEF IInv

LEMMA IssueType ==
  ASSUME OtherTypes, NEW sign \in Token \cup {None}, Issue(sign)
  PROVE  /\ issued' = issued + 1 /\ issued' \in Token
         /\ grantOf' \in [Token -> Token \cup {None}]
         /\ honoured' \subseteq Token
         /\ rotates' = rotates
<1>1. issued' = issued + 1 /\ issued' \in Token /\ rotates' = rotates
  BY ConnectionAssumption DEF OtherTypes, Issue, Token
<1>2. grantOf' \in [Token -> Token \cup {None}]
  <2>1. sign = None \/ grantOf[sign] \in Token \cup {None}
    BY DEF OtherTypes
  <2> QED BY <1>1, <2>1 DEF OtherTypes, Issue
<1>3. honoured' \subseteq Token
  BY <1>1 DEF OtherTypes, Issue
<1> QED BY <1>1, <1>2, <1>3

(* The types are preserved by each action.                                 *)
LEMMA FiberTypesStep ==
  ASSUME FiberTypes, OtherTypes, Flight, [Next]_vars
  PROVE  FiberTypes'
<1> USE Ops, GotoType, EndType
<1>1. CASE UNCHANGED vars
  BY <1>1 DEF vars, opVars, FiberTypes
<1>2. CASE Expire
  BY <1>2 DEF Expire, opVars, FiberTypes
<1>3. ASSUME NEW i \in Invoke, ReadRow(i) PROVE FiberTypes'
  BY <1>3 DEF ReadRow, PcValue, Outcome
<1>4. ASSUME NEW i \in Invoke, ReadAccess(i) PROVE FiberTypes'
  BY <1>4 DEF ReadAccess, PcValue, Outcome
<1>5. ASSUME NEW i \in Invoke, Gate(i) PROVE FiberTypes'
  <2>1. slot' \in [Executor -> Invoke \cup {NoOp}]
    BY <1>5 DEF Gate, FiberTypes
  <2>2. pc' \in [Op -> PcValue]
    BY <1>5 DEF Gate, FiberTypes, Goto, PcValue
  <2> QED BY <1>5, <2>1, <2>2 DEF Gate, FiberTypes
<1>6. ASSUME NEW i \in Invoke, Wake(i) PROVE FiberTypes'
  <2>1. leader[i] \in Invoke
    BY <1>6 DEF Wake, Flight, OtherTypes
  <2>2. outcome[leader[i]] \in Outcome
    BY <2>1 DEF FiberTypes
  <2> QED BY <1>6, <2>2 DEF Wake
<1>7. ASSUME NEW i \in Invoke, ReadRefresh(i) PROVE FiberTypes'
  <2>1. pc' \in [Op -> PcValue] /\ used' \in [Op -> Token \cup {None}]
    BY <1>7 DEF ReadRefresh, FiberTypes, OtherTypes, Goto, PcValue
  <2> QED BY <1>7, <2>1 DEF ReadRefresh, FiberTypes
<1>8. ASSUME NEW i \in Invoke, Refreshed(i) PROVE FiberTypes'
  <2>1. issued + 1 \in Token
    BY <1>8, IssueType DEF Refreshed, FiberTypes
  <2>2. pc' \in [Op -> PcValue] /\ got' \in [Op -> Token \cup {None}]
    BY <1>8, <2>1 DEF Refreshed, FiberTypes, Goto, PcValue
  <2> QED BY <1>8, <2>2 DEF Refreshed, FiberTypes
<1>9. ASSUME NEW i \in Invoke, Refused(i) PROVE FiberTypes'
  BY <1>9 DEF Refused, PcValue, Outcome
<1>10. ASSUME NEW i \in Invoke, Unanswered(i) PROVE FiberTypes'
  BY <1>10 DEF Unanswered, PcValue, Outcome
<1>11. ASSUME NEW i \in Invoke, FindRow(i) PROVE FiberTypes'
  BY <1>11 DEF FindRow, PcValue, Outcome
<1>12. ASSUME NEW i \in Reauth, SignIn(i) PROVE FiberTypes'
  <2>1. issued + 1 \in Token
    BY <1>12, IssueType DEF SignIn, FiberTypes
  <2>2. pc' \in [Op -> PcValue] /\ got' \in [Op -> Token \cup {None}]
    BY <1>12, <2>1 DEF SignIn, FiberTypes, Goto, PcValue
  <2> QED BY <1>12, <2>2 DEF SignIn, FiberTypes
<1>13. ASSUME NEW i \in Remove, Disconnect(i) PROVE FiberTypes'
  BY <1>13 DEF Disconnect, PcValue, Outcome
<1>14. ASSUME NEW i \in Op, Begin(i) PROVE FiberTypes'
  BY <1>14 DEF Begin, PcValue, Outcome
<1>15. ASSUME NEW i \in Op, BeginRefused(i) PROVE FiberTypes'
  BY <1>15 DEF BeginRefused, PcValue, Outcome
<1>16. ASSUME NEW i \in Op, SetAccess(i) PROVE FiberTypes'
  BY <1>16 DEF SetAccess, PcValue, Outcome
<1>17. ASSUME NEW i \in Op, SetRefresh(i) PROVE FiberTypes'
  BY <1>17 DEF SetRefresh, PcValue, Outcome
<1>18. ASSUME NEW i \in Op, Commit(i) PROVE FiberTypes'
  BY <1>18 DEF Commit, PcValue, Outcome
<1>19. ASSUME NEW i \in Op, Rollback(i) PROVE FiberTypes'
  BY <1>19 DEF Rollback, PcValue, Outcome
<1>20. ASSUME NEW i \in Op, Interrupt(i) PROVE FiberTypes'
  <2>1. CASE End(i, "interrupted")
    BY <2>1 DEF Outcome
  <2>2. CASE Tell(i, "interrupted") /\ UNCHANGED <<pc, used, got>>
    BY <2>2, TellType DEF FiberTypes, Outcome
  <2> QED BY <1>20, <2>1, <2>2 DEF Interrupt
<1> QED BY <1>1, <1>2, <1>3, <1>4, <1>5, <1>6, <1>7, <1>8, <1>9, <1>10, <1>11, <1>12, <1>13, <1>14, <1>15, <1>16, <1>17, <1>18, <1>19, <1>20
        DEF Next, AccessTokenStep, WriteStep

LEMMA OtherTypesStep ==
  ASSUME FiberTypes, OtherTypes, Pairs, [Next]_vars
  PROVE  OtherTypes'
<1> USE Ops, IssueType DEF serverVars, storeVars, historyVars
<1>1. CASE UNCHANGED vars
  BY <1>1 DEF vars, opVars, OtherTypes
<1>2. CASE Expire
  BY <1>2 DEF Expire, opVars, OtherTypes
<1>3. ASSUME NEW i \in Invoke, ReadRow(i) PROVE OtherTypes'
  BY <1>3 DEF ReadRow, OtherTypes
<1>4. ASSUME NEW i \in Invoke, ReadAccess(i) PROVE OtherTypes'
  BY <1>4 DEF ReadAccess, OtherTypes
<1>5. ASSUME NEW i \in Invoke, Gate(i) PROVE OtherTypes'
  BY <1>5 DEF Gate, OtherTypes, FiberTypes
<1>6. ASSUME NEW i \in Invoke, Wake(i) PROVE OtherTypes'
  BY <1>6 DEF Wake, OtherTypes
<1>7. ASSUME NEW i \in Invoke, ReadRefresh(i) PROVE OtherTypes'
  BY <1>7 DEF ReadRefresh, OtherTypes
<1>8. ASSUME NEW i \in Invoke, Refreshed(i) PROVE OtherTypes'
  <2>1. used[i] \in Token \cup {None}
    BY DEF FiberTypes
  <2>2. Issue(used[i])
    BY <1>8 DEF Refreshed
  <2> QED BY <1>8, <2>1, <2>2 DEF Refreshed, OtherTypes
<1>9. ASSUME NEW i \in Invoke, Refused(i) PROVE OtherTypes'
  BY <1>9 DEF Refused, OtherTypes
<1>10. ASSUME NEW i \in Invoke, Unanswered(i) PROVE OtherTypes'
  <2>1. used[i] \in Token \cup {None}
    BY DEF FiberTypes
  <2>2. CASE Issue(used[i]) /\ cut' = TRUE
    BY <1>10, <2>1, <2>2 DEF Unanswered, OtherTypes
  <2>3. CASE UNCHANGED <<serverVars, cut>>
    BY <1>10, <2>3 DEF Unanswered, OtherTypes
  <2> QED BY <1>10, <2>2, <2>3 DEF Unanswered
<1>11. ASSUME NEW i \in Invoke, FindRow(i) PROVE OtherTypes'
  BY <1>11 DEF FindRow, OtherTypes, Cut
<1>12. ASSUME NEW i \in Reauth, SignIn(i) PROVE OtherTypes'
  <2>1. None \in Token \cup {None}
    BY DEF FiberTypes
  <2>2. Issue(None)
    BY <1>12 DEF SignIn
  <2> QED BY <1>12, <2>1, <2>2 DEF SignIn, OtherTypes
<1>13. ASSUME NEW i \in Remove, Disconnect(i) PROVE OtherTypes'
  BY <1>13 DEF Disconnect, OtherTypes
<1>14. ASSUME NEW i \in Op, Begin(i) PROVE OtherTypes'
  BY <1>14 DEF Begin, OtherTypes
<1>15. ASSUME NEW i \in Op, BeginRefused(i) PROVE OtherTypes'
  BY <1>15 DEF BeginRefused, OtherTypes, Cut
<1>16. ASSUME NEW i \in Op, SetAccess(i) PROVE OtherTypes'
  <2>1. got[i] \in Token \cup {None}
    BY DEF FiberTypes
  <2> QED BY <1>16, <2>1 DEF SetAccess, OtherTypes, Close
<1>17. ASSUME NEW i \in Op, SetRefresh(i) PROVE OtherTypes'
  <2>1. got[i] \in Token \cup {None}
    BY DEF FiberTypes
  <2> QED BY <1>17, <2>1 DEF SetRefresh, OtherTypes, Close
<1>18. ASSUME NEW i \in Op, Commit(i) PROVE OtherTypes'
  <2>1. got[i] \in Token \cup {None}
    BY DEF FiberTypes
  <2>2. i \in Reauth => got[i] \in Token
    BY <1>18, <2>1 DEF Commit, Pairs
  <2>3. row' \in {"absent", "fresh", "expired"}
    BY <1>18, ConnectionAssumption DEF Commit, OtherTypes, Op
  <2> QED BY <1>18, <2>2, <2>3 DEF Commit, OtherTypes, Close
<1>19. ASSUME NEW i \in Op, Rollback(i) PROVE OtherTypes'
  BY <1>19 DEF Rollback, OtherTypes, Close, Cut
<1>20. ASSUME NEW i \in Op, Interrupt(i) PROVE OtherTypes'
  BY <1>20 DEF Interrupt, OtherTypes, Cut
<1> QED BY <1>1, <1>2, <1>3, <1>4, <1>5, <1>6, <1>7, <1>8, <1>9, <1>10, <1>11, <1>12, <1>13, <1>14, <1>15, <1>16, <1>17, <1>18, <1>19, <1>20
        DEF Next, AccessTokenStep, WriteStep

--------------------------------------------------------------------------------
(* The slots and the Deferreds.                                            *)

(* An operation goes on without touching either.                           *)
LEMMA FlightAdvance ==
  ASSUME FiberTypes, Flight, NEW i \in Op, NEW next \in PcValue,
         Goto(i, next), UNCHANGED <<leader, outcome, slot>>,
         next \notin {"idle", "peek", "gate"} \/ leader[i] = NoOp,
         next # "wait",
         i \in Invoke /\ next \in {"lead", "call", "find", "begin", "access",
                                  "refresh", "commit"} => leader[i] = i
  PROVE  Flight'
<1>1. pc' = [pc EXCEPT ![i] = next] /\ pc \in [Op -> PcValue]
  BY DEF Goto, FiberTypes
<1>2. \A j \in Op : Leads(j)' <=> Leads(j)
  BY DEF Leads
<1>3. /\ \A j \in Op : pc'[j] \in {"idle", "peek", "gate"} => leader[j] = NoOp
      /\ \A j \in Op : pc'[j] = "wait" => leader[j] \notin {NoOp, j}
  BY <1>1 DEF Flight
<1>4. \A j \in Invoke :
        pc'[j] \in {"lead", "call", "find", "begin", "access", "refresh", "commit"} =>
          leader[j] = j
  BY <1>1, Ops DEF Flight
<1>5. \A x \in Executor, j \in Op : slot[x] = j => Leads(j)' /\ RunsOn[j] = x
  BY <1>2 DEF Flight
<1> QED BY <1>2, <1>3, <1>4, <1>5 DEF Flight

(* The caller of an operation is told its outcome.                         *)
LEMMA FlightTell ==
  ASSUME FiberTypes, OtherTypes, Flight, NEW i \in Op, NEW result \in Outcome \ {"none"},
         Tell(i, result), UNCHANGED leader,
         UNCHANGED pc \/ Goto(i, "over")
  PROVE  Flight'
<1>1. \A j \in Op : /\ Leads(j)' <=> Leads(j) /\ j # i
                    /\ j # i => outcome'[j] = outcome[j]
  BY DEF Tell, Leads, FiberTypes
<1>2. \A x \in Executor : slot'[x] = IF slot[x] = i THEN NoOp ELSE slot[x]
  BY DEF Tell
<1>3. \A j \in Op : pc'[j] = pc[j] \/ pc'[j] = "over"
  BY DEF Goto, FiberTypes
<1>4. /\ \A j \in Op : pc'[j] \in {"idle", "peek", "gate"} => leader[j] = NoOp
      /\ \A j \in Op : pc'[j] = "wait" => leader[j] \notin {NoOp, j}
      /\ \A j \in Invoke :
           pc'[j] \in {"lead", "call", "find", "begin", "access", "refresh", "commit"} =>
             leader[j] = j
  BY <1>3, Ops DEF Flight
<1>5. \A j \in Op : Leads(j)' => slot'[RunsOn[j]] = j
  BY <1>1, <1>2, Ops DEF Flight
<1>6. \A x \in Executor, j \in Op : slot'[x] = j => Leads(j)' /\ RunsOn[j] = x
  BY <1>1, <1>2, Ops DEF Flight
<1> QED BY <1>4, <1>5, <1>6 DEF Flight

(* A call passes the concurrency gate.                                     *)
LEMMA FlightGate ==
  ASSUME FiberTypes, OtherTypes, Flight, NEW i \in Invoke, Gate(i)
  PROVE  Flight'
<1> DEFINE x == RunsOn[i]
<1>0. i \in Op /\ x \in Executor /\ i # NoOp
  BY Ops
<1>1. leader[i] = NoOp /\ outcome[i] = "none" /\ pc[i] = "gate"
  BY <1>0 DEF Gate, Runs, InBody, Flight
<1>2. \A j \in Op : leader[j] # i
  BY <1>0, <1>1 DEF Flight
<1>3. UNCHANGED outcome
  BY DEF Gate
<1>4. CASE slot[x] = NoOp /\ slot' = [slot EXCEPT ![x] = i]
           /\ leader' = [leader EXCEPT ![i] = i] /\ Goto(i, "lead")
  <2>1. \A j \in Op : /\ leader'[j] = IF j = i THEN i ELSE leader[j]
                      /\ pc'[j] = IF j = i THEN "lead" ELSE pc[j]
    BY <1>4 DEF Goto, FiberTypes, OtherTypes
  <2>2. \A y \in Executor : slot'[y] = IF y = x THEN i ELSE slot[y]
    BY <1>4 DEF FiberTypes
  <2>3. \A j \in Op : Leads(j)' <=> Leads(j) \/ j = i
    BY <2>1, <1>1, <1>3 DEF Leads
  <2>4. /\ \A j \in Op : pc'[j] \in {"idle", "peek", "gate"} => leader'[j] = NoOp
        /\ \A j \in Op : pc'[j] = "wait" => leader'[j] \notin {NoOp, j}
        /\ \A j \in Invoke :
             pc'[j] \in {"lead", "call", "find", "begin", "access", "refresh", "commit"} =>
               leader'[j] = j
    BY <2>1, Ops DEF Flight
  <2>5. \A j \in Op : leader'[j] # NoOp =>
          leader'[leader'[j]] = leader'[j] /\ RunsOn[leader'[j]] = RunsOn[j]
    BY <2>1, <1>0, <1>2, Ops DEF Flight, OtherTypes
  <2>6. \A j \in Op : Leads(j)' => slot'[RunsOn[j]] = j
    BY <2>2, <2>3, <1>4, Ops DEF Flight
  <2>7. \A y \in Executor, j \in Op : slot'[y] = j => Leads(j)' /\ RunsOn[j] = y
    BY <2>2, <2>3, <1>0, Ops DEF Flight
  <2> QED BY <2>4, <2>5, <2>6, <2>7 DEF Flight
<1>5. CASE slot[x] # NoOp /\ leader' = [leader EXCEPT ![i] = slot[x]]
           /\ Goto(i, "wait") /\ UNCHANGED slot
  <2>0. slot[x] \in Op /\ Leads(slot[x]) /\ RunsOn[slot[x]] = x /\ slot[x] # i
    BY <1>0, <1>1, <1>5, Ops DEF Flight, FiberTypes, Leads
  <2>1. \A j \in Op : /\ leader'[j] = IF j = i THEN slot[x] ELSE leader[j]
                      /\ pc'[j] = IF j = i THEN "wait" ELSE pc[j]
    BY <1>5 DEF Goto, FiberTypes, OtherTypes
  <2>3. \A j \in Op : Leads(j)' <=> Leads(j)
    BY <2>0, <2>1, <1>0, <1>1, <1>3 DEF Leads
  <2>4. /\ \A j \in Op : pc'[j] \in {"idle", "peek", "gate"} => leader'[j] = NoOp
        /\ \A j \in Op : pc'[j] = "wait" => leader'[j] \notin {NoOp, j}
        /\ \A j \in Invoke :
             pc'[j] \in {"lead", "call", "find", "begin", "access", "refresh", "commit"} =>
               leader'[j] = j
    BY <2>0, <2>1, <1>5, Ops DEF Flight
  <2>5. \A j \in Op : leader'[j] # NoOp =>
          leader'[leader'[j]] = leader'[j] /\ RunsOn[leader'[j]] = RunsOn[j]
    BY <2>0, <2>1, <1>0, <1>2, Ops DEF Flight, OtherTypes, Leads
  <2>6. \A j \in Op : Leads(j)' => slot'[RunsOn[j]] = j
    BY <2>3, <1>5 DEF Flight
  <2>7. \A y \in Executor, j \in Op : slot'[y] = j => Leads(j)' /\ RunsOn[j] = y
    BY <2>3, <1>5, Ops DEF Flight
  <2> QED BY <2>4, <2>5, <2>6, <2>7 DEF Flight
<1> QED BY <1>4, <1>5 DEF Gate

LEMMA FlightStep ==
  ASSUME FiberTypes, OtherTypes, Flight, [Next]_vars
  PROVE  Flight'
<1> USE Ops DEF PcValue, Outcome
<1>1. CASE UNCHANGED vars
  BY <1>1 DEF vars, opVars, Flight, Leads
<1>2. CASE Expire
  BY <1>2 DEF Expire, opVars, Flight, Leads
<1>3. ASSUME NEW i \in Invoke, ReadRow(i) PROVE Flight'
  <2>1. leader[i] = NoOp
    BY <1>3 DEF ReadRow, Flight
  <2> QED BY <1>3, <2>1, FlightTell, FlightAdvance DEF ReadRow, End
<1>4. ASSUME NEW i \in Invoke, ReadAccess(i) PROVE Flight'
  <2>1. leader[i] = NoOp
    BY <1>4 DEF ReadAccess, Flight
  <2> QED BY <1>4, <2>1, FlightTell, FlightAdvance DEF ReadAccess, End
<1>5. ASSUME NEW i \in Invoke, Gate(i) PROVE Flight'
  BY <1>5, FlightGate
<1>6. ASSUME NEW i \in Invoke, Wake(i) PROVE Flight'
  <2>1. leader[i] \in Invoke
    BY <1>6 DEF Wake, Flight, OtherTypes
  <2>2. outcome[leader[i]] \in Outcome \ {"none"}
    BY <1>6, <2>1 DEF Wake, FiberTypes
  <2> QED BY <1>6, <2>2, FlightTell DEF Wake, End
<1>7. ASSUME NEW i \in Invoke, ReadRefresh(i) \/ Refreshed(i) PROVE Flight'
  <2>1. leader[i] = i
    BY <1>7 DEF ReadRefresh, Refreshed, Flight
  <2> QED BY <1>7, <2>1, FlightAdvance DEF ReadRefresh, Refreshed
<1>8. ASSUME NEW i \in Invoke, Refused(i) \/ Unanswered(i) PROVE Flight'
  BY <1>8, FlightTell DEF Refused, Unanswered, End
<1>9. ASSUME NEW i \in Invoke, FindRow(i) PROVE Flight'
  <2>1. leader[i] = i
    BY <1>9 DEF FindRow, Flight
  <2> QED BY <1>9, <2>1, FlightTell, FlightAdvance DEF FindRow, End
<1>10. ASSUME NEW i \in Reauth, SignIn(i) PROVE Flight'
  BY <1>10, FlightAdvance, ConnectionAssumption DEF SignIn
<1>11. ASSUME NEW i \in Remove, Disconnect(i) PROVE Flight'
  BY <1>11, FlightTell, FlightAdvance, ConnectionAssumption DEF Disconnect, End
<1>12. ASSUME NEW i \in Op, Begin(i) \/ SetAccess(i) \/ SetRefresh(i) PROVE Flight'
  <2>1. i \in Invoke => leader[i] = i
    BY <1>12 DEF Begin, SetAccess, SetRefresh, Flight
  <2> QED BY <1>12, <2>1, FlightAdvance DEF Begin, SetAccess, SetRefresh
<1>13. ASSUME NEW i \in Op, BeginRefused(i) \/ Commit(i) \/ Rollback(i) PROVE Flight'
  BY <1>13, FlightTell DEF BeginRefused, Commit, Rollback, End
<1>14. ASSUME NEW i \in Op, Interrupt(i) PROVE Flight'
  BY <1>14, FlightTell DEF Interrupt, End
<1> QED BY <1>1, <1>2, <1>3, <1>4, <1>5, <1>6, <1>7, <1>8, <1>9, <1>10, <1>11,
           <1>12, <1>13, <1>14
        DEF Next, AccessTokenStep, WriteStep

--------------------------------------------------------------------------------
(* The pairs.                                                              *)

LEMMA PairsAdvance ==
  ASSUME FiberTypes, OtherTypes, Pairs, NEW i \in Op, NEW next \in PcValue,
         Goto(i, next), UNCHANGED <<issued, honoured, refresh, used, got>>,
         i \notin Remove /\ next \in {"find", "begin", "access", "refresh"} => Holding(i),
         i \in Invoke /\ got[i] # None => next \in {"find", "begin", "access", "refresh", "commit"},
         i \in Reauth /\ next = "commit" => got[i] # None
  PROVE  Pairs'
<1>1. \A j \in Op : pc'[j] = IF j = i THEN next ELSE pc[j]
  BY DEF Goto, FiberTypes
<1>2. \A j \in Op : Holding(j)' => Holding(j)
  BY <1>1 DEF Holding
<1>3. \A j \in Invoke : got[j] # None => Holding(j)' \/ pc'[j] = "commit"
  BY <1>1, Ops, ConnectionAssumption DEF Pairs, Holding
<1>4. \A j \in Reauth : pc'[j] = "commit" => got[j] # None
  BY <1>1, Ops DEF Pairs
<1> QED BY <1>2, <1>3, <1>4, Ops DEF Pairs

LEMMA PairsEnd ==
  ASSUME FiberTypes, OtherTypes, Pairs, NEW i \in Op, NEW result, End(i, result),
         UNCHANGED <<issued, honoured, refresh>>
  PROVE  Pairs'
<1>1. \A j \in Op : /\ pc'[j] = IF j = i THEN "over" ELSE pc[j]
                    /\ used'[j] = IF j = i THEN None ELSE used[j]
                    /\ got'[j] = IF j = i THEN None ELSE got[j]
  BY DEF End, Goto, FiberTypes
<1>2. \A j \in Op : Holding(j)' <=> Holding(j) /\ j # i
  BY <1>1 DEF Holding
<1>3. None <= issued
  BY DEF OtherTypes, Token, None
<1> QED BY <1>1, <1>2, <1>3, Ops DEF Pairs

(* A pair is issued to an operation that holds none.                       *)
LEMMA PairsIssue ==
  ASSUME FiberTypes, OtherTypes, Pairs, NEW i \in Op, i \notin Remove,
         NEW next \in {"find", "begin"}, Goto(i, next),
         NEW sign \in Token \cup {None}, Issue(sign), sign \in {used[i], None},
         got' = [got EXCEPT ![i] = issued + 1], UNCHANGED <<refresh, used>>,
         i \in Reauth => sign = None
  PROVE  Pairs'
<1>0. /\ issued' = issued + 1 /\ issued \in Nat /\ refresh \in Nat
      /\ \A j \in Op : used[j] \in Nat /\ got[j] \in Nat
      /\ honoured \subseteq Nat
  BY DEF FiberTypes, OtherTypes, Issue, Token, None
<1>1. \A j \in Op : /\ pc'[j] = IF j = i THEN next ELSE pc[j]
                    /\ got'[j] = IF j = i THEN issued + 1 ELSE got[j]
  BY DEF Goto, FiberTypes
<1>2. \A j \in Op : Holding(j)' <=> Holding(j) \/ j = i
  BY <1>1 DEF Holding
<1>3. \A t \in honoured' : t <= issued'
  <2>1. honoured' \subseteq honoured \cup {issued + 1}
    BY DEF Issue
  <2> QED BY <2>1, <1>0 DEF Pairs
<1>4. /\ refresh <= issued'
      /\ \A j \in Op : used[j] <= issued' /\ got'[j] <= issued'
  BY <1>0, <1>1 DEF Pairs
<1>5. \A j \in Op : Holding(j)' =>
        /\ got'[j] # None /\ got'[j] # refresh
        /\ \A k \in Op : used[k] # got'[j]
        /\ \A k \in Op \ {j} : got'[k] # got'[j]
  BY <1>0, <1>1, <1>2 DEF Pairs, None
<1>6. \A j \in Reauth : Holding(j)' => got'[j] \in honoured'
  <2> SUFFICES ASSUME NEW j \in Reauth, Holding(j)' PROVE got'[j] \in honoured'
    OBVIOUS
  <2>1. CASE j = i
    BY <2>1, <1>1, Ops DEF Issue
  <2>2. CASE j # i
    <3>1. Holding(j) /\ got'[j] = got[j] /\ got[j] \in honoured /\ got[j] # sign
      BY <2>2, <1>1, <1>2, Ops DEF Pairs
    <3> QED BY <3>1 DEF Issue
  <2> QED BY <2>1, <2>2
<1>7. \A j \in Invoke : got'[j] # None => Holding(j)' \/ pc'[j] = "commit"
  BY <1>1, <1>2, Ops DEF Pairs
<1>8. \A j \in Reauth : pc'[j] = "commit" => got'[j] # None
  BY <1>0, <1>1, Ops DEF Pairs, None
<1> QED BY <1>3, <1>4, <1>5, <1>6, <1>7, <1>8 DEF Pairs

LEMMA PairsStep ==
  ASSUME FiberTypes, OtherTypes, Flight, Pairs, [Next]_vars
  PROVE  Pairs'
<1> USE Ops, ConnectionAssumption DEF PcValue, serverVars, storeVars, historyVars
<1>1. CASE UNCHANGED vars
  BY <1>1 DEF vars, opVars, Pairs, Holding
<1>2. CASE Expire
  BY <1>2 DEF Expire, opVars, Pairs, Holding
<1>3. ASSUME NEW i \in Invoke, ReadRow(i) \/ ReadAccess(i) PROVE Pairs'
  <2>1. got[i] = None
    BY <1>3 DEF ReadRow, ReadAccess, Pairs, Holding
  <2> QED BY <1>3, <2>1, PairsAdvance, PairsEnd DEF ReadRow, ReadAccess
<1>4. ASSUME NEW i \in Invoke, Gate(i) PROVE Pairs'
  <2>1. got[i] = None
    BY <1>4 DEF Gate, Pairs, Holding
  <2> QED BY <1>4, <2>1, PairsAdvance DEF Gate
<1>5. ASSUME NEW i \in Invoke, Wake(i) \/ Refused(i) PROVE Pairs'
  BY <1>5, PairsEnd DEF Wake, Refused
<1>6. ASSUME NEW i \in Invoke, ReadRefresh(i) PROVE Pairs'
  <2>1. got[i] = None
    BY <1>6 DEF ReadRefresh, Pairs, Holding
  <2>2. \A j \in Op : /\ pc'[j] = IF j = i THEN "call" ELSE pc[j]
                      /\ used'[j] = IF j = i THEN refresh ELSE used[j]
    BY <1>6 DEF ReadRefresh, Goto, FiberTypes
  <2>3. UNCHANGED <<refresh, honoured, issued, got>>
    BY <1>6 DEF ReadRefresh
  <2>4. \A j \in Op : Holding(j)' <=> Holding(j)
    BY <1>6, <2>2 DEF Holding, ReadRefresh
  <2> QED BY <2>1, <2>2, <2>3, <2>4 DEF Pairs
<1>7. ASSUME NEW i \in Invoke, Refreshed(i) PROVE Pairs'
  <2>1. used[i] \in Token \cup {None} /\ i \notin Remove /\ i \notin Reauth
    BY DEF FiberTypes
  <2> QED BY <1>7, <2>1, PairsIssue DEF Refreshed
<1>8. ASSUME NEW i \in Invoke, Unanswered(i) PROVE Pairs'
  <2>1. CASE UNCHANGED serverVars
    BY <1>8, <2>1, PairsEnd DEF Unanswered
  <2>2. CASE used[i] \in honoured /\ Issue(used[i])
    <3>1. UNCHANGED refresh /\ End(i, "failed") /\ pc[i] = "call"
      BY <1>8 DEF Unanswered
    <3>2. \A j \in Op : /\ pc'[j] = IF j = i THEN "over" ELSE pc[j]
                        /\ used'[j] = IF j = i THEN None ELSE used[j]
                        /\ got'[j] = IF j = i THEN None ELSE got[j]
      BY <3>1 DEF End, Goto, FiberTypes
    <3>3. \A j \in Op : Holding(j)' <=> Holding(j)
      BY <3>1, <3>2 DEF Holding
    <3>4. /\ issued' = issued + 1 /\ issued \in Nat /\ refresh \in Nat
          /\ \A j \in Op : used[j] \in Nat /\ got[j] \in Nat
          /\ honoured \subseteq Nat /\ honoured' \subseteq honoured \cup {issued + 1}
          /\ honoured \ {used[i]} \subseteq honoured'
      BY <2>2 DEF FiberTypes, OtherTypes, Issue, Token, None
    <3>5. /\ \A t \in honoured' : t <= issued'
          /\ refresh <= issued'
          /\ \A j \in Op : used'[j] <= issued' /\ got'[j] <= issued'
      BY <3>2, <3>4 DEF Pairs, None
    <3>6. \A j \in Reauth : Holding(j) => got[j] \in honoured'
      BY <3>4 DEF Pairs
    <3>7. ~Holding(i)
      BY <3>1 DEF Holding
    <3>8. \A j \in Op : Holding(j) =>
            /\ got'[j] # None /\ got'[j] # refresh
            /\ \A k \in Op : used'[k] # got'[j]
            /\ \A k \in Op \ {j} : got'[k] # got'[j]
      BY <3>2, <3>7 DEF Pairs
    <3>9. /\ \A j \in Invoke : got'[j] # None => Holding(j) \/ pc'[j] = "commit"
          /\ \A j \in Reauth : pc'[j] = "commit" => got'[j] # None
          /\ \A j \in Reauth : Holding(j) => got'[j] \in honoured'
      BY <3>1, <3>2, <3>6, <3>7 DEF Pairs
    <3> QED BY <3>1, <3>3, <3>5, <3>8, <3>9 DEF Pairs
  <2> QED BY <1>8, <2>1, <2>2 DEF Unanswered
<1>9. ASSUME NEW i \in Invoke, FindRow(i) PROVE Pairs'
  <2>1. CASE End(i, "notFound")
    BY <1>9, <2>1, PairsEnd DEF FindRow
  <2>2. CASE Goto(i, "begin") /\ UNCHANGED <<used, got, outcome, slot, cut>>
    <3>1. Holding(i)
      BY <1>9 DEF FindRow, Holding
    <3> QED BY <1>9, <2>2, <3>1, PairsAdvance DEF FindRow
  <2> QED BY <1>9, <2>1, <2>2 DEF FindRow
<1>10. ASSUME NEW i \in Reauth, SignIn(i) PROVE Pairs'
  BY <1>10, PairsIssue DEF SignIn
<1>11. ASSUME NEW i \in Remove, Disconnect(i) PROVE Pairs'
  BY <1>11, PairsAdvance, PairsEnd DEF Disconnect
<1>12. ASSUME NEW i \in Op, Begin(i) PROVE Pairs'
  BY <1>12, PairsAdvance DEF Begin, Holding
<1>13. ASSUME NEW i \in Op, SetAccess(i) PROVE Pairs'
  BY <1>13, PairsAdvance DEF SetAccess, Holding
<1>14. ASSUME NEW i \in Op, SetRefresh(i) PROVE Pairs'
  <2>1. \A j \in Op : pc'[j] = IF j = i THEN "commit" ELSE pc[j]
    BY <1>14 DEF SetRefresh, Goto, FiberTypes
  <2>2. \A j \in Op : Holding(j)' <=> Holding(j) /\ j # i
    BY <2>1 DEF Holding
  <2>3. /\ UNCHANGED <<honoured, issued, used, got>>
        /\ refresh' \in {None, got[i], refresh}
    BY <1>14 DEF SetRefresh
  <2>4. refresh' <= issued'
    BY <2>3 DEF Pairs, OtherTypes, Token, None
  <2>5. i \in Reauth => got[i] # None
    BY <1>14 DEF SetRefresh, Pairs, Holding
  <2>6. \A j \in Op : Holding(j)' => got[j] # refresh'
    BY <2>2, <2>3 DEF Pairs
  <2> QED BY <2>1, <2>2, <2>3, <2>4, <2>5, <2>6 DEF Pairs
<1>15. ASSUME NEW i \in Op, BeginRefused(i) \/ Commit(i) \/ Rollback(i) PROVE Pairs'
  BY <1>15, PairsEnd DEF BeginRefused, Commit, Rollback
<1>16. ASSUME NEW i \in Op, Interrupt(i) PROVE Pairs'
  <2>1. CASE End(i, "interrupted")
    BY <1>16, <2>1, PairsEnd DEF Interrupt
  <2>2. CASE UNCHANGED <<pc, used, got>>
    BY <1>16, <2>2 DEF Interrupt, Pairs, Holding
  <2> QED BY <1>16, <2>1, <2>2 DEF Interrupt
<1> QED BY <1>1, <1>2, <1>3, <1>4, <1>5, <1>6, <1>7, <1>8, <1>9, <1>10, <1>11,
           <1>12, <1>13, <1>14, <1>15, <1>16
        DEF Next, AccessTokenStep, WriteStep

--------------------------------------------------------------------------------
(* What is kept while no leader is cut, on one executor.                   *)

(* A leader is alone: the only call that refreshes, or holds a pair.       *)
LEMMA LeaderAlone ==
  ASSUME OneExecutor, Flight, Kept, Pairs, NEW i \in Invoke, Leads(i)
  PROVE  /\ \A j \in Invoke : Leads(j) => j = i
         /\ \A j \in Invoke : Holding(j) => j = i
<1>1. \A j \in Invoke : Leads(j) => j = i
  BY Ops DEF Flight, OneExecutor
<1>2. \A j \in Invoke : Holding(j) => Leads(j)
  BY Ops DEF Flight, Pairs, Kept, Holding, Leads
<1> QED BY <1>1, <1>2

LEMMA KeptAdvance ==
  ASSUME FiberTypes, Kept, NEW i \in Op, NEW next \in PcValue, Goto(i, next),
         UNCHANGED <<rotates, honoured, refresh, leader, outcome, used, got>>,
         i \in Invoke => (Holding(i) <=> next \in {"find", "begin", "access", "refresh"}),
         next # "call"
  PROVE  Kept'
<1>1. \A j \in Op : pc'[j] = IF j = i THEN next ELSE pc[j]
  BY DEF Goto, FiberTypes
<1>2. \A j \in Invoke : Holding(j)' <=> Holding(j)
  BY <1>1, Ops, ConnectionAssumption DEF Holding
<1>3. \A j \in Invoke : Leads(j)' /\ pc'[j] = "call" => Leads(j) /\ pc[j] = "call"
  BY <1>1, Ops DEF Leads
<1> QED BY <1>2, <1>3 DEF Kept

LEMMA KeptEnd ==
  ASSUME FiberTypes, Pairs, Kept, NEW i \in Op, NEW result, End(i, result),
         UNCHANGED <<rotates, honoured, refresh, leader>>,
         i \in Invoke => got[i] = None \/ pc[i] = "commit"
  PROVE  Kept'
<1>1. \A j \in Op : /\ pc'[j] = IF j = i THEN "over" ELSE pc[j]
                    /\ used'[j] = IF j = i THEN None ELSE used[j]
                    /\ got'[j] = IF j = i THEN None ELSE got[j]
                    /\ j # i => outcome'[j] = outcome[j]
  BY DEF End, Goto, Tell, FiberTypes
<1>2. i \in Invoke => ~Holding(i)
  BY Ops DEF Pairs, Holding
<1>3. \A j \in Invoke : Holding(j)' <=> Holding(j)
  BY <1>1, <1>2, Ops DEF Holding
<1>4. \A j \in Invoke : Leads(j)' /\ pc'[j] = "call" =>
        Leads(j) /\ pc[j] = "call" /\ used'[j] = used[j]
  BY <1>1, Ops DEF Leads
<1>5. \A j \in Invoke : got'[j] # None => got'[j] = got[j] /\ outcome'[j] = "none"
  BY <1>1, Ops DEF Kept
<1>6. \A j \in Invoke : Holding(j) => got'[j] = got[j]
  BY <1>1, <1>2, Ops
<1> QED BY <1>3, <1>4, <1>5, <1>6 DEF Kept

(* The only token a step takes out of use is the one it refreshes.         *)
LEMMA KeptStep ==
  ASSUME OneExecutor, FiberTypes, OtherTypes, Flight, Pairs, cut \/ Kept, [Next]_vars
  PROVE  cut' \/ Kept'
<1> SUFFICES ASSUME ~cut' PROVE Kept'
  OBVIOUS
<1> USE Ops, ConnectionAssumption DEF PcValue, serverVars, storeVars, historyVars
<1>0. ASSUME UNCHANGED cut PROVE Kept
  BY <1>0
<1>1. CASE UNCHANGED vars
  BY <1>0, <1>1 DEF vars, opVars, Kept, Holding, Leads
<1>2. CASE Expire
  BY <1>0, <1>2 DEF Expire, opVars, Kept, Holding, Leads
<1>3. ASSUME NEW i \in Invoke, ReadRow(i) \/ ReadAccess(i) PROVE Kept'
  <2>1. got[i] = None /\ ~Holding(i)
    BY <1>3 DEF ReadRow, ReadAccess, Pairs, Holding
  <2>2. Kept
    BY <1>0, <1>3 DEF ReadRow, ReadAccess
  <2> QED BY <1>3, <2>1, <2>2, KeptAdvance, KeptEnd DEF ReadRow, ReadAccess
<1>4. ASSUME NEW i \in Invoke, Gate(i) PROVE Kept'
  <2>1. Kept /\ ~Holding(i) /\ UNCHANGED <<rotates, honoured, refresh, outcome, used, got>>
    BY <1>0, <1>4 DEF Gate, Holding
  <2>2. \A j \in Op : /\ j # i => leader'[j] = leader[j] /\ pc'[j] = pc[j]
                      /\ pc'[i] \in {"lead", "wait"}
    BY <1>4 DEF Gate, Goto, FiberTypes, OtherTypes
  <2>3. \A j \in Invoke : Holding(j)' <=> Holding(j)
    BY <2>1, <2>2 DEF Holding
  <2>4. \A j \in Invoke : Leads(j)' /\ pc'[j] = "call" => Leads(j) /\ pc[j] = "call"
    BY <2>1, <2>2 DEF Leads
  <2> QED BY <2>1, <2>3, <2>4 DEF Kept
<1>5. ASSUME NEW i \in Invoke, Wake(i) \/ Refused(i) PROVE Kept'
  <2>1. got[i] = None
    BY <1>5 DEF Wake, Refused, Pairs, Holding
  <2>2. Kept
    BY <1>0, <1>5 DEF Wake, Refused
  <2> QED BY <1>5, <2>1, <2>2, KeptEnd DEF Wake, Refused
<1>6. ASSUME NEW i \in Invoke, ReadRefresh(i) PROVE Kept'
  <2>1. Kept /\ ~Holding(i) /\ UNCHANGED <<rotates, honoured, refresh, outcome, got, leader>>
    BY <1>0, <1>6 DEF ReadRefresh, Holding
  <2>2. Leads(i)
    BY <1>6 DEF ReadRefresh, Runs, InBody, Flight, Leads
  <2>3. refresh \in honoured \cup {None}
    BY <2>1, <2>2, LeaderAlone DEF Kept
  <2>4. \A j \in Op : /\ pc'[j] = IF j = i THEN "call" ELSE pc[j]
                      /\ used'[j] = IF j = i THEN refresh ELSE used[j]
    BY <1>6 DEF ReadRefresh, Goto, FiberTypes
  <2>5. \A j \in Invoke : /\ Holding(j)' <=> Holding(j)
                          /\ Leads(j)' <=> Leads(j)
    BY <2>1, <2>4 DEF Holding, Leads
  <2> QED BY <2>1, <2>3, <2>4, <2>5 DEF Kept
<1>7. ASSUME NEW i \in Invoke, Refreshed(i) PROVE Kept'
  <2>1. Kept /\ UNCHANGED <<rotates, refresh, outcome, used, leader>>
    BY <1>0, <1>7 DEF Refreshed, Issue
  <2>2. Leads(i)
    BY <1>7 DEF Refreshed, Runs, InBody, Flight, Leads
  <2>3. \A j \in Op : /\ pc'[j] = IF j = i THEN "find" ELSE pc[j]
                      /\ got'[j] = IF j = i THEN issued + 1 ELSE got[j]
    BY <1>7 DEF Refreshed, Goto, FiberTypes
  <2>4. \A j \in Invoke : /\ Holding(j)' <=> j = i
                          /\ Leads(j)' <=> j = i
    BY <1>7, <2>1, <2>2, <2>3, LeaderAlone DEF Holding, Leads, Refreshed
  <2>5. used[i] # None
    BY <1>7 DEF Refreshed, OtherTypes, Token, None
  <2>6. /\ rotates => issued + 1 \in honoured'
        /\ ~rotates => honoured' = honoured
    BY <1>7, <2>5 DEF Refreshed, Issue
  <2>7. outcome[i] = "none"
    BY <2>2 DEF Leads
  <2> QED BY <2>1, <2>3, <2>4, <2>6, <2>7 DEF Kept
<1>8. ASSUME NEW i \in Invoke, Unanswered(i) PROVE Kept'
  <2>1. got[i] = None
    BY <1>8 DEF Unanswered, Pairs, Holding
  <2>2. UNCHANGED <<serverVars, cut>>
    BY <1>8 DEF Unanswered
  <2>3. Kept
    BY <1>0, <2>2
  <2> QED BY <1>8, <2>1, <2>2, <2>3, KeptEnd DEF Unanswered
<1>9. ASSUME NEW i \in Invoke, FindRow(i) PROVE Kept'
  <2>1. CASE End(i, "notFound") /\ Cut(i)
    <3>1. Kept /\ got[i] = None
      BY <2>1 DEF Cut
    <3> QED BY <1>9, <2>1, <3>1, KeptEnd DEF FindRow
  <2>2. CASE Goto(i, "begin") /\ UNCHANGED <<used, got, outcome, slot, cut>>
    <3>1. Holding(i) /\ Kept
      BY <1>0, <1>9, <2>2 DEF FindRow, Holding
    <3> QED BY <1>9, <2>2, <3>1, KeptAdvance DEF FindRow
  <2> QED BY <1>9, <2>1, <2>2 DEF FindRow
<1>10. ASSUME NEW i \in Reauth, SignIn(i) PROVE Kept'
  <2>1. Kept /\ UNCHANGED <<rotates, refresh, outcome, used, leader>>
    BY <1>0, <1>10 DEF SignIn, Issue
  <2>2. honoured \subseteq honoured'
    BY <1>10 DEF SignIn, Issue
  <2>3. \A j \in Invoke : pc'[j] = pc[j] /\ got'[j] = got[j]
    BY <1>10 DEF SignIn, Goto, FiberTypes
  <2>4. \A j \in Invoke : /\ Holding(j)' <=> Holding(j)
                          /\ Leads(j)' <=> Leads(j)
    BY <2>1, <2>3 DEF Holding, Leads
  <2>5. ~rotates => refresh \in honoured' \cup {None}
    BY <2>1, <2>2 DEF Kept
  <2> QED BY <2>1, <2>2, <2>3, <2>4, <2>5 DEF Kept
<1>11. ASSUME NEW i \in Remove, Disconnect(i) PROVE Kept'
  <2>1. Kept
    BY <1>0, <1>11 DEF Disconnect
  <2> QED BY <1>11, <2>1, KeptAdvance, KeptEnd DEF Disconnect
<1>12. ASSUME NEW i \in Op, Begin(i) \/ SetAccess(i) PROVE Kept'
  <2>1. Kept
    BY <1>0, <1>12 DEF Begin, SetAccess
  <2> QED BY <1>12, <2>1, KeptAdvance DEF Begin, SetAccess, Holding
<1>13. ASSUME NEW i \in Op, SetRefresh(i) PROVE Kept'
  <2>1. Kept /\ UNCHANGED <<rotates, honoured, outcome, used, got, leader>>
    BY <1>0, <1>13 DEF SetRefresh
  <2>2. \A j \in Op : pc'[j] = IF j = i THEN "commit" ELSE pc[j]
    BY <1>13 DEF SetRefresh, Goto, FiberTypes
  <2>3. \A j \in Invoke : /\ Holding(j)' <=> Holding(j) /\ j # i
                          /\ Leads(j)' <=> Leads(j)
                          /\ pc'[j] = "call" => pc[j] = "call"
    BY <2>1, <2>2 DEF Holding, Leads
  <2>4. i \notin Remove => Holding(i)
    BY <1>13 DEF SetRefresh, Holding
  <2>5. refresh' \in honoured \cup {None} \/ (refresh' = refresh /\ i \in Invoke /\ ~rotates)
    BY <1>13, <2>1, <2>4 DEF SetRefresh, Kept, Pairs, Op
  <2>6. refresh' \in honoured \cup {None}
    BY <2>1, <2>5 DEF Kept
  <2> QED BY <2>1, <2>3, <2>6 DEF Kept
<1>14. ASSUME NEW i \in Op, BeginRefused(i) \/ Rollback(i) PROVE Kept'
  <2>1. Kept /\ (i \in Invoke => got[i] = None)
    BY <1>14 DEF BeginRefused, Rollback, Cut
  <2> QED BY <1>14, <2>1, KeptEnd DEF BeginRefused, Rollback
<1>15. ASSUME NEW i \in Op, Commit(i) PROVE Kept'
  <2>1. Kept
    BY <1>0, <1>15 DEF Commit
  <2> QED BY <1>15, <2>1, KeptEnd DEF Commit
<1>16. ASSUME NEW i \in Op, Interrupt(i) PROVE Kept'
  <2>1. Kept /\ (i \in Invoke => got[i] = None)
    BY <1>16 DEF Interrupt, Cut
  <2>2. CASE End(i, "interrupted")
    BY <1>16, <2>1, <2>2, KeptEnd DEF Interrupt
  <2>3. CASE Tell(i, "interrupted") /\ UNCHANGED <<pc, used, got>>
    <3>1. UNCHANGED <<rotates, honoured, refresh, leader>>
      BY <1>16 DEF Interrupt
    <3>2. \A j \in Op : j # i => outcome'[j] = outcome[j]
      BY <2>3 DEF Tell, FiberTypes
    <3>3. \A j \in Op : outcome'[j] = "none" => outcome[j] = "none"
      BY <2>3 DEF Tell, FiberTypes
    <3>4. \A j \in Invoke : /\ Holding(j)' <=> Holding(j)
                            /\ Leads(j)' => Leads(j)
      BY <2>3, <3>1, <3>3 DEF Holding, Leads
    <3> QED BY <2>1, <2>3, <3>1, <3>2, <3>4 DEF Kept
  <2> QED BY <1>16, <2>2, <2>3 DEF Interrupt
<1> QED BY <1>1, <1>2, <1>3, <1>4, <1>5, <1>6, <1>7, <1>8, <1>9, <1>10, <1>11,
           <1>12, <1>13, <1>14, <1>15, <1>16
        DEF Next, AccessTokenStep, WriteStep

--------------------------------------------------------------------------------
(* The theorems.                                                           *)

Inv == FiberTypes /\ OtherTypes /\ Flight /\ Pairs

(* Invariance of the types, the slots and the pairs, on any number of      *)
(* executors: the strengthening that the safety theorems need.             *)
THEOREM Invariance == Spec => []Inv
<1>1. Init => Inv
  BY InitIInv, Types DEF IInv, Inv
<1>2. Inv /\ [Next]_vars => Inv'
  BY FiberTypesStep, OtherTypesStep, FlightStep, PairsStep DEF Inv
<1> QED BY <1>1, <1>2, PTL DEF Spec

(* Type correctness.                                                       *)
THEOREM TypeCorrect == Spec => []TypeOK
<1>1. Inv => TypeOK
  BY Types DEF Inv
<1> QED BY <1>1, Invariance, PTL

(* At most one accessToken call of an executor refreshes at a time, and    *)
(* nobody awaits a call that has been forgotten.                           *)
THEOREM OneRefreshAtATime == Spec => []SingleFlight
<1>1. Inv => SingleFlight
  <2> SUFFICES ASSUME Inv, NEW i \in Invoke, NEW j \in Invoke
               PROVE  /\ RunsOn[i] = RunsOn[j] /\ Leads(i) /\ Leads(j) => i = j
                      /\ pc[j] = "wait" /\ leader[j] = i /\ outcome[i] = "none" =>
                           slot[RunsOn[j]] = i
    BY DEF SingleFlight
  <2>1. RunsOn[i] = RunsOn[j] /\ Leads(i) /\ Leads(j) => i = j
    BY Ops DEF Inv, Flight
  <2>2. pc[j] = "wait" /\ leader[j] = i /\ outcome[i] = "none" => slot[RunsOn[j]] = i
    BY Ops DEF Inv, Flight, Leads
  <2> QED BY <2>1, <2>2
<1> QED BY <1>1, Invariance, PTL

LEMMA KeptInvariance ==
  ASSUME OneExecutor
  PROVE  Spec => [](Inv /\ (cut \/ Kept))
<1>1. Init => Inv /\ (cut \/ Kept)
  BY InitIInv, Types DEF IInv, Inv
<1>2. Inv /\ (cut \/ Kept) /\ [Next]_vars => Inv' /\ (cut \/ Kept)'
  BY OneExecutor, FiberTypesStep, OtherTypesStep, FlightStep, PairsStep, KeptStep DEF Inv
<1> QED BY <1>1, <1>2, PTL DEF Spec

(* With one executor no order of refreshes, sign-ins and removals loses    *)
(* the refresh token the server accepts, however many there are.           *)
THEOREM RefreshTokenKept ==
  ASSUME OneExecutor
  PROVE  Spec => []StoredIsHonoured
<1>1. Inv /\ (cut \/ Kept) => StoredIsHonoured
  <2> SUFFICES ASSUME Inv, Kept, \A i \in Invoke : Leads(i) => got[i] = None
               PROVE  refresh \in honoured \cup {None}
    BY DEF StoredIsHonoured
  <2>1. \A i \in Invoke : Holding(i) => Leads(i) /\ got[i] # None
    BY Ops DEF Inv, Flight, Pairs, Kept, Holding, Leads
  <2> QED BY <2>1 DEF Kept
<1> QED BY <1>1, KeptInvariance, PTL

(* With one executor a call is told to sign in again only when it found no *)
(* refresh token, when a pair was lost, or when the server refused its     *)
(* client: the token it presents is always one the server honours, whoever *)
(* refreshes, signs in or removes meanwhile.                               *)
THEOREM NoReauthInVain ==
  ASSUME OneExecutor
  PROVE  Spec => NoNeedlessReauth
<1> DEFINE Warranted ==
      \A i \in Invoke :
        ToldToSignIn(i) => used[i] = None \/ cut \/ i \in clientRefused'
<1>1. Inv /\ (cut \/ Kept) /\ [Next]_vars => Warranted
  <2> SUFFICES ASSUME Inv, Kept, [Next]_vars, NEW i \in Invoke, ToldToSignIn(i),
                      i \notin clientRefused'
               PROVE  used[i] = None
    OBVIOUS
  <2> USE Ops, ConnectionAssumption
  <2>1. Leads(i) /\ outcome'[i] = "reauth"
    BY DEF ToldToSignIn, Leads
  <2>2. CASE Refused(i)
    <3>1. used[i] \in honoured \cup {None}
      BY <2>1, <2>2 DEF Kept, Refused
    <3> QED BY <2>2, <3>1 DEF Refused
  <2>3. ASSUME NEW j \in Op, NEW result, result # "reauth" \/ j # i, Tell(j, result)
        PROVE  FALSE
    BY <2>1, <2>3 DEF Tell, Inv, FiberTypes, Leads
  <2>4. ASSUME UNCHANGED outcome PROVE FALSE
    BY <2>1, <2>4 DEF Leads
  <2>5. ASSUME NEW j \in Invoke, ReadRow(j) \/ AccessTokenStep(j) PROVE used[i] = None
    <3>1. CASE ReadRow(j)
      BY <3>1, <2>3, <2>4 DEF ReadRow, End
    <3>2. CASE ReadAccess(j)
      BY <3>2, <2>3, <2>4 DEF ReadAccess, End
    <3>3. CASE Gate(j) \/ ReadRefresh(j) \/ Refreshed(j)
      BY <3>3, <2>4 DEF Gate, ReadRefresh, Refreshed
    <3>4. CASE Wake(j)
      <4>1. j # i
        BY <3>4, <2>1 DEF Wake, Inv, Flight, Leads
      <4> QED BY <3>4, <4>1, <2>3 DEF Wake, End
    <3>5. CASE Refused(j)
      <4>1. CASE j = i
        BY <3>5, <4>1, <2>2
      <4>2. CASE j # i
        BY <3>5, <4>2, <2>3 DEF Refused, End
      <4> QED BY <4>1, <4>2
    <3>6. CASE Unanswered(j)
      BY <3>6, <2>3 DEF Unanswered, End
    <3>7. CASE FindRow(j)
      BY <3>7, <2>3, <2>4 DEF FindRow, End
    <3> QED BY <2>5, <3>1, <3>2, <3>3, <3>4, <3>5, <3>6, <3>7 DEF AccessTokenStep
  <2>6. ASSUME NEW j \in Op, WriteStep(j) \/ Interrupt(j) PROVE FALSE
    <3>1. CASE Begin(j) \/ SetAccess(j) \/ SetRefresh(j)
      BY <3>1, <2>4 DEF Begin, SetAccess, SetRefresh
    <3>2. CASE BeginRefused(j) \/ Commit(j)
      BY <3>2, <2>3 DEF BeginRefused, Commit, End
    <3>3. CASE Rollback(j)
      BY <3>3, <2>3 DEF Rollback, End
    <3>4. CASE Interrupt(j)
      BY <3>4, <2>3 DEF Interrupt, End
    <3> QED BY <2>6, <3>1, <3>2, <3>3, <3>4 DEF WriteStep
  <2>7. ASSUME NEW j \in Reauth, SignIn(j) PROVE FALSE
    BY <2>7, <2>4 DEF SignIn
  <2>8. ASSUME NEW j \in Remove, Disconnect(j) PROVE FALSE
    BY <2>8, <2>3, <2>4 DEF Disconnect, End
  <2>9. CASE Expire \/ UNCHANGED vars
    BY <2>9, <2>4 DEF Expire, vars, opVars
  <2> QED BY <2>5, <2>6, <2>7, <2>8, <2>9 DEF Next
<1>2. Spec => [](Inv /\ (cut \/ Kept))
  BY KeptInvariance
<1> QED BY <1>1, <1>2, PTL DEF Spec, NoNeedlessReauth
================================================================================
